--------------------------- MODULE Monitors_proofs ---------------------------
(***************************************************************************)
(* What hot-plugging leaves true, for any number of outputs of which the   *)
(* last may come and go (OneExternal): the list of monitors follows the    *)
(* outputs, its pointers stay in it, and no window goes with a monitor.    *)
(*                                                                         *)
(* The invariant (Inv) speaks of the list as a sequence: Roster says that  *)
(* the next pointers from the head on run through the addresses of L, each *)
(* once, whose monitors show the outputs in the order RandR enumerates     *)
(* them, and that every other address is free.  This is more than the      *)
(* properties ask for, and what makes them inductive: the only monitor     *)
(* that is ever pushed on the list of monitors to remove is then the last, *)
(* whose next pointer is NULL already, so that the push does not cut the   *)
(* list, and the monitor that is unlinked has a predecessor.               *)
(*                                                                         *)
(* The proofs follow update_monitors: outputs that stay (ExaminedIs), one  *)
(* that is added (OneAdded) or removed (MergeIs, DestroyIs, OneRemoved),   *)
(* all cases together (UpdateIs), then what the handler does with them     *)
(* (HandledIs), the other handlers, and the list zwm starts with (InitIs). *)
(***************************************************************************)
EXTENDS Monitors, FiniteSetTheorems, SequenceTheorems, WellFoundedInduction, TLAPS

-----------------------------------------------------------------------------
(* Chains.                                                                 *)

\* The order of the numbers.
Before == OpToRel(<, Nat)

\* Before holds of two numbers in increasing order.
LEMMA BeforeIs == \A x, y \in Nat : x < y => <<x, y>> \in Before
BY DEF Before, OpToRel

\* A set of numbers that is not empty has a least element.
LEMMA LeastIn ==
  ASSUME NEW T, T \subseteq Nat, T # {}
  PROVE  \E x \in T : \A y \in T : ~(y < x)
<1>1. IsWellFoundedOn(Before, Nat)
  BY NatLessThanWellFounded DEF Before
<1>2. \E x \in T : \A y \in T : ~(<<y, x>> \in Before)
  BY <1>1, WFMin
<1> QED BY <1>2, BeforeIs

\* Two sequences of values that start alike, and go on alike as long as they were alike,
\* end alike: an iteration has one result.
LEMMA SameEnd ==
  ASSUME NEW n \in Nat, NEW f, NEW g, f[0] = g[0],
         \A i \in 1 .. n : f[i - 1] = g[i - 1] => f[i] = g[i]
  PROVE  f[n] = g[n]
<1> DEFINE T == {i \in 0 .. n : f[i] # g[i]}
<1> SUFFICES ASSUME f[n] # g[n] PROVE FALSE
  OBVIOUS
<1>1. T \subseteq Nat /\ n \in T
  OBVIOUS
<1>2. PICK i \in T : \A j \in T : ~(j < i)
  <2> HIDE DEF T
  <2> QED BY <1>1, LeastIn
<1>3. i # 0 => i \in 1 .. n /\ f[i - 1] = g[i - 1]
  BY <1>1, <1>2
<1> QED BY <1>2, <1>3

\* The monitors of L, and no others, follow each other in M.
Chained(M, L) ==
  /\ L \in Seq(Addresses)
  /\ \A i, j \in 1 .. Len(L) : L[i] = L[j] => i = j
  /\ \A i \in 1 .. Len(L) : M[L[i]].next = IF i < Len(L) THEN L[i + 1] ELSE NULL
  /\ \A a \in Addresses \ In(L) : M[a].next = NULL

\* One step of the recursion of Chain.
ChainStep(M, f, k) ==
  [x \in Addresses \cup {NULL} |->
     IF x = NULL \/ k = 0 THEN <<>> ELSE <<x>> \o f[k - 1][M[x].next]]

\* A list is not longer than there are addresses.
LEMMA ShortList ==
  ASSUME NEW M, NEW L, Chained(M, L)
  PROVE  Cardinality(Addresses) \in Nat /\ Len(L) <= Cardinality(Addresses)
<1>1. Cardinality(Addresses) \in Nat
  BY MonitorsAssumption, FS_CardinalityType
<1>2. Len(L) \in Nat /\ L \in [1 .. Len(L) -> Addresses]
  BY DEF Chained
<1>3. L \in Injection(1 .. Len(L), Addresses)
  BY <1>2 DEF Injection, IsInjective, Chained
<1>4. Cardinality(1 .. Len(L)) <= Cardinality(Addresses)
  BY <1>3, <1>2, MonitorsAssumption, FS_Injection DEF ExistsInjection
<1>5. Cardinality(1 .. Len(L)) = Len(L)
  BY <1>2, FS_Interval
<1> QED BY <1>1, <1>4, <1>5

\* From a monitor of the list on, Chain is the rest of the list.
LEMMA ChainIs ==
  ASSUME NEW M, NEW L, Chained(M, L)
  PROVE  /\ Chain(M, NULL) = <<>>
         /\ \A p \in 1 .. Len(L) : Chain(M, L[p]) = SubSeq(L, p, Len(L))
<1> DEFINE K == Cardinality(Addresses)
           X == Addresses \cup {NULL}
           last(p, k) == IF p + k - 1 <= Len(L) THEN p + k - 1 ELSE Len(L)
           at(x) == CHOOSE i \in 1 .. Len(L) : L[i] = x
           val(k, x) == IF x = NULL \/ k = 0 THEN <<>>
                        ELSE IF x \notin In(L) THEN <<x>>
                        ELSE SubSeq(L, at(x), last(at(x), k))
           G == [k \in 0 .. K |-> [x \in X |-> val(k, x)]]
           from == CHOOSE f : f = [k \in 0 .. K |-> ChainStep(M, f, k)]
<1>1. K \in Nat /\ Len(L) <= K /\ Len(L) \in Nat /\ L \in Seq(Addresses)
  BY ShortList DEF Chained
<1>2. NULL \notin Addresses
  BY MonitorsAssumption
<1>3. \A i \in 1 .. Len(L) : L[i] \in In(L) /\ at(L[i]) = i /\ L[i] \in Addresses
  BY <1>1 DEF Chained, In
<1>4. ASSUME NEW x \in In(L) PROVE at(x) \in 1 .. Len(L) /\ L[at(x)] = x /\ x \in Addresses
  BY <1>1, <1>4 DEF In
<1> HIDE DEF at
<1>5. ASSUME NEW k \in 0 .. K, NEW x \in X
      PROVE  val(k, x) = IF x = NULL \/ k = 0 THEN <<>> ELSE <<x>> \o val(k - 1, M[x].next)
  <2>1. CASE x = NULL \/ k = 0
    BY <2>1
  <2>2. CASE x # NULL /\ k # 0 /\ x \notin In(L)
    <3>1. M[x].next = NULL
      BY <2>2 DEF Chained
    <3>2. val(k - 1, NULL) = <<>>
      OBVIOUS
    <3>3. <<x>> \o <<>> = <<x>>
      OBVIOUS
    <3> HIDE DEF val
    <3>4. val(k, x) = <<x>>
      BY <2>2 DEF val
    <3> QED BY <2>2, <3>1, <3>2, <3>3, <3>4
  <2>3. CASE x # NULL /\ k # 0 /\ x \in In(L)
    <3> DEFINE p == at(x)
    <3>1. p \in 1 .. Len(L) /\ L[p] = x
      BY <1>4, <2>3
    <3>2. val(k, x) = SubSeq(L, p, last(p, k))
      BY <2>3
    <3>3. M[x].next = IF p < Len(L) THEN L[p + 1] ELSE NULL
      BY <3>1 DEF Chained
    <3>4. val(k - 1, M[x].next) = SubSeq(L, p + 1, last(p, k))
      <4>1. CASE p = Len(L)
        <5>1. last(p, k) = p
          BY <1>1, <2>3, <3>1, <4>1
        <5>2. val(k - 1, NULL) = <<>>
          OBVIOUS
        <5>3. SubSeq(L, p + 1, p) = <<>>
          BY <3>1, <1>1
        <5>4. M[x].next = NULL
          BY <1>1, <3>1, <3>3, <4>1
        <5> HIDE DEF val, last, p
        <5> QED BY <5>1, <5>2, <5>3, <5>4
      <4>2. CASE p # Len(L) /\ k = 1
        <5>1. last(p, k) = p
          BY <1>1, <2>3, <3>1, <4>2
        <5>2. val(0, M[x].next) = <<>>
          OBVIOUS
        <5>3. SubSeq(L, p + 1, p) = <<>>
          BY <3>1, <1>1
        <5> HIDE DEF val, last, p
        <5>4. k - 1 = 0
          BY <4>2
        <5> QED BY <5>1, <5>2, <5>3, <5>4
      <4>3. CASE p # Len(L) /\ k # 1
        <5>1. p + 1 \in 1 .. Len(L) /\ M[x].next = L[p + 1]
          BY <3>1, <3>3, <4>3, <1>1
        <5>2. L[p + 1] \in In(L) /\ at(L[p + 1]) = p + 1 /\ L[p + 1] # NULL
          BY <1>2, <1>3, <5>1
        <5>3. last(p + 1, k - 1) = last(p, k)
          BY <1>1, <3>1, <1>5
        <5>4. k - 1 # 0
          BY <4>3, <1>1
        <5>5. val(k - 1, L[p + 1]) = SubSeq(L, p + 1, last(p + 1, k - 1))
          BY <5>2, <5>4
        <5> HIDE DEF val, last, p
        <5> QED BY <5>1, <5>3, <5>5
      <4> QED BY <4>1, <4>2, <4>3
    <3>5. last(p, k) \in p .. Len(L)
      BY <1>1, <2>3, <3>1, <1>5
    <3> HIDE DEF val, last, p
    <3>6. SubSeq(L, p, last(p, k)) = <<x>> \o SubSeq(L, p + 1, last(p, k))
      <4> DEFINE e == last(p, k)
      <4>1. e \in Nat /\ p \in Nat /\ p <= e /\ e <= Len(L) /\ p >= 1
        BY <3>1, <3>5, <1>1
      <4>2. e \in p .. Len(L)
        BY <4>1, <1>1
      <4> HIDE DEF e
      <4>3. SubSeq(L, p, e) = <<x>> \o SubSeq(L, p + 1, e)
        BY <4>2, <3>1, <1>1, SubSeqRecursiveFirst
      <4> QED BY <4>3 DEF e
    <3> QED BY <2>3, <3>2, <3>4, <3>6
  <2> QED BY <2>1, <2>2, <2>3
<1>6. G = [k \in 0 .. K |-> ChainStep(M, G, k)]
  <2>1. ASSUME NEW k \in 0 .. K PROVE G[k] = ChainStep(M, G, k)
    <3>1. ASSUME NEW x \in X PROVE val(k, x) = ChainStep(M, G, k)[x]
      <4>1. CASE x = NULL \/ k = 0
        BY <4>1 DEF ChainStep
      <4>2. CASE x # NULL /\ k # 0
        <5>1. k - 1 \in 0 .. K /\ M[x].next \in X
          <6>1. k - 1 \in 0 .. K
            BY <4>2, <1>1
          <6>2. CASE x \in In(L)
            <7>1. PICK i \in 1 .. Len(L) : x = L[i]
              BY <1>1, <6>2 DEF In
            <7>2. M[x].next = IF i < Len(L) THEN L[i + 1] ELSE NULL
              BY <7>1 DEF Chained
            <7>3. i < Len(L) => i + 1 \in 1 .. Len(L)
              BY <1>1
            <7>4. i < Len(L) => L[i + 1] \in Addresses
              BY <1>1, <7>3
            <7> QED BY <6>1, <7>2, <7>4
          <6>3. CASE x \notin In(L)
            BY <4>2, <6>1, <6>3 DEF Chained
          <6> QED BY <6>2, <6>3
        <5>2. G[k - 1][M[x].next] = val(k - 1, M[x].next)
          BY <5>1
        <5> HIDE DEF val, G
        <5> QED BY <1>5, <4>2, <5>2 DEF ChainStep
      <4> QED BY <4>1, <4>2
    <3>2. G[k] = [x \in X |-> val(k, x)]
      OBVIOUS
    <3> HIDE DEF val, G
    <3> QED BY <3>1, <3>2 DEF ChainStep
  <2>2. G = [k \in 0 .. K |-> G[k]]
    OBVIOUS
  <2> HIDE DEF G
  <2> QED BY <2>1, <2>2
<1> HIDE DEF G
<1>7. from = [k \in 0 .. K |-> ChainStep(M, from, k)]
  BY <1>6
<1> HIDE DEF from
<1>8. \A k \in 0 .. K : from[k] = G[k]
  <2> DEFINE T == {k \in 0 .. K : from[k] # G[k]}
  <2> SUFFICES ASSUME T # {} PROVE FALSE
    OBVIOUS
  <2>1. T \subseteq Nat
    BY <1>1
  <2>2. PICK k \in T : \A j \in T : ~(j < k)
    <3> HIDE DEF T
    <3> QED BY <2>1, LeastIn
  <2>3. k # 0 => from[k - 1] = G[k - 1]
    BY <1>1, <2>1, <2>2
  <2>4. ChainStep(M, from, k) = ChainStep(M, G, k)
    BY <2>3 DEF ChainStep
  <2> QED BY <1>6, <1>7, <2>2, <2>4
<1>9. \A a : Chain(M, a) = from[K][a]
  BY DEF Chain, from, ChainStep
<1>10. \A x \in X : Chain(M, x) = val(K, x)
  <2>1. K \in 0 .. K
    BY <1>1
  <2> HIDE DEF val, K
  <2>2. G[K] = [x \in X |-> val(K, x)]
    BY <2>1 DEF G
  <2> QED BY <1>8, <1>9, <2>1, <2>2
<1>11. Chain(M, NULL) = <<>>
  BY <1>10
<1>12. ASSUME NEW p \in 1 .. Len(L) PROVE Chain(M, L[p]) = SubSeq(L, p, Len(L))
  <2>1. last(p, K) = Len(L)
    BY <1>1
  <2>2. K # 0
    BY <1>1
  <2> QED BY <1>2, <1>3, <1>10, <2>1, <2>2
<1> QED BY <1>11, <1>12

\* The list L of monitors M starts with head.
Lists(M, head, L) ==
  /\ Chained(M, L)
  /\ head = IF L = <<>> THEN NULL ELSE L[1]

\* Chain(M, head) is the list, whatever it holds.
LEMMA ListIs ==
  ASSUME NEW M, NEW head, NEW L, Lists(M, head, L)
  PROVE  Chain(M, head) = L
<1>1. L \in Seq(Addresses)
  BY DEF Lists, Chained
<1>2. CASE L = <<>>
  BY <1>2, ChainIs DEF Lists
<1>3. CASE L # <<>>
  <2>1. 1 \in 1 .. Len(L)
    BY <1>1, <1>3
  <2>2. Chain(M, L[1]) = SubSeq(L, 1, Len(L))
    BY <2>1, ChainIs DEF Lists
  <2> QED BY <1>1, <1>3, <2>2, SubSeqFull DEF Lists
<1> QED BY <1>2, <1>3

-----------------------------------------------------------------------------
(* Rosters.                                                                *)

Last == Len(OutputOrder)

\* The monitors of M are the list L, one for each of the first outputs.
Roster(M, head, L) ==
  /\ Lists(M, head, L)
  /\ M \in [Addresses -> MonitorRecords]
  /\ Len(L) <= Last
  /\ \A i \in 1 .. Len(L) : M[L[i]].output = OutputOrder[i]
  /\ \A a \in Addresses \ In(L) : M[a] = FreeMonitor

\* The outputs are those RandR enumerates, each once.
LEMMA OrderIs ==
  /\ Last \in Nat /\ OutputOrder \in Seq(Outputs)
  /\ \A i \in 1 .. Last : OutputOrder[i] \in Outputs /\ OutputOrder[i] # NULL
  /\ \A i, j \in 1 .. Last : OutputOrder[i] = OutputOrder[j] => i = j
  /\ \A o \in Outputs : \E i \in 1 .. Last : o = OutputOrder[i]
<1>1. OutputOrder \in Seq(Outputs) /\ NULL \notin Outputs
  BY MonitorsAssumption
<1>2. Last \in Nat /\ DOMAIN OutputOrder = 1 .. Last
  BY <1>1 DEF Last
<1>3. \A i \in 1 .. Last : OutputOrder[i] \in Outputs
  BY <1>1, <1>2 DEF Last
<1>4. \A o \in Outputs : \E i \in 1 .. Last : o = OutputOrder[i]
  BY <1>2 DEF Outputs
<1> QED BY <1>1, <1>2, <1>3, <1>4, MonitorsAssumption

\* A blank monitor has its types.
LEMMA FreeTyped ==
  /\ FreeMonitor \in MonitorRecords /\ FreeMonitor.output = NULL /\ FreeMonitor.next = NULL
  /\ \A d \in DesktopIds : FreeMonitor.tree[d] = {}
<1>1. 0 \in DesktopIds
  BY MonitorsAssumption DEF DesktopIds
<1>2. 0 \in 0 .. UINT16 - 1
  BY DEF UINT16
<1> QED BY <1>1, <1>2 DEF FreeMonitor, MonitorRecords

\* The elements of a list.
LEMMA RosterIs ==
  ASSUME NEW M, NEW head, NEW L, Roster(M, head, L)
  PROVE  /\ Len(L) \in Nat /\ L \in Seq(Addresses) /\ Len(L) <= Last
         /\ \A i \in 1 .. Len(L) : L[i] \in In(L) /\ L[i] \in Addresses /\ L[i] # NULL
         /\ \A a \in In(L) : a \in Addresses /\ a # NULL /\ \E i \in 1 .. Len(L) : a = L[i]
         /\ \A i, j \in 1 .. Len(L) : L[i] = L[j] => i = j
         /\ Chain(M, head) = L
<1>1. L \in Seq(Addresses) /\ NULL \notin Addresses
  BY MonitorsAssumption DEF Roster, Lists, Chained
<1>2. Len(L) \in Nat /\ DOMAIN L = 1 .. Len(L)
  BY <1>1
<1>3. \A i \in 1 .. Len(L) : L[i] \in In(L) /\ L[i] \in Addresses /\ L[i] # NULL
  BY <1>1, <1>2 DEF In
<1>4. \A a \in In(L) : a \in Addresses /\ a # NULL /\ \E i \in 1 .. Len(L) : a = L[i]
  BY <1>1, <1>2 DEF In
<1>5. Chain(M, head) = L
  BY ListIs DEF Roster
<1> QED BY <1>1, <1>2, <1>3, <1>4, <1>5 DEF Roster, Lists, Chained

\* get_monitor_by_randr_id finds the monitor of an output, if it has one.
LEMMA GetIs ==
  ASSUME NEW M, NEW head, NEW L, Roster(M, head, L), NEW i \in 1 .. Last
  PROVE  get_monitor_by_randr_id(M, head, OutputOrder[i]) = IF i <= Len(L) THEN L[i] ELSE NULL
<1> DEFINE S == {a \in Addresses : M[a].output = OutputOrder[i]}
           found == {j \in DOMAIN L : L[j] \in S}
<1>1. /\ Len(L) \in Nat /\ Len(L) <= Last /\ DOMAIN L = 1 .. Len(L)
      /\ \A j \in 1 .. Len(L) : L[j] \in Addresses
  BY RosterIs
<1>2. \A j \in 1 .. Len(L) : L[j] \in S <=> j = i
  BY <1>1, OrderIs DEF Roster
<1>3. found = IF i <= Len(L) THEN {i} ELSE {}
  BY <1>1, <1>2
<1>4. Chain(M, head) = L
  BY RosterIs
<1> HIDE DEF S
<1>5. FirstOf(L, S) = IF i <= Len(L) THEN L[i] ELSE NULL
  <2>1. CASE i <= Len(L)
    <3>1. found = {i} /\ i \in Nat
      BY <1>3, <2>1, OrderIs
    <3> HIDE DEF found
    <3>2. (CHOOSE j \in found : \A k \in found : j <= k) = i
      BY <3>1
    <3> QED BY <2>1, <3>1, <3>2 DEF FirstOf, found
  <2>2. CASE ~(i <= Len(L))
    BY <1>3, <2>2 DEF FirstOf
  <2> QED BY <2>1, <2>2
<1> QED BY <1>4, <1>5 DEF get_monitor_by_randr_id, S

\* malloc returns an address that is not in the list, while there is one.
LEMMA FreeIs ==
  ASSUME NEW M, NEW head, NEW L, Roster(M, head, L)
  PROVE  /\ FreeAddresses(M) = Addresses \ In(L)
         /\ FreeAddresses(M) # {} =>
              Malloc(FreeAddresses(M)) \in Addresses \ In(L)
<1>1. FreeAddresses(M) = Addresses \ In(L)
  <2>1. \A a \in In(L) : M[a].output # NULL
    <3> SUFFICES ASSUME NEW a \in In(L) PROVE M[a].output # NULL
      OBVIOUS
    <3>1. PICK i \in 1 .. Len(L) : a = L[i]
      BY RosterIs
    <3>2. Len(L) \in Nat /\ Len(L) <= Last /\ M[L[i]].output = OutputOrder[i]
      BY RosterIs DEF Roster
    <3>3. i \in 1 .. Last
      BY <3>2, OrderIs
    <3> QED BY <3>1, <3>2, <3>3, OrderIs
  <2>2. \A a \in Addresses \ In(L) : M[a].output = NULL
    BY FreeTyped DEF Roster
  <2> QED BY <2>1, <2>2 DEF FreeAddresses
<1> QED BY <1>1, MonitorsAssumption

\* A list of fewer monitors than there are addresses leaves one free.
LEMMA RoomIs ==
  ASSUME NEW M, NEW head, NEW L, Roster(M, head, L), Len(L) < Cardinality(Addresses)
  PROVE  Addresses \ In(L) # {}
<1> SUFFICES ASSUME Addresses \ In(L) = {} PROVE FALSE
  OBVIOUS
<1>1. /\ Len(L) \in Nat /\ DOMAIN L = 1 .. Len(L)
      /\ \A j \in 1 .. Len(L) : L[j] \in Addresses
      /\ \A a \in Addresses : \E j \in 1 .. Len(L) : a = L[j]
      /\ L \in Seq(Addresses)
  BY RosterIs
<1>2. L \in Surjection(1 .. Len(L), Addresses)
  BY <1>1 DEF Surjection
<1>3. IsFiniteSet(1 .. Len(L)) /\ Cardinality(1 .. Len(L)) = Len(L)
  <2>1. IsFiniteSet(1 .. Len(L))
    BY <1>1, FS_Interval
  <2>2. Cardinality(1 .. Len(L)) = Len(L)
    <3> DEFINE n == Len(L)
    <3>1. n \in Nat
      BY <1>1
    <3> HIDE DEF n
    <3>2. Cardinality(1 .. n) = n
      BY <3>1, FS_Interval
    <3> QED BY <3>2 DEF n
  <2> QED BY <2>1, <2>2
<1>4. Cardinality(Addresses) <= Len(L)
  BY <1>2, <1>3, FS_Surjection
<1>5. Cardinality(Addresses) \in Nat
  BY MonitorsAssumption, FS_CardinalityType
<1> QED BY <1>1, <1>4, <1>5

-----------------------------------------------------------------------------
(* Adding a monitor.                                                       *)

\* M with m at a, after the last of L.
Added(M, L, a, m) ==
  LET M1 == [M EXCEPT ![a] = m]
  IN  IF L = <<>> THEN M1 ELSE [M1 EXCEPT ![L[Len(L)]].next = a]

\* The monitors that were there keep all but the pointer to the next one.
LEMMA AddedIs ==
  ASSUME NEW M, NEW head, NEW L, Roster(M, head, L), NEW a \in Addresses \ In(L),
         NEW m \in MonitorRecords
  PROVE  /\ Added(M, L, a, m) \in [Addresses -> MonitorRecords]
         /\ Added(M, L, a, m)[a] = m
         /\ \A b \in Addresses \ {a} :
              Added(M, L, a, m)[b] =
                IF L # <<>> /\ b = L[Len(L)] THEN [M[b] EXCEPT !.next = a] ELSE M[b]
<1> DEFINE M1 == [M EXCEPT ![a] = m]
           z == L[Len(L)]
<1>1. M \in [Addresses -> MonitorRecords] /\ M1 \in [Addresses -> MonitorRecords]
  BY DEF Roster
<1>2. CASE L = <<>>
  BY <1>1, <1>2 DEF Added
<1>3. CASE L # <<>>
  <2>1. Len(L) \in 1 .. Len(L)
    BY <1>3, RosterIs
  <2>2. z \in Addresses /\ z # a
    BY <2>1, RosterIs
  <2>3. [M1[z] EXCEPT !.next = a] \in MonitorRecords
    BY <1>1, <2>2 DEF MonitorRecords
  <2>4. Added(M, L, a, m) = [M1 EXCEPT ![z] = [M1[z] EXCEPT !.next = a]]
    BY <1>3 DEF Added
  <2> HIDE DEF z
  <2> QED BY <1>1, <1>3, <2>2, <2>3, <2>4 DEF z
<1> QED BY <1>2, <1>3

\* All keep their trees.
AddingKeeps(M, P, a) == \A b \in Addresses \ {a} : P[b].tree = M[b].tree

\* Adding a monitor touches no tree of the others.
LEMMA AddedKeeps ==
  ASSUME NEW M, NEW head, NEW L, Roster(M, head, L), NEW a \in Addresses \ In(L),
         NEW m \in MonitorRecords
  PROVE  AddingKeeps(M, Added(M, L, a, m), a)
<1>1. ASSUME NEW b \in Addresses \ {a} PROVE Added(M, L, a, m)[b].tree = M[b].tree
  <2>1. Added(M, L, a, m)[b] =
          IF L # <<>> /\ b = L[Len(L)] THEN [M[b] EXCEPT !.next = a] ELSE M[b]
    BY AddedIs
  <2>2. M[b] \in MonitorRecords
    BY DEF Roster
  <2>3. [M[b] EXCEPT !.next = a].tree = M[b].tree
    BY <2>2 DEF MonitorRecords
  <2> QED BY <2>1, <2>3
<1> QED BY <1>1 DEF AddingKeeps

\* add_monitor puts the monitor of the next output at the end of the list.
LEMMA AddIs ==
  ASSUME NEW s, NEW L, Roster(s.mon, s.head, L), NEW a \in Addresses \ In(L),
         NEW m \in MonitorRecords, m.next = NULL, Len(L) < Last,
         m.output = OutputOrder[Len(L) + 1]
  PROVE  /\ add_monitor(s, a, m) =
              IF L = <<>> THEN [s EXCEPT !.mon = Added(s.mon, L, a, m), !.head = a]
              ELSE [s EXCEPT !.mon = Added(s.mon, L, a, m)]
         /\ Roster(Added(s.mon, L, a, m), IF L = <<>> THEN a ELSE s.head, Append(L, a))
<1> DEFINE M  == s.mon
           M2 == Added(s.mon, L, a, m)
           A  == Append(L, a)
           h  == IF L = <<>> THEN a ELSE s.head
<1>1. add_monitor(s, a, m) = IF L = <<>> THEN [s EXCEPT !.mon = M2, !.head = a]
                             ELSE [s EXCEPT !.mon = M2]
  <2>1. Chain(s.mon, s.head) = L
    BY RosterIs
  <2> QED BY <2>1 DEF add_monitor, Added
<1>2. /\ Len(L) \in Nat /\ L \in Seq(Addresses)
      /\ \A i \in 1 .. Len(L) : L[i] \in In(L) /\ L[i] \in Addresses /\ L[i] # NULL
      /\ \A i, j \in 1 .. Len(L) : L[i] = L[j] => i = j
  BY RosterIs
<1>3. /\ A \in Seq(Addresses) /\ Len(A) = Len(L) + 1 /\ A[Len(L) + 1] = a
      /\ \A i \in 1 .. Len(L) : A[i] = L[i]
  BY <1>2
<1>4. \A b \in Addresses : b \in In(A) <=> b \in In(L) \/ b = a
  <2>1. DOMAIN A = 1 .. Len(L) + 1 /\ DOMAIN L = 1 .. Len(L)
    BY <1>2, <1>3
  <2>2. In(A) = In(L) \cup {a}
    <3> HIDE DEF A
    <3> QED BY <1>2, <1>3, <2>1 DEF In
  <2> QED BY <2>2
<1>5. /\ M2 \in [Addresses -> MonitorRecords] /\ M2[a] = m
      /\ \A b \in Addresses \ {a} :
           M2[b] = IF L # <<>> /\ b = L[Len(L)] THEN [M[b] EXCEPT !.next = a] ELSE M[b]
  BY AddedIs
<1>6. M \in [Addresses -> MonitorRecords] /\ a \notin In(L)
  BY DEF Roster
<1> HIDE DEF M2, A
<1>7. ASSUME NEW i \in 1 .. Len(A)
      PROVE  /\ M2[A[i]].next = IF i < Len(A) THEN A[i + 1] ELSE NULL
             /\ M2[A[i]].output = OutputOrder[i]
  <2>1. CASE i = Len(L) + 1
    BY <1>2, <1>3, <1>5, <2>1
  <2>2. CASE i \in 1 .. Len(L)
    <3>1. /\ A[i] = L[i] /\ L[i] \in Addresses \ {a} /\ L[i] \in In(L)
          /\ M[L[i]] \in MonitorRecords
      BY <1>2, <1>3, <1>6, <2>2
    <3>2. /\ M[L[i]].next = IF i < Len(L) THEN L[i + 1] ELSE NULL
          /\ M[L[i]].output = OutputOrder[i]
      BY <2>2 DEF Roster, Lists, Chained
    <3>3. CASE i = Len(L)
      <4>1. L # <<>>
        BY <1>2, <3>3, <2>2
      <4>2. M2[L[i]] = [M[L[i]] EXCEPT !.next = a]
        BY <1>5, <3>1, <3>3, <4>1
      <4>3. M2[L[i]].next = a /\ M2[L[i]].output = M[L[i]].output
        BY <3>1, <4>2 DEF MonitorRecords
      <4> QED BY <1>2, <1>3, <3>1, <3>2, <3>3, <4>3
    <3>4. CASE i # Len(L)
      <4>1. L[i] # L[Len(L)]
        BY <1>2, <2>2, <3>4
      <4>2. M2[L[i]] = M[L[i]]
        BY <1>5, <3>1, <4>1
      <4>3. i < Len(L) /\ i + 1 \in 1 .. Len(L)
        BY <1>2, <2>2, <3>4
      <4> QED BY <1>2, <1>3, <3>1, <3>2, <4>2, <4>3
    <3> QED BY <3>3, <3>4
  <2> QED BY <1>2, <1>3, <2>1, <2>2
<1>8. \A i, j \in 1 .. Len(A) : A[i] = A[j] => i = j
  BY <1>2, <1>3, <1>6
<1>9. \A b \in Addresses \ In(A) : M2[b] = FreeMonitor
  <2> TAKE b \in Addresses \ In(A)
  <2>1. b # a /\ b \notin In(L)
    BY <1>4
  <2>2. L # <<>> => Len(L) \in 1 .. Len(L)
    BY <1>2
  <2>3. M2[b] = M[b]
    BY <1>2, <1>5, <2>1, <2>2
  <2> QED BY <2>1, <2>3 DEF Roster
<1>10. h = IF A = <<>> THEN NULL ELSE A[1]
  <2>1. A # <<>>
    BY <1>2, <1>3
  <2>2. CASE L = <<>>
    BY <1>2, <1>3, <2>1, <2>2
  <2>3. CASE L # <<>>
    <3>1. 1 \in 1 .. Len(L)
      BY <1>2, <2>3
    <3>2. s.head = L[1]
      BY <2>3 DEF Roster, Lists
    <3> QED BY <1>3, <2>1, <2>3, <3>1, <3>2
  <2> QED BY <2>2, <2>3
<1>11. Chained(M2, A)
  BY <1>3, <1>7, <1>8, <1>9, FreeTyped DEF Chained
<1>12. Roster(M2, h, A)
  BY <1>2, <1>3, <1>5, <1>7, <1>9, <1>10, <1>11, OrderIs DEF Roster, Lists
<1> QED BY <1>1, <1>12 DEF M2, A

-----------------------------------------------------------------------------
(* Examining the outputs.                                                  *)

\* What is shown: every output but the last one is always on, there is an address for
\* each monitor, and at most one window floats.
OneExternal ==
  /\ Last > 1
  /\ Hotplug \subseteq {OutputOrder[Last]}
  /\ Last <= Cardinality(Addresses)
  /\ Cardinality(Dialogs) <= 1

FixedOn == \A i \in 1 .. Last - 1 : status[OutputOrder[i]] = "ON"

\* The monitors after the first i outputs were examined, all of which are on.
Fit(a) == <<mon[a].output, mode[mon[a].output]>>
Fitted(L, i) ==
  [a \in Addresses |->
     IF \E j \in 1 .. i : a = L[j] THEN [mon[a] EXCEPT !.rectangle = Fit(a)] ELSE mon[a]]
Unfit(L, i) == \E j \in 1 .. i : mon[L[j]].rectangle # Fit(L[j])

\* What update_monitors has found: monitors M from head h on, those to remove from d
\* on, the changes c, and whether the last merge has worked and zwm runs.
Found(M, h, d, c, k, r) ==
  [mon |-> M, head |-> h, dl |-> d, changes |-> c, ok |-> k, running |-> r]

\* In a record, the provers see through a name for TRUE better than through TRUE.
Yes == TRUE

Examined(L, i) ==
  Found(Fitted(L, i), head_monitor, NULL, IF Unfit(L, i) THEN {"LAYOUT"} ELSE {}, Yes, Yes)

\* The fields of what was found.
LEMMA FoundIs ==
  ASSUME NEW M, NEW h, NEW d, NEW c, NEW k, NEW r
  PROVE  /\ Found(M, h, d, c, k, r).mon = M /\ Found(M, h, d, c, k, r).head = h
         /\ Found(M, h, d, c, k, r).dl = d /\ Found(M, h, d, c, k, r).changes = c
         /\ Found(M, h, d, c, k, r).ok = k /\ Found(M, h, d, c, k, r).running = r
BY DEF Found

\* Parts of it are replaced.
Changed(s, M, c) == [s EXCEPT !.mon = M, !.changes = c]
Pushed(s, M, d)  == [s EXCEPT !.mon = M, !.dl = d]

\* Replacing parts of what was found gives what was found with other parts.
LEMMA FoundOther ==
  ASSUME NEW M, NEW h, NEW d, NEW c, NEW k, NEW r, NEW M2, NEW x
  PROVE  /\ Changed(Found(M, h, d, c, k, r), M2, x) = Found(M2, h, d, x, k, r)
         /\ Pushed(Found(M, h, d, c, k, r), M2, x) = Found(M2, h, x, c, k, r)
<1> DEFINE s == Found(M, h, d, c, k, r)
<1>1. Changed(s, M2, x) = [[s EXCEPT !.mon = M2] EXCEPT !.changes = x]
  BY DEF Found, Changed
<1>2. Pushed(s, M2, x) = [[s EXCEPT !.mon = M2] EXCEPT !.dl = x]
  BY DEF Found, Pushed
<1>3. [s EXCEPT !.mon = M2] = Found(M2, h, d, c, k, r)
  BY DEF Found
<1>4. [Found(M2, h, d, c, k, r) EXCEPT !.changes = x] = Found(M2, h, d, x, k, r)
  BY DEF Found
<1>5. [Found(M2, h, d, c, k, r) EXCEPT !.dl = x] = Found(M2, h, x, c, k, r)
  BY DEF Found
<1> HIDE DEF s
<1>6. Changed(s, M2, x) = Found(M2, h, d, x, k, r)
  BY <1>1, <1>3, <1>4
<1>7. Pushed(s, M2, x) = Found(M2, h, x, c, k, r)
  BY <1>2, <1>3, <1>5
<1> QED BY <1>6, <1>7 DEF s

\* Nothing but rectangles has changed.
LEMMA FittedIs ==
  ASSUME NEW L, Roster(mon, head_monitor, L), mode \in [Outputs -> Modes],
         NEW i \in 0 .. Len(L)
  PROVE  /\ Roster(Fitted(L, i), head_monitor, L)
         /\ \A j \in 1 .. Len(L) :
              Fitted(L, i)[L[j]] = IF j <= i THEN [mon[L[j]] EXCEPT !.rectangle = Fit(L[j])]
                                   ELSE mon[L[j]]
         /\ \A a \in Addresses :
              /\ Fitted(L, i)[a].desktops = mon[a].desktops
              /\ Fitted(L, i)[a].tree = mon[a].tree
<1> DEFINE M == Fitted(L, i)
<1>1. /\ Len(L) \in Nat /\ Len(L) <= Last
      /\ \A j \in 1 .. Len(L) : L[j] \in In(L) /\ L[j] \in Addresses /\ L[j] # NULL
      /\ \A j, k \in 1 .. Len(L) : L[j] = L[k] => j = k
  BY RosterIs
<1>2. mon \in [Addresses -> MonitorRecords]
  BY DEF Roster
<1>3. ASSUME NEW a \in Addresses, NEW j \in 1 .. i, a = L[j]
      PROVE  Fit(a) \in Rectangles
  <2>1. mon[a].output = OutputOrder[j] /\ OutputOrder[j] \in Outputs
    BY <1>1, <1>3, OrderIs DEF Roster
  <2> QED BY <2>1 DEF Fit, Rectangles
<1>4. ASSUME NEW a \in Addresses
      PROVE  /\ M[a] \in MonitorRecords
             /\ M[a].next = mon[a].next /\ M[a].output = mon[a].output
             /\ M[a].desktops = mon[a].desktops /\ M[a].tree = mon[a].tree
  <2>1. CASE \E j \in 1 .. i : a = L[j]
    <3>1. M[a] = [mon[a] EXCEPT !.rectangle = Fit(a)] /\ Fit(a) \in Rectangles
      BY <2>1, <1>3 DEF Fitted
    <3>2. mon[a] \in MonitorRecords
      BY <1>2
    <3> HIDE DEF M
    <3> QED BY <3>1, <3>2 DEF MonitorRecords
  <2>2. CASE ~\E j \in 1 .. i : a = L[j]
    BY <2>2, <1>2 DEF Fitted
  <2> QED BY <2>1, <2>2
<1>5. \A j \in 1 .. Len(L) :
        M[L[j]] = IF j <= i THEN [mon[L[j]] EXCEPT !.rectangle = Fit(L[j])] ELSE mon[L[j]]
  BY <1>1 DEF Fitted
<1>6. \A a \in Addresses \ In(L) : M[a] = mon[a]
  BY <1>1 DEF Fitted
<1>7. M \in [Addresses -> MonitorRecords]
  BY <1>4 DEF Fitted
<1> HIDE DEF M
<1>8. Chained(M, L)
  BY <1>1, <1>4, <1>6 DEF Roster, Lists, Chained
<1>9. Roster(M, head_monitor, L)
  BY <1>1, <1>4, <1>6, <1>7, <1>8 DEF Roster, Lists
<1> QED BY <1>4, <1>5, <1>9 DEF M

\* An output that is on and has a monitor: its rectangle is set.
LEMMA ExamineOn ==
  ASSUME NEW L, Roster(mon, head_monitor, L), mode \in [Outputs -> Modes],
         NEW i \in 1 .. Len(L), status[OutputOrder[i]] = "ON"
  PROVE  examine(Examined(L, i - 1), OutputOrder[i]) = Examined(L, i)
<1> DEFINE s == Examined(L, i - 1)
           o == OutputOrder[i]
           z == L[i]
           M == Fitted(L, i - 1)
           c == IF Unfit(L, i - 1) THEN {"LAYOUT"} ELSE {}
<1>0. s = Found(M, head_monitor, NULL, c, Yes, Yes) /\ s.mon = M /\ s.head = head_monitor /\ s.changes = c
  <2>1. s = Found(M, head_monitor, NULL, c, Yes, Yes)
    BY DEF Examined
  <2> HIDE DEF s, M, c
  <2> QED BY <2>1, FoundIs
<1>1. /\ Len(L) \in Nat /\ Len(L) <= Last /\ i - 1 \in 0 .. Len(L) /\ i \in 1 .. Last
      /\ z \in Addresses /\ z # NULL /\ i \in 0 .. Len(L) /\ i \in Nat
  <2>1. Len(L) \in Nat /\ Len(L) <= Last /\ z \in Addresses /\ z # NULL
    BY RosterIs
  <2> QED BY <2>1, OrderIs
<1>2. Roster(M, head_monitor, L) /\ M[z] = mon[z]
  <2> DEFINE k == i - 1
  <2>1. k \in 0 .. Len(L) /\ ~(i <= k)
    BY <1>1
  <2> HIDE DEF k
  <2>2. Roster(Fitted(L, k), head_monitor, L) /\ Fitted(L, k)[L[i]] = mon[L[i]]
    BY <2>1, FittedIs
  <2> QED BY <2>2 DEF k
<1>3. get_monitor_by_randr_id(s.mon, s.head, o) = z
  <2> HIDE DEF s, M
  <2> QED BY <1>1, <1>2, GetIs, <1>0
<1>4. mon[z].output = o /\ Fit(z) = <<o, mode[o]>>
  BY DEF Roster, Fit
<1>5. mon \in [Addresses -> MonitorRecords] /\ M \in [Addresses -> MonitorRecords]
  BY <1>2 DEF Roster
<1>6. Fitted(L, i) = [M EXCEPT ![z] = [mon[z] EXCEPT !.rectangle = Fit(z)]]
  <2>1. \A a \in Addresses : (\E j \in 1 .. i : a = L[j]) <=> (\E j \in 1 .. i - 1 : a = L[j]) \/ a = z
    BY <1>1
  <2> QED BY <1>1, <2>1 DEF Fitted
<1>7. Unfit(L, i) <=> Unfit(L, i - 1) \/ mon[z].rectangle # Fit(z)
  BY <1>1 DEF Unfit
<1>8. CASE mon[z].rectangle # Fit(z)
  <2>1. examine(s, o) = [s EXCEPT !.mon[z].rectangle = <<o, mode[o]>>, !.changes = @ \cup {"LAYOUT"}]
    <3> HIDE DEF z, o
    <3> HIDE DEF s, M, c
    <3>1. s.mon[z].rectangle # <<o, mode[o]>>
      BY <1>2, <1>4, <1>8, <1>0
    <3> QED BY <1>1, <1>3, <3>1, Zenon DEF examine, o
  <2>2. s.changes \cup {"LAYOUT"} = {"LAYOUT"} /\ Unfit(L, i)
    <3>1. c \cup {"LAYOUT"} = {"LAYOUT"}
      OBVIOUS
    <3> HIDE DEF s, M, c
    <3> QED BY <1>0, <1>7, <1>8, <3>1
  <2>3. [s.mon EXCEPT ![z].rectangle = <<o, mode[o]>>] = Fitted(L, i)
    <3> HIDE DEF z, o, s, M, c
    <3> QED BY <1>1, <1>2, <1>4, <1>5, <1>6, <1>0
  <2>5. Examined(L, i) = Found(Fitted(L, i), head_monitor, NULL, {"LAYOUT"}, Yes, Yes)
    BY <2>2 DEF Examined
  <2>6. examine(s, o) = [s EXCEPT !.mon = [s.mon EXCEPT ![z].rectangle = <<o, mode[o]>>],
                                  !.changes = c \cup {"LAYOUT"}]
    <3> HIDE DEF z, o, s, M, c
    <3> QED BY <1>0, <2>1
  <2> HIDE DEF z, o, c, s, M
  <2>7. examine(s, o) = [s EXCEPT !.mon = Fitted(L, i), !.changes = {"LAYOUT"}]
    BY <1>0, <2>2, <2>3, <2>6
  <2>8. examine(s, o) = Changed(Found(M, head_monitor, NULL, c, Yes, Yes), Fitted(L, i), {"LAYOUT"})
    BY <1>0, <2>7 DEF Changed
  <2>9. examine(s, o) = Examined(L, i)
    BY <2>5, <2>8, FoundOther
  <2> QED BY <2>9 DEF s, o
<1>9. CASE mon[z].rectangle = Fit(z)
  <2>1. examine(s, o) = s
    <3> HIDE DEF z, o
    <3> HIDE DEF s, M, c
    <3>1. s.mon[z].rectangle = <<o, mode[o]>>
      BY <1>2, <1>4, <1>9, <1>0
    <3> QED BY <1>1, <1>3, <3>1 DEF examine, o
  <2>2. Fitted(L, i) = M
    <3>1. [mon[z] EXCEPT !.rectangle = Fit(z)] = mon[z]
      <4>1. mon[z] \in MonitorRecords
        BY <1>1, <1>5
      <4> HIDE DEF z
      <4> QED BY <1>9, <4>1 DEF MonitorRecords
    <3> QED BY <1>1, <1>2, <1>5, <1>6, <3>1
  <2>3. Unfit(L, i) <=> Unfit(L, i - 1)
    BY <1>7, <1>9
  <2>4. Examined(L, i) = s
    BY <2>2, <2>3 DEF Examined
  <2> QED BY <2>1, <2>4
<1> QED BY <1>8, <1>9

Start == [mon |-> mon, head |-> head_monitor, dl |-> NULL,
          changes |-> {}, ok |-> TRUE, running |-> TRUE]

\* All but the last output are on, and have monitors; the last one is looked at last.
LEMMA ExaminedIs ==
  ASSUME NEW L, Roster(mon, head_monitor, L), mode \in [Outputs -> Modes],
         Last > 1, Len(L) \in {Last - 1, Last}, FixedOn
  PROVE  Iterated(examine, Start, OutputOrder) = examine(Examined(L, Last - 1), OutputOrder[Last])
<1> DEFINE G == [i \in 0 .. Last |-> IF i < Last THEN Examined(L, i)
                                    ELSE examine(Examined(L, Last - 1), OutputOrder[Last])]
           Step(f, i) == IF i = 0 THEN Start ELSE examine(f[i - 1], OutputOrder[i])
           U == CHOOSE u : u = [i \in 0 .. Last |-> Step(u, i)]
<1>1. Last \in Nat /\ mon \in [Addresses -> MonitorRecords]
  BY OrderIs DEF Roster
<1>2. Start = Examined(L, 0)
  <2>1. Fitted(L, 0) = mon
    BY <1>1 DEF Fitted
  <2>2. ~Unfit(L, 0)
    BY DEF Unfit
  <2>3. Start = Found(mon, head_monitor, NULL, {}, Yes, Yes)
    BY DEF Found, Yes, Start
  <2>4. Examined(L, 0) = Found(mon, head_monitor, NULL, {}, Yes, Yes)
    BY <2>1, <2>2 DEF Examined
  <2> QED BY <2>3, <2>4
<1>3. ASSUME NEW i \in 0 .. Last PROVE G[i] = Step(G, i)
  <2>1. CASE i = 0
    BY <1>1, <1>2, <2>1
  <2>2. CASE i \in 1 .. Last - 1
    <3>1. i \in 1 .. Len(L) /\ status[OutputOrder[i]] = "ON"
      BY <1>1, <2>2 DEF FixedOn
    <3>2. examine(Examined(L, i - 1), OutputOrder[i]) = Examined(L, i)
      BY <3>1, ExamineOn
    <3>3. G[i - 1] = Examined(L, i - 1) /\ G[i] = Examined(L, i)
      BY <1>1, <2>2
    <3> QED BY <2>2, <3>2, <3>3
  <2>3. CASE i = Last
    <3>1. G[i - 1] = Examined(L, Last - 1) /\ G[i] = examine(Examined(L, Last - 1), OutputOrder[Last])
      BY <1>1, <2>3
    <3> QED BY <1>1, <2>3, <3>1
  <2> QED BY <1>1, <2>1, <2>2, <2>3
<1>4. G = [i \in 0 .. Last |-> Step(G, i)]
  <2>1. G = [i \in 0 .. Last |-> G[i]]
    OBVIOUS
  <2> HIDE DEF G, Step
  <2> QED BY <1>3, <2>1
<1> HIDE DEF G
<1>5. U = [i \in 0 .. Last |-> Step(U, i)]
  BY <1>4
<1> HIDE DEF U
<1>6. U[Last] = G[Last]
  <2>1. U[0] = G[0]
    BY <1>1, <1>4, <1>5
  <2>2. ASSUME NEW i \in 1 .. Last, U[i - 1] = G[i - 1] PROVE U[i] = G[i]
    BY <1>1, <1>4, <1>5, <2>2
  <2> QED BY <1>1, <2>1, <2>2, SameEnd
<1>7. Iterated(examine, Start, OutputOrder) = U[Last]
  BY DEF Iterated, U, Last
<1> QED BY <1>1, <1>6, <1>7 DEF G

-----------------------------------------------------------------------------
(* Merging monitors.                                                       *)

\* A tree takes any window when at most one window floats.
LEMMA TakesIs ==
  ASSUME Cardinality(Dialogs) <= 1, NEW T \in SUBSET Windows
  PROVE  CanTransfer(T)
<1>1. IsFiniteSet(Dialogs) /\ Dialogs \subseteq Windows
  BY MonitorsAssumption, FS_Subset
<1>2. IsFiniteSet(T)
  BY MonitorsAssumption, FS_Subset
<1>3. Cardinality(T) \in Nat /\ Cardinality(Dialogs) \in Nat
  BY <1>1, <1>2, FS_CardinalityType
<1>4. T \subseteq Dialogs => Cardinality(T) <= Cardinality(Dialogs)
  BY <1>1, FS_Subset
<1> QED BY <1>3, <1>4 DEF CanTransfer

\* Windows on their way from one tree to another.
Moved(o, n, k) == [old |-> o, new |-> n, ok |-> k]

\* One window that moves.
LEMMA MoveIs ==
  ASSUME Cardinality(Dialogs) <= 1, NEW o \in SUBSET Windows, NEW n \in SUBSET Windows,
         NEW w \in Windows
  PROVE  move_window(Moved(o, n, Yes), w) = Moved(o \ {w}, n \cup (o \cap {w}), Yes)
<1> DEFINE t == Moved(o, n, Yes)
<1>1. t.old = o /\ t.new = n /\ t.ok = Yes
  BY DEF Moved
<1>2. CASE w \notin o
  <2>1. o \ {w} = o /\ n \cup (o \cap {w}) = n
    BY <1>2
  <2>2. move_window(t, w) = t
    <3> HIDE DEF t
    <3> QED BY <1>1, <1>2 DEF move_window
  <2> QED BY <2>1, <2>2
<1>3. CASE w \in o
  <2>1. CanTransfer(n)
    BY TakesIs
  <2>2. move_window(t, w) = [t EXCEPT !.old = t.old \ {w}, !.new = t.new \cup {w}]
    <3> HIDE DEF t
    <3> QED BY <1>1, <1>3, <2>1 DEF move_window, Yes
  <2>3. \A a, b : [t EXCEPT !.old = a, !.new = b] = [[t EXCEPT !.old = a] EXCEPT !.new = b]
    BY DEF Moved
  <2>4. ASSUME NEW a, NEW b PROVE [[t EXCEPT !.old = a] EXCEPT !.new = b] = Moved(a, b, Yes)
    <3>1. [t EXCEPT !.old = a] = Moved(a, n, Yes)
      BY DEF Moved
    <3>2. [Moved(a, n, Yes) EXCEPT !.new = b] = Moved(a, b, Yes)
      BY DEF Moved
    <3> HIDE DEF t
    <3> QED BY <3>1, <3>2
  <2>5. o \cap {w} = {w}
    BY <1>3
  <2> QED BY <1>1, <2>2, <2>3, <2>4, <2>5
<1> QED BY <1>2, <1>3

\* All windows move.
LEMMA MovesAre ==
  ASSUME Cardinality(Dialogs) <= 1, NEW o \in SUBSET Windows, NEW n \in SUBSET Windows,
         NEW order \in Orders
  PROVE  Iterated(move_window, [old |-> o, new |-> n, ok |-> TRUE], order)
           = Moved({}, n \cup o, Yes)
<1> DEFINE K == Cardinality(Windows)
           W(i) == {order[j] : j \in 1 .. i}
           G == [i \in 0 .. K |-> Moved(o \ W(i), n \cup (o \cap W(i)), Yes)]
           B == [old |-> o, new |-> n, ok |-> TRUE]
           Step(f, i) == IF i = 0 THEN B ELSE move_window(f[i - 1], order[i])
           U == CHOOSE u : u = [i \in 0 .. Len(order) |-> Step(u, i)]
<1>1. /\ K \in Nat /\ order \in [1 .. K -> Windows] /\ Len(order) = K
      /\ \A w \in Windows : \E j \in 1 .. K : order[j] = w
  <2>1. K \in Nat
    BY MonitorsAssumption, FS_CardinalityType
  <2>2. order \in [1 .. K -> Windows] /\ In(order) = Windows
    BY DEF Orders
  <2>3. Len(order) = K
    BY <2>1, <2>2
  <2> QED BY <2>1, <2>2, <2>3 DEF In
<1>2. B = Moved(o, n, Yes)
  BY DEF Moved, Yes
<1>3. ASSUME NEW i \in 0 .. K PROVE G[i] = Step(G, i)
  <2>1. CASE i = 0
    <3>1. o \ W(0) = o /\ n \cup (o \cap W(0)) = n
      OBVIOUS
    <3> QED BY <1>1, <1>2, <2>1, <3>1
  <2>2. CASE i # 0
    <3> DEFINE a == o \ W(i - 1)
               b == n \cup (o \cap W(i - 1))
               w == order[i]
    <3>1. i - 1 \in 0 .. K /\ i \in 1 .. K /\ w \in Windows
      BY <1>1, <2>2
    <3>2. a \in SUBSET Windows /\ b \in SUBSET Windows
      OBVIOUS
    <3>3. W(i) = W(i - 1) \cup {w}
      BY <1>1, <3>1
    <3>4. a \ {w} = o \ W(i) /\ b \cup (a \cap {w}) = n \cup (o \cap W(i))
      BY <3>3
    <3>5. G[i - 1] = Moved(a, b, Yes)
      BY <3>1
    <3>6. G[i] = Moved(o \ W(i), n \cup (o \cap W(i)), Yes)
      OBVIOUS
    <3> HIDE DEF a, b, w, G, W
    <3>7. move_window(Moved(a, b, Yes), w) = Moved(a \ {w}, b \cup (a \cap {w}), Yes)
      BY <3>1, <3>2, MoveIs
    <3>8. Step(G, i) = move_window(G[i - 1], w)
      BY <2>2 DEF w
    <3> QED BY <3>4, <3>5, <3>6, <3>7, <3>8
  <2> QED BY <2>1, <2>2
<1>4. G = [i \in 0 .. K |-> Step(G, i)]
  <2>1. G = [i \in 0 .. K |-> G[i]]
    OBVIOUS
  <2> HIDE DEF G, Step
  <2> QED BY <1>3, <2>1
<1>5. G[K] = Moved({}, n \cup o, Yes)
  <2>1. o \ W(K) = {} /\ o \cap W(K) = o
    BY <1>1
  <2>2. K \in 0 .. K
    BY <1>1
  <2> QED BY <2>1, <2>2
<1> HIDE DEF G
<1>6. U = [i \in 0 .. K |-> Step(U, i)]
  BY <1>1, <1>4
<1> HIDE DEF U
<1>7. U[K] = G[K]
  <2>1. U[0] = G[0]
    BY <1>1, <1>4, <1>6
  <2>2. ASSUME NEW i \in 1 .. K, U[i - 1] = G[i - 1] PROVE U[i] = G[i]
    <3>1. i \in 0 .. K /\ i # 0
      BY <1>1
    <3> HIDE DEF K, Step
    <3>2. U[i] = Step(U, i) /\ G[i] = Step(G, i)
      BY <1>4, <1>6, <3>1
    <3>3. Step(U, i) = Step(G, i)
      BY <2>2, <3>1 DEF Step
    <3> QED BY <3>2, <3>3
  <2> HIDE DEF K
  <2> QED BY <1>1, <2>1, <2>2, SameEnd
<1>8. Iterated(move_window, B, order) = U[Len(order)]
  BY DEF Iterated, U
<1> QED BY <1>1, <1>5, <1>7, <1>8

\* Monitor R after its first j desktops were emptied, or filled with the windows of T.
Emptied(R, j) == [R EXCEPT !.tree = [d \in DesktopIds |-> IF d < j THEN {} ELSE R.tree[d]]]
FilledTree(R, T, j) ==
  [d \in DesktopIds |-> IF d < j THEN R.tree[d] \cup T[d] ELSE R.tree[d]]
FilledArea(R, T, j, rect) ==
  [d \in DesktopIds |-> IF d < j /\ T[d] # {} THEN rect ELSE R.area[d]]
Filled(R, T, j, rect) ==
  [R EXCEPT !.tree = FilledTree(R, T, j), !.area = FilledArea(R, T, j, rect)]

\* The monitors after the first j desktops of r were merged into those of m.
Merged(M, r, m, j, rect) ==
  [a \in Addresses |-> IF a = r THEN Emptied(M[r], j)
                       ELSE IF a = m THEN Filled(M[m], M[r].tree, j, rect)
                       ELSE M[a]]

\* Only trees and areas change.
LEMMA EmptiedIs ==
  ASSUME NEW R \in MonitorRecords, NEW j
  PROVE  /\ Emptied(R, j) \in MonitorRecords
         /\ Emptied(R, j).tree = [d \in DesktopIds |-> IF d < j THEN {} ELSE R.tree[d]]
         /\ Emptied(R, j).output = R.output /\ Emptied(R, j).next = R.next
         /\ Emptied(R, j).desktops = R.desktops /\ Emptied(R, j).rectangle = R.rectangle
BY DEF Emptied, MonitorRecords

\* The fields of a monitor whose first desktops have received windows.
LEMMA FilledIs ==
  ASSUME NEW R \in MonitorRecords, NEW T \in [DesktopIds -> SUBSET Windows], NEW j,
         NEW rect \in Rectangles \cup {NULL}
  PROVE  /\ Filled(R, T, j, rect) \in MonitorRecords
         /\ Filled(R, T, j, rect).tree = FilledTree(R, T, j)
         /\ Filled(R, T, j, rect).area = FilledArea(R, T, j, rect)
         /\ Filled(R, T, j, rect).output = R.output /\ Filled(R, T, j, rect).next = R.next
         /\ Filled(R, T, j, rect).desktops = R.desktops
         /\ Filled(R, T, j, rect).rectangle = R.rectangle
<1> DEFINE t == FilledTree(R, T, j)
           e == FilledArea(R, T, j, rect)
<1>1. t \in [DesktopIds -> SUBSET Windows] /\ e \in [DesktopIds -> Rectangles \cup {NULL}]
  BY DEF MonitorRecords, FilledTree, FilledArea
<1> HIDE DEF t, e
<1>2. Filled(R, T, j, rect) = [[R EXCEPT !.tree = t] EXCEPT !.area = e]
  BY DEF Filled, t, e, MonitorRecords
<1>3. [R EXCEPT !.tree = t] \in MonitorRecords
  BY <1>1 DEF MonitorRecords
<1>4. [[R EXCEPT !.tree = t] EXCEPT !.area = e] \in MonitorRecords
  BY <1>1, <1>3 DEF MonitorRecords
<1>5. /\ [[R EXCEPT !.tree = t] EXCEPT !.area = e].tree = t
      /\ [[R EXCEPT !.tree = t] EXCEPT !.area = e].area = e
      /\ [[R EXCEPT !.tree = t] EXCEPT !.area = e].output = R.output
      /\ [[R EXCEPT !.tree = t] EXCEPT !.area = e].next = R.next
      /\ [[R EXCEPT !.tree = t] EXCEPT !.area = e].desktops = R.desktops
      /\ [[R EXCEPT !.tree = t] EXCEPT !.area = e].rectangle = R.rectangle
  BY DEF MonitorRecords
<1> QED BY <1>2, <1>4, <1>5 DEF t, e


\* The first desktops are merged, and one more.
LEMMA EmptiedMore ==
  ASSUME NEW R \in MonitorRecords, NEW d \in DesktopIds
  PROVE  /\ [Emptied(R, d) EXCEPT !.tree = [Emptied(R, d).tree EXCEPT ![d] = {}]] = Emptied(R, d + 1)
         /\ Emptied(R, d).tree[d] = R.tree[d]
         /\ R.tree[d] = {} => Emptied(R, d + 1) = Emptied(R, d)
<1> DEFINE T(j) == [k \in DesktopIds |-> IF k < j THEN {} ELSE R.tree[k]]
<1>1. DesktopIds \subseteq Nat
  BY MonitorsAssumption DEF DesktopIds
<1>2. Emptied(R, d).tree = T(d) /\ T(d)[d] = R.tree[d]
  BY <1>1, EmptiedIs
<1>3. [T(d) EXCEPT ![d] = {}] = T(d + 1)
  <2>1. \A k \in DesktopIds : k < d + 1 <=> k < d \/ k = d
    BY <1>1
  <2> QED BY <2>1
<1>4. R.tree[d] = {} => T(d + 1) = T(d)
  BY <1>1
<1> HIDE DEF T
<1>5. Emptied(R, d) = [R EXCEPT !.tree = T(d)] /\ Emptied(R, d + 1) = [R EXCEPT !.tree = T(d + 1)]
  BY DEF Emptied, T
<1>6. [[R EXCEPT !.tree = T(d)] EXCEPT !.tree = T(d + 1)] = [R EXCEPT !.tree = T(d + 1)]
  BY DEF MonitorRecords
<1> QED BY <1>2, <1>3, <1>4, <1>5, <1>6

\* A monitor whose trees and areas are replaced.
Refilled(F, t, e) == [F EXCEPT !.tree = t, !.area = e]

\* The receiving monitor after one more desktop.
LEMMA FilledMore ==
  ASSUME NEW R \in MonitorRecords, NEW T \in [DesktopIds -> SUBSET Windows],
         NEW d \in DesktopIds, NEW rect \in Rectangles \cup {NULL}
  PROVE  /\ T[d] # {} =>
              Refilled(Filled(R, T, d, rect),
                       [Filled(R, T, d, rect).tree EXCEPT ![d] = R.tree[d] \cup T[d]],
                       [Filled(R, T, d, rect).area EXCEPT ![d] = rect])
              = Filled(R, T, d + 1, rect)
         /\ Filled(R, T, d, rect).tree[d] = R.tree[d]
         /\ T[d] = {} => Filled(R, T, d + 1, rect) = Filled(R, T, d, rect)
<1> DEFINE t(j) == FilledTree(R, T, j)
           e(j) == FilledArea(R, T, j, rect)
           F(j) == Filled(R, T, j, rect)
<1>1. DesktopIds \subseteq Nat
  BY MonitorsAssumption DEF DesktopIds
<1>2. \A k \in DesktopIds : k < d + 1 <=> k < d \/ k = d
  BY <1>1
<1>3. F(d).tree = t(d) /\ F(d).area = e(d)
  BY FilledIs
<1>4. t(d)[d] = R.tree[d]
  BY <1>1 DEF FilledTree
<1>5. [t(d) EXCEPT ![d] = R.tree[d] \cup T[d]] = t(d + 1)
  BY <1>2 DEF FilledTree
<1>6. T[d] # {} => [e(d) EXCEPT ![d] = rect] = e(d + 1)
  BY <1>2 DEF FilledArea
<1>7. T[d] = {} => t(d + 1) = t(d) /\ e(d + 1) = e(d)
  <2>1. R.tree[d] \cup {} = R.tree[d]
    OBVIOUS
  <2> QED BY <1>2, <2>1 DEF FilledTree, FilledArea
<1>8. F(d) \in MonitorRecords
  BY FilledIs
<1>9. /\ F(d) = [R EXCEPT !.tree = t(d), !.area = e(d)]
      /\ F(d + 1) = [R EXCEPT !.tree = t(d + 1), !.area = e(d + 1)]
  BY DEF Filled
<1> HIDE DEF t, e, F
<1>10. [F(d) EXCEPT !.tree = t(d + 1), !.area = e(d + 1)]
         = [R EXCEPT !.tree = t(d + 1), !.area = e(d + 1)]
  BY <1>9 DEF MonitorRecords
<1>11. T[d] # {} => Refilled(F(d), [F(d).tree EXCEPT ![d] = R.tree[d] \cup T[d]],
                             [F(d).area EXCEPT ![d] = rect]) = F(d + 1)
  BY <1>3, <1>5, <1>6, <1>9, <1>10 DEF Refilled
<1>12. T[d] = {} => F(d + 1) = F(d)
  BY <1>7, <1>9
<1>13. F(d).tree[d] = R.tree[d]
  BY <1>3, <1>4
<1> QED BY <1>11, <1>12, <1>13 DEF F

\* What merge_desktop changes of what was found.
Merging(s, k, M) == [s EXCEPT !.ok = k, !.mon = M]

\* A merge replaces the monitors and says whether it worked.
LEMMA MergingIs ==
  ASSUME NEW M, NEW h, NEW d, NEW c, NEW k, NEW r, NEW M2, NEW k2
  PROVE  Merging(Found(M, h, d, c, k, r), k2, M2) = Found(M2, h, d, c, k2, r)
<1> DEFINE s == Found(M, h, d, c, k, r)
<1>1. Merging(s, k2, M2) = [[s EXCEPT !.mon = M2] EXCEPT !.ok = k2]
  BY DEF Found, Merging
<1>2. [s EXCEPT !.mon = M2] = Found(M2, h, d, c, k, r)
  BY DEF Found
<1>3. [Found(M2, h, d, c, k, r) EXCEPT !.ok = k2] = Found(M2, h, d, c, k2, r)
  BY DEF Found
<1> HIDE DEF s
<1>4. Merging(s, k2, M2) = Found(M2, h, d, c, k2, r)
  BY <1>1, <1>2, <1>3
<1> QED BY <1>4 DEF s

\* Every monitor has its types, and its rectangle, while others are merged.
LEMMA MergedIs ==
  ASSUME NEW M \in [Addresses -> MonitorRecords], NEW r \in Addresses,
         NEW m \in Addresses, r # m, NEW j, NEW rect \in Rectangles \cup {NULL}
  PROVE  /\ Merged(M, r, m, j, rect) \in [Addresses -> MonitorRecords]
         /\ Merged(M, r, m, j, rect)[r] = Emptied(M[r], j)
         /\ Merged(M, r, m, j, rect)[m] = Filled(M[m], M[r].tree, j, rect)
         /\ \A a \in Addresses :
              /\ a \notin {r, m} => Merged(M, r, m, j, rect)[a] = M[a]
              /\ Merged(M, r, m, j, rect)[a].rectangle = M[a].rectangle
              /\ Merged(M, r, m, j, rect)[a].output = M[a].output
              /\ Merged(M, r, m, j, rect)[a].next = M[a].next
              /\ Merged(M, r, m, j, rect)[a].desktops = M[a].desktops
<1>1. M[r].tree \in [DesktopIds -> SUBSET Windows]
  BY DEF MonitorRecords
<1>2. /\ Emptied(M[r], j) \in MonitorRecords
      /\ Emptied(M[r], j).output = M[r].output /\ Emptied(M[r], j).next = M[r].next
      /\ Emptied(M[r], j).desktops = M[r].desktops /\ Emptied(M[r], j).rectangle = M[r].rectangle
  BY EmptiedIs
<1> DEFINE T == M[r].tree
<1>3. /\ Filled(M[m], T, j, rect) \in MonitorRecords
      /\ Filled(M[m], T, j, rect).output = M[m].output /\ Filled(M[m], T, j, rect).next = M[m].next
      /\ Filled(M[m], T, j, rect).desktops = M[m].desktops
      /\ Filled(M[m], T, j, rect).rectangle = M[m].rectangle
  <2> DEFINE R == M[m]
  <2>1. T \in [DesktopIds -> SUBSET Windows] /\ R \in MonitorRecords
    BY <1>1
  <2> HIDE DEF T, R
  <2>2. /\ Filled(R, T, j, rect) \in MonitorRecords
        /\ Filled(R, T, j, rect).output = R.output /\ Filled(R, T, j, rect).next = R.next
        /\ Filled(R, T, j, rect).desktops = R.desktops
        /\ Filled(R, T, j, rect).rectangle = R.rectangle
    BY <2>1, FilledIs
  <2> QED BY <2>2 DEF R
<1> QED BY <1>2, <1>3 DEF Merged

\* merge_monitors, one desktop: the windows of r move to m.
LEMMA MergeDesktopIs ==
  ASSUME Cardinality(Dialogs) <= 1, NEW M \in [Addresses -> MonitorRecords],
         NEW r \in Addresses, NEW m \in Addresses, r # m, NEW d \in DesktopIds,
         NEW order \in Orders, NEW h, NEW e, NEW c, curr_monitor \in Addresses
  PROVE  merge_desktop(Found(Merged(M, r, m, d, M[curr_monitor].rectangle), h, e, c, Yes, Yes),
                       r, m, d, order)
           = Found(Merged(M, r, m, d + 1, M[curr_monitor].rectangle), h, e, c, Yes, Yes)
<1> DEFINE rect == M[curr_monitor].rectangle
           M1 == Merged(M, r, m, d, rect)
           M2 == Merged(M, r, m, d + 1, rect)
           s  == Found(M1, h, e, c, Yes, Yes)
           T  == M[r].tree
           R  == M[m]
<1>1. /\ rect \in Rectangles \cup {NULL} /\ T \in [DesktopIds -> SUBSET Windows]
      /\ R \in MonitorRecords /\ M[r] \in MonitorRecords /\ R.tree[d] \in SUBSET Windows
      /\ curr_monitor # NULL
  BY MonitorsAssumption DEF MonitorRecords
<1>2. s.mon = M1 /\ s.ok = Yes
  BY FoundIs
<1> HIDE DEF rect
<1>3. /\ M1 \in [Addresses -> MonitorRecords] /\ M1[r] = Emptied(M[r], d)
      /\ M1[m] = Filled(R, T, d, rect)
      /\ \A a \in Addresses : M1[a].rectangle = M[a].rectangle
      /\ \A a \in Addresses \ {r, m} : M1[a] = M[a]
  BY <1>1, MergedIs
<1>4. /\ M2 \in [Addresses -> MonitorRecords] /\ M2[r] = Emptied(M[r], d + 1)
      /\ M2[m] = Filled(R, T, d + 1, rect)
      /\ \A a \in Addresses \ {r, m} : M2[a] = M[a]
  BY <1>1, MergedIs
<1>5. M1[r].tree[d] = T[d] /\ M1[m].tree[d] = R.tree[d]
  <2> HIDE DEF R, T, M1
  <2>1. Emptied(M[r], d).tree[d] = T[d]
    BY <1>1, EmptiedMore DEF T
  <2>2. Filled(R, T, d, rect).tree[d] = R.tree[d]
    BY <1>1, FilledMore
  <2> QED BY <1>3, <2>1, <2>2
<1>6. CASE T[d] = {}
  <2>1. merge_desktop(s, r, m, d, order) = s
    <3> HIDE DEF s, M1, T
    <3> QED BY <1>2, <1>5, <1>6 DEF merge_desktop
  <2>2. Emptied(M[r], d + 1) = Emptied(M[r], d)
    BY <1>1, <1>6, EmptiedMore
  <2>3. Filled(R, T, d + 1, rect) = Filled(R, T, d, rect)
    <3> HIDE DEF R, T
    <3> QED BY <1>1, <1>6, FilledMore
  <2>4. M1 = M2
    BY <2>2, <2>3 DEF Merged
  <2> QED BY <2>1, <2>4 DEF rect
<1>7. CASE T[d] # {}
  <2> DEFINE t == move_windows(s.mon[r].tree[d], s.mon[m].tree[d], order)
             N == [s.mon EXCEPT ![r].tree[d] = t.old, ![m].tree[d] = t.new,
                             ![m].area[d] = IF t.ok THEN Monitor(s.mon, curr_monitor).rectangle ELSE @]
  <2>1. t = Moved({}, R.tree[d] \cup T[d], Yes)
    <3> DEFINE o == T[d]
               n == R.tree[d]
    <3>1. o \in SUBSET Windows /\ n \in SUBSET Windows
      BY <1>1
    <3> HIDE DEF o, n
    <3>2. Iterated(move_window, [old |-> o, new |-> n, ok |-> TRUE], order) = Moved({}, n \cup o, Yes)
      BY <3>1, MovesAre
    <3>4. move_windows(o, n, order) = Moved({}, n \cup o, Yes)
      BY <3>2 DEF move_windows
    <3>3. s.mon[r].tree[d] = o /\ s.mon[m].tree[d] = n
      <4> HIDE DEF s, M1, R, T
      <4> QED BY <1>2, <1>5 DEF o, n
    <3> HIDE DEF s, M1, R, T
    <3> QED BY <3>4, <3>3 DEF o, n
  <2>2. t.old = {} /\ t.new = R.tree[d] \cup T[d] /\ t.ok = Yes
    <3> HIDE DEF t
    <3> QED BY <2>1 DEF Moved
  <2>3. Monitor(s.mon, curr_monitor).rectangle = rect
    <3> HIDE DEF s
    <3> QED BY <1>1, <1>2, <1>3 DEF Monitor, rect
  <2>4. merge_desktop(s, r, m, d, order) = Merging(s, t.ok, N)
    <3>1. s.mon[r].tree[d] # {} /\ s.ok
      <4> HIDE DEF s, M1, T
      <4> QED BY <1>2, <1>5, <1>7 DEF Yes
    <3> HIDE DEF s
    <3> QED BY <3>1 DEF merge_desktop, Merging
  <2>5. N = M2
    <3> DEFINE E1 == Emptied(M[r], d)
               F1 == Filled(R, T, d, rect)
    <3>1. [E1 EXCEPT !.tree = [E1.tree EXCEPT ![d] = {}]] = M2[r]
      BY <1>1, <1>4, EmptiedMore
    <3>2. Refilled(F1, [F1.tree EXCEPT ![d] = R.tree[d] \cup T[d]],
                   [F1.area EXCEPT ![d] = rect]) = M2[m]
      <4> HIDE DEF R, T, M2
      <4> QED BY <1>1, <1>4, <1>7, FilledMore
    <3>3. M1[r] = E1 /\ M1[m] = F1
      BY <1>3
    <3> HIDE DEF E1, F1, t, R, T, M1, M2, s
    <3>4. N = [M1 EXCEPT ![r].tree[d] = {}, ![m].tree[d] = R.tree[d] \cup T[d], ![m].area[d] = rect]
      BY <1>2, <2>2, <2>3 DEF Yes
    <3> HIDE DEF N
    <3>5. ASSUME NEW a \in Addresses PROVE N[a] = M2[a]
      <4>1. CASE a = r
        BY <1>3, <3>1, <3>3, <3>4, <4>1
      <4>2. CASE a = m
        <5>1. N[m] = [[F1 EXCEPT !.tree[d] = R.tree[d] \cup T[d]] EXCEPT !.area[d] = rect]
          BY <1>3, <3>3, <3>4
        <5>2. F1 \in MonitorRecords
          BY <1>3, <3>3
        <5>3. N[m] = [F1 EXCEPT !.tree = [F1.tree EXCEPT ![d] = R.tree[d] \cup T[d]],
                                !.area = [F1.area EXCEPT ![d] = rect]]
          BY <5>1, <5>2 DEF MonitorRecords
        <5> QED BY <3>2, <4>2, <5>3 DEF Refilled
      <4>3. CASE a \notin {r, m}
        BY <1>3, <1>4, <3>4, <4>3
      <4> QED BY <4>1, <4>2, <4>3
    <3>6. N = [a \in Addresses |-> N[a]]
      BY <1>3, <3>4
    <3> QED BY <1>4, <3>5, <3>6
  <2>6. merge_desktop(s, r, m, d, order) = Found(M2, h, e, c, Yes, Yes)
    <3> HIDE DEF t, N, M1, M2
    <3> QED BY <2>2, <2>4, <2>5, MergingIs
  <2> QED BY <2>6 DEF rect
<1> QED BY <1>6, <1>7
\* Monitors are as they were when no desktop of theirs was merged.
LEMMA MergedNone ==
  ASSUME NEW M \in [Addresses -> MonitorRecords], NEW r \in Addresses,
         NEW m \in Addresses, r # m, NEW rect \in Rectangles \cup {NULL}
  PROVE  Merged(M, r, m, 0, rect) = M
<1> DEFINE E == Emptied(M[r], 0)
           F == Filled(M[m], M[r].tree, 0, rect)
<1>1. \A d \in DesktopIds : ~(d < 0)
  BY MonitorsAssumption DEF DesktopIds
<1>2. E = M[r]
  <2>1. [d \in DesktopIds |-> IF d < 0 THEN {} ELSE M[r].tree[d]] = M[r].tree
    BY <1>1 DEF MonitorRecords
  <2>2. [M[r] EXCEPT !.tree = M[r].tree] = M[r]
    BY DEF MonitorRecords
  <2> QED BY <2>1, <2>2 DEF Emptied
<1>3. F = M[m]
  <2>1. FilledTree(M[m], M[r].tree, 0) = M[m].tree
    BY <1>1 DEF FilledTree, MonitorRecords
  <2>2. FilledArea(M[m], M[r].tree, 0, rect) = M[m].area
    BY <1>1 DEF FilledArea, MonitorRecords
  <2>3. [M[m] EXCEPT !.tree = M[m].tree, !.area = M[m].area] = M[m]
    BY DEF MonitorRecords
  <2> QED BY <2>1, <2>2, <2>3 DEF Filled
<1> HIDE DEF E, F
<1>4. Merged(M, r, m, 0, rect) = [a \in Addresses |-> IF a = r THEN E ELSE IF a = m THEN F ELSE M[a]]
  BY DEF Merged, E, F
<1> QED BY <1>2, <1>3, <1>4

\* merge_monitors: the windows of every desktop of r move to the same desktop of m.
LEMMA MergeIs ==
  ASSUME Cardinality(Dialogs) <= 1, NEW M \in [Addresses -> MonitorRecords],
         NEW r \in Addresses, NEW m \in Addresses, r # m,
         NEW order \in Orders, NEW h, NEW e, NEW c, curr_monitor \in Addresses
  PROVE  merge_monitors(Found(M, h, e, c, Yes, Yes), r, m, order)
           = Found(Merged(M, r, m, VirtualDesktops, M[curr_monitor].rectangle), h, e, c, Yes, Yes)
<1> DEFINE K == VirtualDesktops
           rect == M[curr_monitor].rectangle
           s == Found(M, h, e, c, Yes, Yes)
           B == [s EXCEPT !.ok = TRUE]
           at(j) == Found(Merged(M, r, m, j, rect), h, e, c, Yes, Yes)
           G == [i \in 0 .. K |-> at(i)]
           ids == [d \in 1 .. VirtualDesktops |-> d]
           Step(f, i) == IF i = 0 THEN B ELSE merge_desktop(f[i - 1], r, m, ids[i] - 1, order)
           U == CHOOSE u : u = [i \in 0 .. Len(ids) |-> Step(u, i)]
<1>1. K \in Nat /\ Len(ids) = K /\ \A i \in 1 .. K : ids[i] = i /\ ids[i] - 1 = i - 1
  <2>1. K \in Nat
    BY MonitorsAssumption
  <2> QED BY <2>1
<1>2. rect \in Rectangles \cup {NULL}
  BY DEF MonitorRecords
<1>3. B = at(0)
  <2>1. Merged(M, r, m, 0, rect) = M
    <3> HIDE DEF rect
    <3> QED BY <1>2, MergedNone
  <2>2. B = s
    <3> DEFINE y == Yes
    <3>1. [s EXCEPT !.ok = y] = s
      BY DEF Found
    <3>2. y = TRUE
      BY DEF Yes
    <3> HIDE DEF s, y
    <3> QED BY <3>1, <3>2
  <2> HIDE DEF B
  <2> QED BY <2>1, <2>2
<1>4. ASSUME NEW i \in 0 .. K PROVE G[i] = Step(G, i)
  <2>1. CASE i = 0
    <3>1. G[i] = at(0)
      BY <2>1
    <3> HIDE DEF B, at
    <3> QED BY <1>3, <2>1, <3>1
  <2>2. CASE i # 0
    <3> DEFINE d == i - 1
    <3>1. d \in 0 .. K /\ d \in DesktopIds /\ i \in 1 .. K /\ d + 1 = i
      BY <1>1, <2>2 DEF DesktopIds
    <3>2. G[i] = at(i) /\ G[d] = at(d)
      <4> HIDE DEF at, d
      <4> QED BY <3>1
    <3>3. ids[i] - 1 = d
      BY <1>1, <3>1
    <3> HIDE DEF ids, G
    <3>4. Step(G, i) = merge_desktop(G[d], r, m, d, order)
      <4>1. Step(G, i) = merge_desktop(G[i - 1], r, m, ids[i] - 1, order)
        BY <2>2
      <4>2. G[i - 1] = G[d]
        OBVIOUS
      <4> HIDE DEF d
      <4> QED BY <4>1, <4>2, <3>3
    <3> HIDE DEF d
    <3>5. merge_desktop(at(d), r, m, d, order) = at(d + 1)
      BY <3>1, MergeDesktopIs
    <3> QED BY <3>1, <3>2, <3>4, <3>5
  <2> QED BY <2>1, <2>2
<1>5. G = [i \in 0 .. K |-> Step(G, i)]
  <2>1. G = [i \in 0 .. K |-> G[i]]
    OBVIOUS
  <2> HIDE DEF G, Step
  <2> QED BY <1>4, <2>1
<1>6. G[K] = at(K)
  <2>1. K \in 0 .. K
    BY <1>1
  <2> HIDE DEF K, at
  <2> QED BY <2>1
<1> HIDE DEF G
<1>7. U = [i \in 0 .. K |-> Step(U, i)]
  <2> HIDE DEF ids, K, Step
  <2> QED BY <1>1, <1>5
<1>8. merge_monitors(s, r, m, order) = U[Len(ids)]
  BY DEF merge_monitors, Iterated
<1> HIDE DEF U, ids, at, B
<1>9. U[K] = G[K]
  <2>1. U[0] = G[0]
    BY <1>1, <1>5, <1>7
  <2>2. ASSUME NEW i \in 1 .. K, U[i - 1] = G[i - 1] PROVE U[i] = G[i]
    <3>1. i \in 0 .. K /\ i # 0
      BY <1>1
    <3> HIDE DEF K, Step
    <3>2. U[i] = Step(U, i) /\ G[i] = Step(G, i)
      BY <1>5, <1>7, <3>1
    <3>3. Step(U, i) = Step(G, i)
      BY <2>2, <3>1 DEF Step
    <3> QED BY <3>2, <3>3
  <2> HIDE DEF K
  <2> QED BY <1>1, <2>1, <2>2, SameEnd
<1> QED BY <1>1, <1>6, <1>8, <1>9 DEF at
-----------------------------------------------------------------------------
(* Destroying a monitor.                                                   *)

\* M without the last monitor of L.
Removed(M, L) ==
  [a \in Addresses |-> IF a = L[Len(L)] THEN FreeMonitor
                       ELSE IF a = L[Len(L) - 1] THEN [M[a] EXCEPT !.next = NULL]
                       ELSE M[a]]

Shorter(L) == SubSeq(L, 1, Len(L) - 1)

\* The list without its last monitor.
LEMMA ShorterIs ==
  ASSUME NEW L \in Seq(Addresses), Len(L) > 1, \A i, j \in 1 .. Len(L) : L[i] = L[j] => i = j
  PROVE  /\ Shorter(L) \in Seq(Addresses) /\ Len(Shorter(L)) = Len(L) - 1
         /\ \A i \in 1 .. Len(L) - 1 : Shorter(L)[i] = L[i]
         /\ In(Shorter(L)) = In(L) \ {L[Len(L)]}
         /\ Shorter(L) # <<>>
<1>1. /\ Shorter(L) \in Seq(Addresses) /\ Len(Shorter(L)) = Len(L) - 1
      /\ \A i \in 1 .. Len(L) - 1 : Shorter(L)[i] = L[i]
  BY DEF Shorter
<1>2. DOMAIN L = 1 .. Len(L) /\ DOMAIN Shorter(L) = 1 .. Len(L) - 1 /\ Len(L) \in Nat
  BY <1>1
<1>3. In(Shorter(L)) = In(L) \ {L[Len(L)]}
  <2> DEFINE S == Shorter(L)
             n == Len(L)
  <2>1. \A i \in 1 .. n - 1 : S[i] = L[i] /\ i \in 1 .. n /\ i # n
    BY <1>1, <1>2
  <2>2. \A i \in 1 .. n : i = n \/ i \in 1 .. n - 1
    <3>1. n \in Nat
      BY <1>2
    <3> HIDE DEF n
    <3> QED BY <3>1
  <2>3. n \in 1 .. n
    BY <1>2
  <2>4. DOMAIN S = 1 .. n - 1 /\ DOMAIN L = 1 .. n
    BY <1>2
  <2> HIDE DEF S, n
  <2>5. \A i, j \in 1 .. n : L[i] = L[j] => i = j
    BY DEF n
  <2>6. In(S) = In(L) \ {L[n]}
    BY <2>1, <2>2, <2>3, <2>4, <2>5 DEF In
  <2> QED BY <2>6 DEF S, n
<1>4. Shorter(L) # <<>>
  BY <1>1, <1>2
<1> QED BY <1>1, <1>3, <1>4

\* What the others hold stays.
KeepsAll(M, P, S) ==
  \A b \in S : P[b].tree = M[b].tree /\ P[b].desktops = M[b].desktops

\* Taking the last monitor away leaves the others their trees and desktops.
LEMMA RemovedKeeps ==
  ASSUME NEW M, NEW head, NEW L, Roster(M, head, L), Len(L) > 1
  PROVE  KeepsAll(M, Removed(M, L), Addresses \ {L[Len(L)]})
<1> DEFINE y == L[Len(L) - 1]
           z == L[Len(L)]
<1>1. Removed(M, L) = [a \in Addresses |-> IF a = z THEN FreeMonitor
                          ELSE IF a = y THEN [M[a] EXCEPT !.next = NULL] ELSE M[a]]
  BY DEF Removed
<1> HIDE DEF y, z
<1>2. \A a \in Addresses : /\ [M[a] EXCEPT !.next = NULL].tree = M[a].tree
                           /\ [M[a] EXCEPT !.next = NULL].desktops = M[a].desktops
  BY DEF Roster, MonitorRecords
<1>3. KeepsAll(M, Removed(M, L), Addresses \ {z})
  BY <1>1, <1>2 DEF KeepsAll
<1> QED BY <1>3 DEF z

\* The records of the monitors that stay.
LEMMA RemovedIs ==
  ASSUME NEW M, NEW head, NEW L, Roster(M, head, L), Len(L) > 1
  PROVE  /\ Removed(M, L) \in [Addresses -> MonitorRecords]
         /\ Removed(M, L)[L[Len(L)]] = FreeMonitor
         /\ Removed(M, L)[L[Len(L) - 1]] = [M[L[Len(L) - 1]] EXCEPT !.next = NULL]
         /\ \A a \in Addresses \ {L[Len(L)], L[Len(L) - 1]} : Removed(M, L)[a] = M[a]
         /\ \A a \in Addresses \ {L[Len(L)]} :
              /\ Removed(M, L)[a].output = M[a].output
              /\ Removed(M, L)[a].rectangle = M[a].rectangle
              /\ Removed(M, L)[a].desktops = M[a].desktops
              /\ Removed(M, L)[a].desk = M[a].desk
              /\ Removed(M, L)[a].tree = M[a].tree
              /\ Removed(M, L)[a].area = M[a].area
<1> DEFINE n == Len(L)
           y == L[n - 1]
           z == L[n]
<1>1. n \in Nat /\ n > 1 /\ y \in Addresses /\ z \in Addresses /\ y # z
  <2>1. n \in Nat /\ n > 1 /\ n - 1 \in 1 .. n /\ n \in 1 .. n /\ n - 1 # n
    BY RosterIs
  <2>2. \A i \in 1 .. n : L[i] \in Addresses
    BY RosterIs
  <2>3. \A i, j \in 1 .. n : L[i] = L[j] => i = j
    BY RosterIs
  <2> HIDE DEF n
  <2> QED BY <2>1, <2>2, <2>3
<1>2. M \in [Addresses -> MonitorRecords]
  BY DEF Roster
<1>3. Removed(M, L) = [a \in Addresses |-> IF a = z THEN FreeMonitor
                          ELSE IF a = y THEN [M[a] EXCEPT !.next = NULL] ELSE M[a]]
  BY DEF Removed
<1> HIDE DEF n, y, z
<1>4. /\ [M[y] EXCEPT !.next = NULL] \in MonitorRecords
      /\ [M[y] EXCEPT !.next = NULL].output = M[y].output
      /\ [M[y] EXCEPT !.next = NULL].rectangle = M[y].rectangle
      /\ [M[y] EXCEPT !.next = NULL].desktops = M[y].desktops
      /\ [M[y] EXCEPT !.next = NULL].desk = M[y].desk
      /\ [M[y] EXCEPT !.next = NULL].tree = M[y].tree
      /\ [M[y] EXCEPT !.next = NULL].area = M[y].area
  <2>1. M[y] \in MonitorRecords
    BY <1>1, <1>2
  <2> QED BY <2>1 DEF MonitorRecords
<1>5. /\ Removed(M, L) \in [Addresses -> MonitorRecords]
      /\ Removed(M, L)[z] = FreeMonitor
      /\ Removed(M, L)[y] = [M[y] EXCEPT !.next = NULL]
      /\ \A a \in Addresses \ {z, y} : Removed(M, L)[a] = M[a]
  BY <1>1, <1>2, <1>3, <1>4, FreeTyped
<1> DEFINE P == Removed(M, L)
<1>6. /\ P[y].output = M[y].output /\ P[y].rectangle = M[y].rectangle
      /\ P[y].desktops = M[y].desktops /\ P[y].desk = M[y].desk
      /\ P[y].tree = M[y].tree /\ P[y].area = M[y].area
  BY <1>4, <1>5
<1>7. \A a \in Addresses \ {z} :
              /\ P[a].output = M[a].output
              /\ P[a].rectangle = M[a].rectangle
              /\ P[a].desktops = M[a].desktops
              /\ P[a].desk = M[a].desk
              /\ P[a].tree = M[a].tree
              /\ P[a].area = M[a].area
  BY <1>5, <1>6
<1> QED BY <1>5, <1>7 DEF n, y, z

\* destroy_monitor takes the last monitor off the list.
LEMMA DestroyOne ==
  ASSUME NEW M, NEW head, NEW L, NEW e, NEW c, NEW k, NEW r, Roster(M, head, L), Len(L) > 1
  PROVE  /\ destroy_monitor(Found(M, head, e, c, k, r), L[Len(L)])
              = Found(Removed(M, L), head, e, c, k, r)
         /\ Roster(Removed(M, L), head, Shorter(L))
<1> DEFINE n == Len(L)
           y == L[n - 1]
           z == L[n]
           s == Found(M, head, e, c, k, r)
           P == Removed(M, L)
           S == Shorter(L)
<1>1. /\ n \in Nat /\ n > 1 /\ n - 1 \in 1 .. n /\ n \in 1 .. n
      /\ n <= Last /\ L \in Seq(Addresses) /\ Chain(M, head) = L
      /\ \A i \in 1 .. n : L[i] \in Addresses /\ L[i] # NULL /\ L[i] \in In(L)
      /\ \A i, j \in 1 .. n : L[i] = L[j] => i = j
  BY RosterIs
<1>2. /\ M \in [Addresses -> MonitorRecords]
      /\ \A i \in 1 .. n : M[L[i]].next = IF i < n THEN L[i + 1] ELSE NULL
      /\ \A i \in 1 .. n : M[L[i]].output = OutputOrder[i]
      /\ \A a \in Addresses \ In(L) : M[a] = FreeMonitor
      /\ head = IF L = <<>> THEN NULL ELSE L[1]
  BY DEF Roster, Lists, Chained
<1>3. s.mon = M /\ s.head = head
  BY FoundIs
<1>4. y \in Addresses /\ z \in Addresses /\ y # z /\ z # NULL /\ y # NULL /\ z \in In(L)
  <2> HIDE DEF n
  <2> QED BY <1>1
<1>5. FirstOf(L, {b \in Addresses : M[b].next = z}) = y
  <2> DEFINE B == {b \in Addresses : M[b].next = z}
             found == {i \in DOMAIN L : L[i] \in B}
  <2>1. DOMAIN L = 1 .. n
    BY <1>1
  <2> HIDE DEF n
  <2>2. \A i \in 1 .. n : L[i] \in B <=> i = n - 1
    <3> TAKE i \in 1 .. n
    <3>1. CASE i = n
      BY <1>1, <1>2, <3>1
    <3>2. CASE i # n
      <4>1. i + 1 \in 1 .. n /\ i < n
        BY <1>1, <3>2
      <4>2. M[L[i]].next = L[i + 1]
        BY <1>2, <4>1
      <4>3. L[i + 1] = L[n] <=> i + 1 = n
        BY <1>1, <4>1
      <4>4. i + 1 = n <=> i = n - 1
        BY <1>1
      <4> QED BY <1>1, <4>2, <4>3, <4>4
    <3> QED BY <3>1, <3>2
  <2> HIDE DEF B
  <2>3. found = {n - 1}
    BY <1>1, <2>1, <2>2
  <2>4. (CHOOSE j \in found : \A i \in found : j <= i) = n - 1
    <3> DEFINE p == n - 1
    <3>1. found = {p} /\ p \in Nat
      BY <1>1, <2>3
    <3> HIDE DEF p, found
    <3>2. (CHOOSE j \in found : \A i \in found : j <= i) = p
      BY <3>1
    <3> QED BY <3>2 DEF p
  <2>5. found # {}
    BY <2>3
  <2>6. FirstOf(L, B) = y
    <3> HIDE DEF y
    <3>1. FirstOf(L, B) = L[CHOOSE j \in found : \A i \in found : j <= i]
      BY <2>5 DEF FirstOf
    <3> HIDE DEF found
    <3> QED BY <2>4, <3>1 DEF y
  <2> QED BY <2>6 DEF B
<1>6. M[z].next = NULL
  BY <1>1, <1>2
<1> DEFINE M1 == [M EXCEPT ![y].next = NULL, ![z].next = NULL]
           u == [s EXCEPT !.mon = M1]
<1>7. unlink_monitor(s, z) = u
  <2> HIDE DEF s, n, y, z
  <2> QED BY <1>1, <1>3, <1>4, <1>5, <1>6 DEF unlink_monitor
<1>8. \A Q : [s EXCEPT !.mon = Q] = Found(Q, head, e, c, k, r)
  BY DEF Found
<1>9. u = Found(M1, head, e, c, k, r) /\ u.mon = M1
  <2>1. u = Found(M1, head, e, c, k, r)
    <3> HIDE DEF s, M1
    <3> QED BY <1>8
  <2> HIDE DEF u, M1
  <2> QED BY <2>1, FoundIs
<1>10. [M1 EXCEPT ![z] = FreeMonitor] = P
  <2>1. P = [a \in Addresses |-> IF a = z THEN FreeMonitor
                          ELSE IF a = y THEN [M[a] EXCEPT !.next = NULL] ELSE M[a]]
    BY DEF Removed
  <2> HIDE DEF P, n, y, z
  <2>2. M1 = [a \in Addresses |-> IF a = y THEN [M[y] EXCEPT !.next = NULL]
                                  ELSE IF a = z THEN [M[z] EXCEPT !.next = NULL] ELSE M[a]]
    BY <1>2, <1>4
  <2> HIDE DEF M1
  <2> QED BY <2>1, <2>2, <1>4
<1>11. destroy_monitor(s, z) = Found(P, head, e, c, k, r)
  <2>1. destroy_monitor(s, z) = [u EXCEPT !.mon = [u.mon EXCEPT ![z] = FreeMonitor]]
    <3> HIDE DEF s, u, z
    <3> QED BY <1>7 DEF destroy_monitor
  <2>2. destroy_monitor(s, z) = [u EXCEPT !.mon = P]
    <3> HIDE DEF s, u, z, P, M1
    <3> QED BY <1>9, <1>10, <2>1
  <2>3. [Found(M1, head, e, c, k, r) EXCEPT !.mon = P] = Found(P, head, e, c, k, r)
    BY DEF Found
  <2> HIDE DEF s, u, z, P, M1
  <2> QED BY <1>9, <2>2, <2>3
<1>12. /\ P \in [Addresses -> MonitorRecords] /\ P[z] = FreeMonitor
       /\ P[y] = [M[y] EXCEPT !.next = NULL]
       /\ \A a \in Addresses \ {z, y} : P[a] = M[a]
       /\ \A a \in Addresses \ {z} : P[a].output = M[a].output
  BY RemovedIs
<1>13. /\ S \in Seq(Addresses) /\ Len(S) = n - 1 /\ \A i \in 1 .. n - 1 : S[i] = L[i]
       /\ In(S) = In(L) \ {z} /\ S # <<>>
  BY <1>1, ShorterIs
<1> HIDE DEF P, S, n
<1>14. \A i \in 1 .. n - 1 : /\ i \in 1 .. n /\ i # n /\ L[i] \in Addresses /\ L[i] # z
                             /\ i < n - 1 => i + 1 \in 1 .. n - 1 /\ L[i] # y /\ i < n
                             /\ ~(i < n - 1) => i = n - 1
  <2> TAKE i \in 1 .. n - 1
  <2>1. i \in 1 .. n /\ i # n /\ L[i] \in Addresses /\ L[i] # z
    BY <1>1
  <2>2. ASSUME i < n - 1 PROVE i + 1 \in 1 .. n - 1 /\ L[i] # y /\ i < n
    <3>1. i # n - 1
      BY <1>1, <2>2
    <3> QED BY <1>1, <2>1, <2>2, <3>1
  <2>3. ~(i < n - 1) => i = n - 1
    BY <1>1
  <2> QED BY <2>1, <2>2, <2>3
<1>15. ASSUME NEW i \in 1 .. n - 1
       PROVE  P[S[i]].next = IF i < n - 1 THEN S[i + 1] ELSE NULL
  <2>1. CASE i < n - 1
    BY <1>2, <1>12, <1>13, <1>14, <2>1
  <2>2. CASE ~(i < n - 1)
    <3>1. S[i] = y
      BY <1>13, <1>14, <2>2
    <3>2. M[y] \in MonitorRecords
      BY <1>2, <1>4
    <3>3. P[y].next = NULL
      BY <1>12, <3>2 DEF MonitorRecords
    <3> QED BY <2>2, <3>1, <3>3
  <2> QED BY <2>1, <2>2
<1>16. \A a \in Addresses \ In(S) : P[a] = FreeMonitor
  <2> TAKE a \in Addresses \ In(S)
  <2>1. CASE a = z
    BY <1>12, <2>1
  <2>2. CASE a # z
    <3>1. a \notin In(L) /\ y \in In(L)
      BY <1>1, <1>13, <2>2
    <3> QED BY <1>2, <1>12, <2>2, <3>1
  <2> QED BY <2>1, <2>2
<1>17. \A i, j \in 1 .. n - 1 : S[i] = S[j] => i = j
  BY <1>1, <1>13, <1>14
<1>18. \A i \in 1 .. n - 1 : P[S[i]].output = OutputOrder[i]
  BY <1>2, <1>12, <1>13, <1>14
<1>19. head = IF S = <<>> THEN NULL ELSE S[1]
  <2>1. 1 \in 1 .. n - 1 /\ L # <<>>
    BY <1>1
  <2> QED BY <1>2, <1>13, <2>1
<1>20. Chained(P, S)
  BY <1>13, <1>15, <1>16, <1>17, FreeTyped DEF Chained
<1>21. Roster(P, head, S)
  <2>1. n - 1 <= Last
    BY <1>1, OrderIs
  <2> QED BY <1>12, <1>13, <1>16, <1>18, <1>19, <1>20, <2>1 DEF Roster, Lists
<1> QED BY <1>11, <1>21 DEF n, P, S

\* Destroying the last monitor of L leaves Removed(M, L), whatever else was found.
Destroys(M, head, L) ==
  \A e, c, k, r : destroy_monitor(Found(M, head, e, c, k, r), L[Len(L)])
                    = Found(Removed(M, L), head, e, c, k, r)

\* destroy_monitor takes the last monitor of the list away.
LEMMA DestroyIs ==
  ASSUME NEW M, NEW head, NEW L, Roster(M, head, L), Len(L) > 1
  PROVE  Destroys(M, head, L) /\ Roster(Removed(M, L), head, Shorter(L))
<1>1. ASSUME NEW e, NEW c, NEW k, NEW r
      PROVE  /\ destroy_monitor(Found(M, head, e, c, k, r), L[Len(L)])
                  = Found(Removed(M, L), head, e, c, k, r)
             /\ Roster(Removed(M, L), head, Shorter(L))
  BY DestroyOne
<1> QED BY <1>1 DEF Destroys
-----------------------------------------------------------------------------
(* update_monitors.                                                        *)

\* The list while another monitor's windows are merged into one of its monitors.
LEMMA MergedRoster ==
  ASSUME NEW M, NEW head, NEW L, Roster(M, head, L), NEW r \in In(L), NEW m \in In(L), r # m,
         NEW j, NEW rect \in Rectangles \cup {NULL}
  PROVE  Roster(Merged(M, r, m, j, rect), head, L)
<1> DEFINE P == Merged(M, r, m, j, rect)
<1>1. /\ M \in [Addresses -> MonitorRecords] /\ r \in Addresses /\ m \in Addresses
      /\ \A i \in 1 .. Len(L) : L[i] \in Addresses
  BY RosterIs DEF Roster
<1>2. /\ P \in [Addresses -> MonitorRecords]
      /\ \A a \in Addresses :
           /\ a \notin {r, m} => P[a] = M[a]
           /\ P[a].output = M[a].output
           /\ P[a].next = M[a].next
  BY <1>1, MergedIs
<1> HIDE DEF P
<1>3. Chained(P, L)
  BY <1>1, <1>2 DEF Chained, Roster, Lists
<1>4. Roster(P, head, L)
  BY <1>1, <1>2, <1>3 DEF Roster, Lists
<1> QED BY <1>4 DEF P

\* Examining the outputs.
LEMMA OutputsAre ==
  ASSUME NEW L, Roster(mon, head_monitor, L), mode \in [Outputs -> Modes],
         Last > 1, Len(L) \in {Last - 1, Last}, FixedOn
  PROVE  examine_outputs = examine(Examined(L, Last - 1), OutputOrder[Last])
BY ExaminedIs DEF examine_outputs, Start

\* When nothing is to be removed that is all.
LEMMA NothingGone ==
  ASSUME NEW order, examine_outputs.dl = NULL
  PROVE  update_monitors(order) = examine_outputs
BY DEF update_monitors

\* The one output that may be plugged and unplugged.
External == OutputOrder[Last]

\* The monitors before the last output is looked at.
Looked(L) == Fitted(L, Last - 1)
Change(L) == IF Unfit(L, Last - 1) THEN {"LAYOUT"} ELSE {}

\* All outputs but the last are examined: the list is as it was, with rectangles that fit.
LEMMA BeforeLast ==
  ASSUME NEW L, Roster(mon, head_monitor, L), mode \in [Outputs -> Modes],
         Last > 1, Len(L) \in {Last - 1, Last}
  PROVE  /\ Examined(L, Last - 1) = Found(Looked(L), head_monitor, NULL, Change(L), Yes, Yes)
         /\ Roster(Looked(L), head_monitor, L)
         /\ \A a \in Addresses : /\ Looked(L)[a].desktops = mon[a].desktops
                                 /\ Looked(L)[a].tree = mon[a].tree
         /\ get_monitor_by_randr_id(Looked(L), head_monitor, External)
              = IF Len(L) = Last THEN L[Last] ELSE NULL
         /\ Last \in Nat /\ Last \in 1 .. Last /\ Last - 1 \in 0 .. Len(L)
         /\ External \in Outputs
<1>1. Last \in Nat /\ Last \in 1 .. Last /\ Last - 1 \in 0 .. Len(L) /\ Len(L) \in Nat
  BY OrderIs, RosterIs
<1>2. Examined(L, Last - 1) = Found(Looked(L), head_monitor, NULL, Change(L), Yes, Yes)
  BY DEF Examined, Looked, Change
<1> DEFINE k == Last - 1
<1>3. k \in 0 .. Len(L)
  BY <1>1
<1> HIDE DEF k
<1>4. /\ Roster(Fitted(L, k), head_monitor, L)
      /\ \A a \in Addresses : /\ Fitted(L, k)[a].desktops = mon[a].desktops
                              /\ Fitted(L, k)[a].tree = mon[a].tree
  BY <1>3, FittedIs
<1>5. Looked(L) = Fitted(L, k)
  BY DEF Looked, k
<1>6. get_monitor_by_randr_id(Looked(L), head_monitor, External)
        = IF Last <= Len(L) THEN L[Last] ELSE NULL
  BY <1>1, <1>4, <1>5, GetIs DEF External
<1>7. Last <= Len(L) <=> Len(L) = Last
  BY <1>1, RosterIs
<1>8. External \in Outputs
  BY <1>1, OrderIs DEF External
<1> QED BY <1>1, <1>2, <1>4, <1>5, <1>6, <1>7, <1>8

\* The last output is off, or unplugged and without a monitor: it is left as it is.
LEMMA LeftAlone ==
  ASSUME NEW L, Roster(mon, head_monitor, L), mode \in [Outputs -> Modes],
         Last > 1, Len(L) \in {Last - 1, Last}, FixedOn, NEW order,
         status[External] # "ON", status[External] = "UNPLUGGED" => Len(L) # Last
  PROVE  update_monitors(order) = Examined(L, Last - 1)
<1> DEFINE s == Examined(L, Last - 1)
<1>1. /\ s = Found(Looked(L), head_monitor, NULL, Change(L), Yes, Yes)
      /\ get_monitor_by_randr_id(Looked(L), head_monitor, External)
              = IF Len(L) = Last THEN L[Last] ELSE NULL
  BY BeforeLast
<1>2. s.mon = Looked(L) /\ s.head = head_monitor /\ s.dl = NULL
  <2> HIDE DEF s
  <2> QED BY <1>1, FoundIs
<1>3. examine(s, External) = s
  <2> HIDE DEF s
  <2> QED BY <1>1, <1>2 DEF examine
<1>4. examine_outputs = s
  BY <1>3, OutputsAre DEF External
<1> HIDE DEF s
<1>5. update_monitors(order) = s
  BY <1>2, <1>4, NothingGone
<1> QED BY <1>5 DEF s

\* It is on and has a monitor: all are looked at alike.
LEMMA AllFitted ==
  ASSUME NEW L, Roster(mon, head_monitor, L), mode \in [Outputs -> Modes],
         Last > 1, Len(L) = Last, FixedOn, NEW order, status[External] = "ON"
  PROVE  update_monitors(order) = Examined(L, Last)
<1>1. Last \in 1 .. Len(L)
  BY OrderIs
<1>2. examine(Examined(L, Last - 1), External) = Examined(L, Last)
  BY <1>1, ExamineOn DEF External
<1>3. examine_outputs = Examined(L, Last)
  BY <1>2, OutputsAre DEF External
<1>4. Examined(L, Last).dl = NULL
  BY FoundIs DEF Examined
<1> QED BY <1>3, <1>4, NothingGone

\* It is on and has no monitor: one is added at the end of the list.
LEMMA OneAdded ==
  ASSUME NEW L, Roster(mon, head_monitor, L), mode \in [Outputs -> Modes],
         Last > 1, Len(L) = Last - 1, FixedOn, NEW order, status[External] = "ON",
         Last <= Cardinality(Addresses)
  PROVE  \E a \in Addresses \ In(L) :
           LET m == init_monitor(External, mode[External])
               P == Added(Looked(L), L, a, m)
           IN  /\ update_monitors(order) = Found(P, head_monitor, NULL, Change(L) \cup {"CONNECTED"}, Yes, Yes)
               /\ Roster(P, head_monitor, Append(L, a))
               /\ m \in MonitorRecords
<1> DEFINE s == Examined(L, Last - 1)
           B == Looked(L)
           m == init_monitor(External, mode[External])
           a == Malloc(FreeAddresses(B))
           P == Added(B, L, a, m)
<1>1. /\ s = Found(B, head_monitor, NULL, Change(L), Yes, Yes)
      /\ get_monitor_by_randr_id(B, head_monitor, External) = IF Len(L) = Last THEN L[Last] ELSE NULL
      /\ Roster(B, head_monitor, L) /\ External \in Outputs
      /\ Last \in Nat
  BY BeforeLast
<1>2. s.mon = B /\ s.head = head_monitor /\ s.dl = NULL /\ s.changes = Change(L)
  <2> HIDE DEF s
  <2> QED BY <1>1, FoundIs
<1>3. a \in Addresses \ In(L)
  <2>1. Len(L) < Cardinality(Addresses)
    BY <1>1, MonitorsAssumption, FS_CardinalityType
  <2>2. Addresses \ In(L) # {}
    BY <1>1, <2>1, RoomIs
  <2> QED BY <1>1, <2>2, FreeIs
<1>4. m \in MonitorRecords /\ m.next = NULL /\ m.output = External
  <2> DEFINE R == <<External, mode[External]>>
  <2>1. R \in Rectangles
    BY <1>1 DEF Rectangles
  <2>2. m = [[FreeMonitor EXCEPT !.output = External] EXCEPT !.rectangle = R]
    BY FreeTyped DEF init_monitor, MonitorRecords
  <2> HIDE DEF R
  <2>3. [FreeMonitor EXCEPT !.output = External] \in MonitorRecords
    BY <1>1, FreeTyped DEF MonitorRecords
  <2>4. [FreeMonitor EXCEPT !.output = External].next = NULL /\ [FreeMonitor EXCEPT !.output = External].output = External
    BY FreeTyped DEF MonitorRecords
  <2> DEFINE Q == [FreeMonitor EXCEPT !.output = External]
  <2> HIDE DEF Q, m
  <2>5. [Q EXCEPT !.rectangle = R] \in MonitorRecords /\ [Q EXCEPT !.rectangle = R].next = Q.next
         /\ [Q EXCEPT !.rectangle = R].output = Q.output
    BY <2>1, <2>3 DEF MonitorRecords, Q
  <2> QED BY <2>2, <2>4, <2>5 DEF Q
<1>5. L # <<>> /\ Len(L) < Last /\ Len(L) + 1 = Last /\ Len(L) \in Nat
  <2>1. Len(L) \in Nat /\ Last \in Nat /\ Len(L) # 0 /\ L \in Seq(Addresses)
    BY <1>1, RosterIs
  <2>2. L # <<>>
    BY <2>1
  <2> QED BY <2>1, <2>2
<1> HIDE DEF s, B, m, a
<1>6. add_monitor(s, a, m) = [s EXCEPT !.mon = P] /\ Roster(P, head_monitor, Append(L, a))
  <2>1. m.output = OutputOrder[Len(L) + 1]
    BY <1>4, <1>5 DEF External
  <2>2. Roster(s.mon, s.head, L)
    BY <1>1, <1>2
  <2>3. /\ add_monitor(s, a, m) = [s EXCEPT !.mon = Added(s.mon, L, a, m)]
        /\ Roster(Added(s.mon, L, a, m), s.head, Append(L, a))
    <3>1. /\ add_monitor(s, a, m) =
                IF L = <<>> THEN [s EXCEPT !.mon = Added(s.mon, L, a, m), !.head = a]
                ELSE [s EXCEPT !.mon = Added(s.mon, L, a, m)]
          /\ Roster(Added(s.mon, L, a, m), IF L = <<>> THEN a ELSE s.head, Append(L, a))
      BY <1>3, <1>4, <1>5, <2>1, <2>2, AddIs
    <3> QED BY <1>5, <3>1
  <2> QED BY <1>2, <2>3
<1>7. examine(s, External) = [add_monitor(s, a, m) EXCEPT !.changes = @ \cup {"CONNECTED"}]
  <2>1. get_monitor_by_randr_id(s.mon, s.head, External) = NULL
    BY <1>1, <1>2, <1>5
  <2>2. a = Malloc(FreeAddresses(s.mon)) /\ m = init_monitor(External, mode[External])
    BY <1>2 DEF a, m, B
  <2> QED BY <2>1, <2>2 DEF examine
<1> HIDE DEF P
<1>8. [s EXCEPT !.mon = P] = Found(P, head_monitor, NULL, Change(L), Yes, Yes)
  BY <1>1 DEF Found
<1>9. examine(s, External) = Found(P, head_monitor, NULL, Change(L) \cup {"CONNECTED"}, Yes, Yes)
  <2> DEFINE t == Found(P, head_monitor, NULL, Change(L), Yes, Yes)
             C == Change(L) \cup {"CONNECTED"}
  <2>1. [t EXCEPT !.changes = C] = Found(P, head_monitor, NULL, C, Yes, Yes)
    <3>1. ASSUME NEW x, NEW y
          PROVE  [Found(P, head_monitor, NULL, x, Yes, Yes) EXCEPT !.changes = y]
                   = Found(P, head_monitor, NULL, y, Yes, Yes)
      BY DEF Found
    <3> HIDE DEF C
    <3> QED BY <3>1
  <2>2. t.changes = Change(L)
    BY FoundIs
  <2> HIDE DEF t
  <2>3. [t EXCEPT !.changes = @ \cup {"CONNECTED"}] = [t EXCEPT !.changes = C]
    BY <2>2
  <2>4. add_monitor(s, a, m) = t
    BY <1>6, <1>8 DEF t
  <2>5. examine(s, External) = [t EXCEPT !.changes = @ \cup {"CONNECTED"}]
    BY <1>7, <2>4
  <2> QED BY <2>1, <2>3, <2>5
<1>10. examine_outputs = examine(s, External)
  BY <1>5, OutputsAre DEF External, s
<1>11. examine_outputs.dl = NULL
  BY <1>9, <1>10, FoundIs
<1>12. update_monitors(order) = Found(P, head_monitor, NULL, Change(L) \cup {"CONNECTED"}, Yes, Yes)
  BY <1>9, <1>10, <1>11, NothingGone
<1> QED BY <1>3, <1>4, <1>6, <1>12 DEF P, B, m
\* The windows of the last monitor of the list go to another one of the list.
LEMMA RefugeIs ==
  ASSUME NEW s, NEW L, Roster(s.mon, s.head, L), Len(L) > 1, prim_monitor \in In(L)
  PROVE  refuge(s, {L[Len(L)]}) \in In(L) \ {L[Len(L)]}
<1> DEFINE n == Len(L)
           z == L[n]
           S == Addresses \ {z}
           found == {i \in DOMAIN L : L[i] \in S}
<1>1. /\ n \in Nat /\ n > 1 /\ 1 \in 1 .. n /\ n \in 1 .. n /\ 1 # n /\ DOMAIN L = 1 .. n
      /\ \A i \in 1 .. n : L[i] \in In(L) /\ L[i] \in Addresses
      /\ \A i, j \in 1 .. n : L[i] = L[j] => i = j
      /\ Chain(s.mon, s.head) = L
  BY RosterIs
<1>2. CASE prim_monitor # z
  BY <1>2 DEF refuge
<1>3. CASE prim_monitor = z
  <2> HIDE DEF n
  <2>1. L[1] \in S
    BY <1>1
  <2>2. found \subseteq Nat /\ 1 \in found
    BY <1>1, <2>1
  <2>3. PICK k \in found : \A j \in found : ~(j < k)
    <3> HIDE DEF found
    <3> QED BY <2>2, LeastIn
  <2>4. \A j \in found : k <= j
    BY <2>2, <2>3
  <2> DEFINE p == CHOOSE i \in found : \A j \in found : i <= j
  <2>5. p \in found
    <3> HIDE DEF found
    <3> QED BY <2>3, <2>4
  <2>6. FirstOf(L, S) = L[p]
    <3>1. found # {}
      BY <2>2
    <3> QED BY <3>1 DEF FirstOf
  <2>7. L[p] \in In(L) /\ L[p] # z
    <3> HIDE DEF p
    <3> QED BY <1>1, <2>5
  <2> HIDE DEF p, S, z
  <2>8. refuge(s, {z}) = L[p]
    BY <1>1, <1>3, <2>6 DEF refuge, S
  <2> QED BY <2>7, <2>8 DEF z, n
<1> QED BY <1>2, <1>3

\* The last monitor of the list is merged into another one, and destroyed.
LEMMA RemoveIs ==
  ASSUME NEW M, NEW head, NEW L, Roster(M, head, L), Len(L) > 1, NEW m \in In(L) \ {L[Len(L)]},
         Cardinality(Dialogs) <= 1, NEW order \in Orders, NEW e, NEW c,
         curr_monitor \in In(L), M[m].desktops, M[L[Len(L)]].desktops
  PROVE  LET P == Merged(M, L[Len(L)], m, VirtualDesktops, M[curr_monitor].rectangle)
         IN  /\ remove_monitor(Found(M, head, e, c, Yes, Yes), L[Len(L)], m, order)
                  = Found(Removed(P, L), head, e, c, Yes, Yes)
             /\ Roster(P, head, L)
             /\ Roster(Removed(P, L), head, Shorter(L))
<1> DEFINE z == L[Len(L)]
           rect == M[curr_monitor].rectangle
           P == Merged(M, z, m, VirtualDesktops, rect)
           s == Found(M, head, e, c, Yes, Yes)
           all == Found(P, head, e, c, Yes, Yes)
<1>1. /\ z \in In(L) /\ z # m /\ m \in In(L) /\ z \in Addresses /\ m \in Addresses
      /\ curr_monitor \in Addresses /\ M \in [Addresses -> MonitorRecords]
  <2>1. Len(L) \in 1 .. Len(L)
    BY RosterIs
  <2> QED BY <2>1, RosterIs DEF Roster
<1>2. rect \in Rectangles \cup {NULL}
  BY <1>1 DEF MonitorRecords
<1>3. Roster(P, head, L)
  <2> HIDE DEF z, rect
  <2> QED BY <1>1, <1>2, MergedRoster
<1>4. merge_monitors(s, z, m, order) = all
  <2> HIDE DEF z
  <2> QED BY <1>1, MergeIs
<1> HIDE DEF P
<1>5. /\ destroy_monitor(all, z) = Found(Removed(P, L), head, e, c, Yes, Yes)
      /\ Roster(Removed(P, L), head, Shorter(L))
  <2>1. destroy_monitor(Found(P, head, e, c, Yes, Yes), L[Len(L)])
          = Found(Removed(P, L), head, e, c, Yes, Yes)
    <3> HIDE DEF z, s, rect, all
    <3>1. Destroys(P, head, L)
      BY <1>3, DestroyIs
    <3> QED BY <3>1 DEF Destroys
  <2>2. Roster(Removed(P, L), head, Shorter(L))
    <3> HIDE DEF z, s, rect, all
    <3> QED BY <1>3, DestroyIs
  <2> QED BY <2>1, <2>2
<1>6. s.mon = M /\ s.running = Yes /\ all.ok = Yes
  BY FoundIs
<1>7. s.mon[z].desktops /\ s.mon[m].desktops /\ s.running /\ all.ok
  <2> HIDE DEF s, all
  <2> QED BY <1>6 DEF Yes
<1>8. remove_monitor(s, z, m, order) = Found(Removed(P, L), head, e, c, Yes, Yes)
  <2> HIDE DEF s, all, z
  <2> QED BY <1>4, <1>5, <1>7 DEF remove_monitor
<1> QED BY <1>3, <1>5, <1>8 DEF P

\* It is unplugged and has a monitor: that is merged into another one and removed.
LEMMA OneRemoved ==
  ASSUME NEW L, Roster(mon, head_monitor, L), mode \in [Outputs -> Modes],
         Last > 1, Len(L) = Last, FixedOn, NEW order \in Orders, status[External] = "UNPLUGGED",
         Cardinality(Dialogs) <= 1, prim_monitor \in In(L), curr_monitor \in In(L),
         \A a \in In(L) : mon[a].desktops
  PROVE  \E m \in In(L) \ {L[Last]} :
           LET B == Looked(L)
               P == Merged(B, L[Last], m, VirtualDesktops, B[curr_monitor].rectangle)
           IN  /\ update_monitors(order) = Found(Removed(P, L), head_monitor, L[Last],
                                                 Change(L) \cup {"DISCONNECTED"}, Yes, Yes)
               /\ Roster(P, head_monitor, L)
               /\ Roster(Removed(P, L), head_monitor, Shorter(L))
<1> DEFINE s == Examined(L, Last - 1)
           B == Looked(L)
           z == L[Last]
           t == Found(B, head_monitor, z, Change(L), Yes, Yes)
           m == refuge(t, {z})
           P == Merged(B, z, m, VirtualDesktops, B[curr_monitor].rectangle)
           C == Change(L) \cup {"DISCONNECTED"}
           b == Found(B, head_monitor, z, C, Yes, Yes)
           f == Found(Removed(P, L), head_monitor, z, C, Yes, Yes)
<1>1. /\ s = Found(B, head_monitor, NULL, Change(L), Yes, Yes)
      /\ get_monitor_by_randr_id(B, head_monitor, External) = z
      /\ Roster(B, head_monitor, L) /\ External \in Outputs
      /\ Last \in Nat /\ Last \in 1 .. Last
      /\ \A a \in Addresses : B[a].desktops = mon[a].desktops
  BY BeforeLast
<1>2. /\ z \in In(L) /\ z \in Addresses /\ z # NULL /\ z = L[Len(L)]
      /\ B \in [Addresses -> MonitorRecords] /\ B[z].next = NULL
      /\ Chain(B, head_monitor) = L
  <2>1. z \in In(L) /\ z \in Addresses /\ z # NULL
    BY <1>1, RosterIs
  <2>2. B[z].next = NULL
    BY <1>1 DEF Roster, Lists, Chained
  <2>3. Chain(B, head_monitor) = L
    BY <1>1, RosterIs
  <2> QED BY <1>1, <2>1, <2>2, <2>3 DEF Roster
<1>3. s.mon = B /\ s.head = head_monitor /\ s.dl = NULL /\ s.changes = Change(L)
  <2> HIDE DEF s
  <2> QED BY <1>1, FoundIs
<1>4. examine(s, External) = t
  <2>1. get_monitor_by_randr_id(s.mon, s.head, External) = z
    BY <1>1, <1>3
  <2> HIDE DEF s, B, z
  <2>2. examine(s, External) = [s EXCEPT !.mon[z].next = s.dl, !.dl = z]
    BY <1>2, <2>1 DEF examine
  <2>3. [s.mon EXCEPT ![z].next = s.dl] = B
    <3>1. [B[z] EXCEPT !.next = NULL] = B[z]
      <4>1. B[z] \in MonitorRecords
        BY <1>2
      <4> QED BY <1>2, <4>1 DEF MonitorRecords
    <3> QED BY <1>2, <1>3, <3>1
  <2>4. [s EXCEPT !.mon[z].next = s.dl, !.dl = z] = [s EXCEPT !.mon = [s.mon EXCEPT ![z].next = s.dl], !.dl = z]
    OBVIOUS
  <2> DEFINE Q == [s.mon EXCEPT ![z].next = s.dl]
  <2>5. examine(s, External) = Pushed(s, Q, z)
    <3> HIDE DEF Q
    <3>1. examine(s, External) = [s EXCEPT !.mon = Q, !.dl = z]
      BY <2>2, <2>4 DEF Q
    <3> QED BY <3>1 DEF Pushed
  <2>6. examine(s, External) = Pushed(Found(B, head_monitor, NULL, Change(L), Yes, Yes), B, z)
    <3> HIDE DEF Q
    <3>1. Q = B
      BY <2>3 DEF Q
    <3> QED BY <1>1, <2>5, <3>1
  <2> QED BY <2>6, FoundOther
<1>5. examine_outputs = t
  <2> HIDE DEF s, t
  <2> QED BY <1>1, <1>4, OutputsAre DEF External, s
<1>6. /\ t.mon = B /\ t.head = head_monitor /\ t.dl = z /\ t.changes = Change(L)
  <2> HIDE DEF B, z
  <2> QED BY FoundIs
<1>7. Chain(B, z) = <<z>>
  <2>1. Chain(B, L[Last]) = SubSeq(L, Last, Len(L))
    <3> HIDE DEF B
    <3>1. Chained(B, L) /\ Last \in 1 .. Len(L)
      BY <1>1 DEF Roster, Lists
    <3> QED BY <3>1, ChainIs
  <2>2. SubSeq(L, Last, Len(L)) = <<L[Last]>>
    <3> DEFINE n == Last
    <3>1. n \in Nat /\ n \in 1 .. n /\ Len(L) = n /\ L \in Seq(Addresses)
      BY <1>1, RosterIs
    <3> HIDE DEF n
    <3>2. SubSeq(L, n, n) = <<L[n]>>
      <4>1. /\ SubSeq(L, n, n) \in Seq(Addresses) /\ Len(SubSeq(L, n, n)) = 1
            /\ SubSeq(L, n, n)[1] = L[n]
        BY <3>1
      <4> DEFINE q == SubSeq(L, n, n)
      <4> HIDE DEF q
      <4>2. q \in Seq(Addresses) /\ Len(q) = 1 /\ q[1] = L[n]
        BY <4>1 DEF q
      <4>3. q = <<L[n]>>
        BY <4>2
      <4> QED BY <4>3 DEF q
    <3> QED BY <3>1, <3>2 DEF n
  <2> QED BY <2>1, <2>2
<1>8. In(<<z>>) = {z}
  <2> HIDE DEF z
  <2> QED BY DEF In
<1>9. m \in In(L) \ {z}
  <2> HIDE DEF t, B
  <2>1. Roster(t.mon, t.head, L)
    BY <1>1, <1>6
  <2>2. refuge(t, {L[Len(L)]}) \in In(L) \ {L[Len(L)]}
    BY <2>1, RefugeIs
  <2> QED BY <2>2
<1>10. m \in Addresses /\ m # NULL
  BY <1>9, RosterIs
<1>11. /\ remove_monitor(b, z, m, order) = f
       /\ Roster(P, head_monitor, L)
       /\ Roster(Removed(P, L), head_monitor, Shorter(L))
  <2> HIDE DEF B, m, C
  <2>1. B[m].desktops /\ B[z].desktops /\ z = L[Len(L)]
    BY <1>1, <1>2, <1>9, <1>10
  <2> QED BY <1>1, <1>9, <2>1, RemoveIs
<1> HIDE DEF B, m, z, P
<1>12. [t EXCEPT !.changes = @ \cup {"DISCONNECTED"}] = b
  <2>1. [t EXCEPT !.changes = @ \cup {"DISCONNECTED"}] = [t EXCEPT !.changes = C]
    <3> HIDE DEF t
    <3> QED BY <1>6
  <2>2. [t EXCEPT !.changes = C] = b
    <3>1. ASSUME NEW x, NEW y
          PROVE  [Found(B, head_monitor, z, x, Yes, Yes) EXCEPT !.changes = y]
                   = Found(B, head_monitor, z, y, Yes, Yes)
      BY DEF Found
    <3> HIDE DEF C
    <3> QED BY <3>1
  <2> QED BY <2>1, <2>2
<1> HIDE DEF b, f, t
<1> DEFINE seq == <<z>>
           Step(u, i) == IF i = 0 THEN b ELSE remove_monitor(u[i - 1], seq[i], m, order)
           U == CHOOSE u : u = [i \in 0 .. Len(seq) |-> Step(u, i)]
           G == [i \in 0 .. 1 |-> IF i = 0 THEN b ELSE f]
<1>13. Len(seq) = 1 /\ seq[1] = z
  OBVIOUS
<1>14. update_monitors(order) = U[Len(seq)]
  <2>1. Chain(t.mon, t.dl) = seq /\ refuge(t, In(seq)) = m
    BY <1>6, <1>7, <1>8 DEF m
  <2>2. t.dl # NULL /\ m # NULL
    BY <1>2, <1>6, <1>10
  <2> HIDE DEF seq
  <2>3. update_monitors(order) = remove_monitors(b, seq, m, order)
    BY <1>5, <1>12, <2>1, <2>2 DEF update_monitors
  <2>4. remove_monitors(b, seq, m, order) = U[Len(seq)]
    BY DEF remove_monitors, Iterated
  <2> QED BY <2>3, <2>4
<1>15. G = [i \in 0 .. 1 |-> Step(G, i)]
  <2> HIDE DEF seq
  <2>1. ASSUME NEW i \in 0 .. 1 PROVE G[i] = Step(G, i)
    <3>1. CASE i = 0
      BY <3>1
    <3>2. CASE i = 1
      BY <1>11, <1>13, <3>2
    <3> QED BY <3>1, <3>2
  <2>2. G = [i \in 0 .. 1 |-> G[i]]
    OBVIOUS
  <2> HIDE DEF G, Step
  <2> QED BY <2>1, <2>2
<1>16. U = [i \in 0 .. 1 |-> Step(U, i)]
  <2> HIDE DEF G, seq, Step
  <2> QED BY <1>13, <1>15
<1>17. U[1] = f
  <2> HIDE DEF U, seq
  <2>1. U[0] = b
    BY <1>16
  <2>2. U[1] = remove_monitor(U[0], seq[1], m, order)
    BY <1>16
  <2> QED BY <1>11, <1>13, <2>1, <2>2
<1>18. update_monitors(order) = f
  <2> HIDE DEF U, seq
  <2> QED BY <1>13, <1>14, <1>17
<1> QED BY <1>9, <1>11, <1>18 DEF B, z, P, f
-----------------------------------------------------------------------------
(* What is found, in every case.                                           *)

\* What the monitors of L hold on their desktops number d.
Trees(M, L, d) == UNION {M[a].tree[d] : a \in In(L)}

\* The list has a monitor for each output that is on, and none for one that is unplugged.
Matching(L) ==
  /\ Len(L) \in {Last - 1, Last}
  /\ status[External] = "ON" => Len(L) = Last
  /\ status[External] = "UNPLUGGED" => Len(L) = Last - 1

\* The list is L, all of it finished, and the pointers point into it.
Ready(L) ==
  /\ Roster(mon, head_monitor, L)
  /\ Len(L) \in {Last - 1, Last}
  /\ \A a \in In(L) : mon[a].desktops
  /\ prim_monitor \in In(L) /\ curr_monitor \in In(L)

\* The monitors are M, their list L2 where it was L, and the changes c.
Outcome(L, M, c, L2) ==
  /\ Roster(M, head_monitor, L2)
  /\ Matching(L2)
  /\ \A d \in DesktopIds : Trees(mon, L, d) \subseteq Trees(M, L2, d)
  /\ "CONNECTED" \in c => In(L) \subseteq In(L2) /\ ~(In(L2) \subseteq In(L))
  /\ "CONNECTED" \notin c => In(L2) \subseteq In(L) /\ \A a \in In(L2) : M[a].desktops
  /\ "CONNECTED" \notin c /\ "DISCONNECTED" \notin c => L2 = L
  /\ c = {} => M = mon

\* No rectangle is to be changed, so nothing is.
LEMMA FitIs ==
  ASSUME NEW L, Roster(mon, head_monitor, L), NEW i \in 0 .. Len(L), ~Unfit(L, i)
  PROVE  Fitted(L, i) = mon
<1>1. mon \in [Addresses -> MonitorRecords]
  BY DEF Roster
<1>2. ASSUME NEW a \in Addresses PROVE Fitted(L, i)[a] = mon[a]
  <2>1. CASE \E j \in 1 .. i : a = L[j]
    <3>1. mon[a].rectangle = Fit(a)
      BY <2>1 DEF Unfit
    <3>2. mon[a] \in MonitorRecords
      BY <1>1
    <3>3. [mon[a] EXCEPT !.rectangle = mon[a].rectangle] = mon[a]
      BY <3>2 DEF MonitorRecords
    <3>4. Fitted(L, i)[a] = [mon[a] EXCEPT !.rectangle = Fit(a)]
      BY <2>1 DEF Fitted
    <3> QED BY <3>1, <3>3, <3>4
  <2>2. CASE ~\E j \in 1 .. i : a = L[j]
    BY <2>2 DEF Fitted
  <2> QED BY <2>1, <2>2
<1> QED BY <1>1, <1>2 DEF Fitted

\* Rectangles were set, no more.
LEMMA FittedOutcome ==
  ASSUME NEW L, Ready(L), mode \in [Outputs -> Modes], NEW i \in 0 .. Len(L), Matching(L)
  PROVE  Outcome(L, Fitted(L, i), IF Unfit(L, i) THEN {"LAYOUT"} ELSE {}, L)
<1> DEFINE M == Fitted(L, i)
           c == IF Unfit(L, i) THEN {"LAYOUT"} ELSE {}
<1>1. /\ Roster(M, head_monitor, L)
      /\ \A a \in Addresses : M[a].desktops = mon[a].desktops /\ M[a].tree = mon[a].tree
  BY FittedIs DEF Ready
<1>2. c = {} => M = mon
  BY FitIs DEF Ready
<1>3. "CONNECTED" \notin c /\ "DISCONNECTED" \notin c
  OBVIOUS
<1>4. \A a \in In(L) : a \in Addresses
  BY RosterIs DEF Ready
<1> HIDE DEF M, c
<1>5. \A d \in DesktopIds : Trees(mon, L, d) \subseteq Trees(M, L, d)
  BY <1>1, <1>4 DEF Trees
<1>6. \A a \in In(L) : M[a].desktops
  BY <1>1, <1>4 DEF Ready
<1>7. Outcome(L, M, c, L)
  BY <1>1, <1>2, <1>3, <1>5, <1>6 DEF Outcome
<1> QED BY <1>7 DEF M, c

\* A monitor was added.
LEMMA AddedOutcome ==
  ASSUME NEW L, Ready(L), mode \in [Outputs -> Modes], Last > 1, Len(L) = Last - 1,
         status[External] = "ON", NEW a \in Addresses \ In(L), NEW m \in MonitorRecords,
         Roster(Added(Looked(L), L, a, m), head_monitor, Append(L, a))
  PROVE  Outcome(L, Added(Looked(L), L, a, m), Change(L) \cup {"CONNECTED"}, Append(L, a))
<1> DEFINE B == Looked(L)
           P == Added(B, L, a, m)
           A == Append(L, a)
           c == Change(L) \cup {"CONNECTED"}
<1>1. /\ Roster(B, head_monitor, L)
      /\ \A b \in Addresses : B[b].tree = mon[b].tree
      /\ Last \in Nat
  BY BeforeLast DEF Ready
<1>2. B \in [Addresses -> MonitorRecords]
  BY <1>1 DEF Roster
<1> HIDE DEF B
<1>3. AddingKeeps(B, P, a)
  <2> HIDE DEF P
  <2>1. AddingKeeps(B, Added(B, L, a, m), a)
    BY <1>1, AddedKeeps
  <2> QED BY <2>1 DEF P
<1> HIDE DEF P
<1>4. \A b \in In(L) : b \in Addresses \ {a} /\ P[b].tree = mon[b].tree
  <2> TAKE b \in In(L)
  <2>1. b \in Addresses \ {a}
    BY RosterIs DEF Ready
  <2> QED BY <1>1, <1>3, <2>1 DEF AddingKeeps
<1>5. In(A) = In(L) \cup {a} /\ Len(A) = Last
  <2>1. /\ L \in Seq(Addresses) /\ Len(L) \in Nat /\ DOMAIN L = 1 .. Len(L)
    BY RosterIs DEF Ready
  <2>2. /\ DOMAIN A = 1 .. Len(L) + 1 /\ Len(A) = Len(L) + 1 /\ A[Len(L) + 1] = a
        /\ \A i \in 1 .. Len(L) : A[i] = L[i]
    BY <2>1
  <2> HIDE DEF A
  <2>3. In(A) = In(L) \cup {a}
    BY <2>1, <2>2 DEF In
  <2> QED BY <1>1, <2>2, <2>3
<1> HIDE DEF P, A
<1>6. \A d \in DesktopIds : Trees(mon, L, d) \subseteq Trees(P, A, d)
  BY <1>4, <1>5 DEF Trees
<1>7. Matching(A)
  BY <1>1, <1>5 DEF Matching
<1>8. "CONNECTED" \in c /\ c # {}
  OBVIOUS
<1>9. Roster(P, head_monitor, A)
  BY DEF P, A, B
<1> HIDE DEF c
<1>10. Outcome(L, P, c, A)
  BY <1>5, <1>6, <1>7, <1>8, <1>9 DEF Outcome
<1> QED BY <1>10 DEF P, A, c, B

\* A monitor was removed.
LEMMA RemovedOutcome ==
  ASSUME NEW L, Ready(L), mode \in [Outputs -> Modes], Last > 1, Len(L) = Last,
         status[External] = "UNPLUGGED", NEW m \in In(L) \ {L[Last]}, NEW rect,
         rect \in Rectangles \cup {NULL},
         Roster(Merged(Looked(L), L[Last], m, VirtualDesktops, rect), head_monitor, L),
         Roster(Removed(Merged(Looked(L), L[Last], m, VirtualDesktops, rect), L),
                head_monitor, Shorter(L))
  PROVE  Outcome(L, Removed(Merged(Looked(L), L[Last], m, VirtualDesktops, rect), L),
                 Change(L) \cup {"DISCONNECTED"}, Shorter(L))
<1> DEFINE B == Looked(L)
           z == L[Last]
           P == Merged(B, z, m, VirtualDesktops, rect)
           Q == Removed(P, L)
           S == Shorter(L)
           c == Change(L) \cup {"DISCONNECTED"}
<1>1. /\ Roster(B, head_monitor, L)
      /\ \A b \in Addresses : B[b].tree = mon[b].tree /\ B[b].desktops = mon[b].desktops
      /\ Last \in Nat /\ Last \in 1 .. Last
  BY BeforeLast DEF Ready
<1>2. /\ B \in [Addresses -> MonitorRecords] /\ z \in Addresses /\ m \in Addresses /\ z # m
      /\ L \in Seq(Addresses) /\ \A i, j \in 1 .. Len(L) : L[i] = L[j] => i = j
      /\ \A a \in In(L) : a \in Addresses
      /\ m \in In(L) /\ z \in In(L)
  <2> HIDE DEF B
  <2>1. B \in [Addresses -> MonitorRecords]
    BY <1>1 DEF Roster
  <2>2. /\ L \in Seq(Addresses) /\ \A i, j \in 1 .. Len(L) : L[i] = L[j] => i = j
        /\ \A a \in In(L) : a \in Addresses
        /\ \A i \in 1 .. Len(L) : L[i] \in In(L)
    BY <1>1, RosterIs
  <2>3. z \in In(L)
    BY <1>1, <2>2
  <2> HIDE DEF z
  <2>4. m \in In(L) /\ z # m
    BY DEF z
  <2> QED BY <2>1, <2>2, <2>3, <2>4
<1> HIDE DEF B
<1>3. /\ P[m] = Filled(B[m], B[z].tree, VirtualDesktops, rect)
      /\ \A a \in Addresses : /\ a \notin {z, m} => P[a] = B[a]
                              /\ P[a].desktops = B[a].desktops
  BY <1>2, MergedIs
<1>4. P[m].tree = FilledTree(B[m], B[z].tree, VirtualDesktops)
  <2> DEFINE R == B[m]
             T == B[z].tree
  <2>1. R \in MonitorRecords /\ T \in [DesktopIds -> SUBSET Windows]
    BY <1>2 DEF MonitorRecords
  <2> HIDE DEF R, T
  <2>2. Filled(R, T, VirtualDesktops, rect).tree = FilledTree(R, T, VirtualDesktops)
    BY <2>1, FilledIs
  <2> QED BY <1>3, <2>2 DEF R, T
<1>5. \A d \in DesktopIds : P[m].tree[d] = B[m].tree[d] \cup B[z].tree[d]
  <2>1. \A d \in DesktopIds : d < VirtualDesktops
    BY MonitorsAssumption DEF DesktopIds
  <2> QED BY <1>4, <2>1 DEF FilledTree
<1> HIDE DEF P
<1>6. Roster(P, head_monitor, L) /\ Roster(Q, head_monitor, S)
  BY DEF P, B
<1>7. \A a \in Addresses \ {z} : Q[a].tree = P[a].tree /\ Q[a].desktops = P[a].desktops
  <2>1. z = L[Len(L)] /\ Len(L) > 1
    OBVIOUS
  <2> HIDE DEF z
  <2>2. KeepsAll(P, Removed(P, L), Addresses \ {L[Len(L)]})
    BY <1>6, <2>1, RemovedKeeps
  <2> QED BY <2>1, <2>2 DEF KeepsAll
<1>8. In(S) = In(L) \ {z} /\ Len(S) = Last - 1
  BY <1>2, ShorterIs
<1> HIDE DEF Q, S
<1>9. \A d \in DesktopIds : Trees(mon, L, d) \subseteq Trees(Q, S, d)
  <2> SUFFICES ASSUME NEW d \in DesktopIds, NEW a \in In(L), NEW w \in mon[a].tree[d]
               PROVE  \E b \in In(S) : w \in Q[b].tree[d]
    BY DEF Trees
  <2>1. m \in In(S) /\ Q[m].tree[d] = mon[m].tree[d] \cup mon[z].tree[d]
    BY <1>1, <1>2, <1>5, <1>7, <1>8
  <2>2. CASE a \in {m, z}
    BY <2>1, <2>2
  <2>3. CASE a \notin {m, z}
    <3>1. a \in In(S) /\ Q[a].tree = mon[a].tree
      BY <1>1, <1>2, <1>3, <1>7, <1>8, <2>3
    <3> QED BY <3>1
  <2> QED BY <2>2, <2>3
<1>10. \A a \in In(S) : Q[a].desktops
  BY <1>1, <1>2, <1>3, <1>7, <1>8 DEF Ready
<1>11. Matching(S)
  BY <1>1, <1>8 DEF Matching
<1>12. "CONNECTED" \notin c /\ "DISCONNECTED" \in c /\ c # {}
  BY DEF Change
<1> HIDE DEF c
<1>13. Outcome(L, Q, c, S)
  BY <1>6, <1>8, <1>9, <1>10, <1>11, <1>12 DEF Outcome
<1> QED BY <1>13 DEF P, Q, S, c, B

\* update_monitors has one of these outcomes.
LEMMA UpdateIs ==
  ASSUME OneExternal, NEW L, Ready(L), mode \in [Outputs -> Modes], FixedOn,
         NEW order \in Orders, status \in [Outputs -> Statuses]
  PROVE  \E M, e, c, L2 :
           /\ update_monitors(order) = Found(M, head_monitor, e, c, Yes, Yes)
           /\ Outcome(L, M, c, L2)
<1>1. /\ Roster(mon, head_monitor, L) /\ Last > 1 /\ Len(L) \in {Last - 1, Last}
      /\ Last <= Cardinality(Addresses) /\ Cardinality(Dialogs) <= 1
      /\ prim_monitor \in In(L) /\ curr_monitor \in In(L)
      /\ \A a \in In(L) : mon[a].desktops
  BY DEF OneExternal, Ready
<1>2. /\ status[External] \in Statuses /\ Last \in Nat
      /\ Last - 1 \in 0 .. Len(L) /\ Len(L) \in Nat /\ Last \in Nat
  <2>1. External \in Outputs /\ Last - 1 \in 0 .. Len(L) /\ Len(L) \in Nat /\ Last \in Nat
    BY <1>1, BeforeLast, RosterIs
  <2> QED BY <2>1
<1>3. CASE status[External] = "UNPLUGGED" /\ Len(L) = Last
  <2>1. PICK m \in In(L) \ {L[Last]} :
           LET B == Looked(L)
               P == Merged(B, L[Last], m, VirtualDesktops, B[curr_monitor].rectangle)
           IN  /\ update_monitors(order) = Found(Removed(P, L), head_monitor, L[Last],
                                                 Change(L) \cup {"DISCONNECTED"}, Yes, Yes)
               /\ Roster(P, head_monitor, L)
               /\ Roster(Removed(P, L), head_monitor, Shorter(L))
    BY <1>1, <1>3, OneRemoved
  <2> DEFINE B == Looked(L)
             rect == B[curr_monitor].rectangle
             P == Merged(B, L[Last], m, VirtualDesktops, rect)
             Q == Removed(P, L)
             c == Change(L) \cup {"DISCONNECTED"}
  <2>2. rect \in Rectangles \cup {NULL}
    <3>1. B \in [Addresses -> MonitorRecords]
      BY <1>1, BeforeLast DEF Roster
    <3>2. curr_monitor \in Addresses
      BY <1>1, RosterIs
    <3> HIDE DEF B
    <3> QED BY <3>1, <3>2 DEF MonitorRecords
  <2> HIDE DEF rect
  <2>3. Roster(P, head_monitor, L) /\ Roster(Q, head_monitor, Shorter(L))
    BY <2>1 DEF rect
  <2>4. Outcome(L, Q, c, Shorter(L))
    BY <1>1, <1>3, <2>2, <2>3, RemovedOutcome
  <2>5. update_monitors(order) = Found(Q, head_monitor, L[Last], c, Yes, Yes)
    BY <2>1 DEF rect
  <2> HIDE DEF Q, c
  <2> QED BY <2>4, <2>5
<1>4. CASE status[External] = "ON" /\ Len(L) = Last - 1
  <2>1. PICK a \in Addresses \ In(L) :
           LET m == init_monitor(External, mode[External])
               P == Added(Looked(L), L, a, m)
           IN  /\ update_monitors(order)
                    = Found(P, head_monitor, NULL, Change(L) \cup {"CONNECTED"}, Yes, Yes)
               /\ Roster(P, head_monitor, Append(L, a))
               /\ m \in MonitorRecords
    BY <1>1, <1>4, OneAdded
  <2> DEFINE m == init_monitor(External, mode[External])
             P == Added(Looked(L), L, a, m)
             c == Change(L) \cup {"CONNECTED"}
  <2>2. m \in MonitorRecords /\ Roster(P, head_monitor, Append(L, a))
    BY <2>1
  <2> HIDE DEF m
  <2>3. Outcome(L, P, c, Append(L, a))
    BY <1>1, <1>4, <2>2, AddedOutcome
  <2>4. update_monitors(order) = Found(P, head_monitor, NULL, c, Yes, Yes)
    BY <2>1 DEF m
  <2> HIDE DEF P, c
  <2> QED BY <2>3, <2>4
<1>5. CASE status[External] = "ON" /\ Len(L) = Last
  <2> DEFINE M == Fitted(L, Last)
             c == IF Unfit(L, Last) THEN {"LAYOUT"} ELSE {}
  <2>1. update_monitors(order) = Found(M, head_monitor, NULL, c, Yes, Yes)
    BY <1>1, <1>5, AllFitted DEF Examined
  <2>2. Last \in 0 .. Len(L)
    BY <1>2, <1>5
  <2>3. Matching(L)
    BY <1>5 DEF Matching
  <2>4. Outcome(L, M, c, L)
    BY <2>2, <2>3, FittedOutcome
  <2> HIDE DEF M, c
  <2> QED BY <2>1, <2>4
<1>6. CASE \/ status[External] = "OFF"
           \/ status[External] = "UNPLUGGED" /\ Len(L) = Last - 1
  <2> DEFINE k == Last - 1
             M == Fitted(L, k)
             c == IF Unfit(L, k) THEN {"LAYOUT"} ELSE {}
  <2>1. update_monitors(order) = Found(M, head_monitor, NULL, c, Yes, Yes)
    <3>1. status[External] # "ON" /\ (status[External] = "UNPLUGGED" => Len(L) # Last)
      BY <1>2, <1>6
    <3> QED BY <1>1, <3>1, LeftAlone DEF Examined
  <2>2. k \in 0 .. Len(L)
    BY <1>2
  <2>3. Matching(L)
    BY <1>1, <1>6 DEF Matching
  <2> HIDE DEF k
  <2>4. Outcome(L, M, c, L)
    BY <2>2, <2>3, FittedOutcome
  <2> HIDE DEF M, c
  <2> QED BY <2>1, <2>4
<1> QED BY <1>1, <1>2, <1>3, <1>4, <1>5, <1>6 DEF Statuses
-----------------------------------------------------------------------------
(* What is done with it.                                                   *)

\* A list has as many monitors as it is long.
LEMMA CountIs ==
  ASSUME NEW M, NEW head, NEW L, Roster(M, head, L)
  PROVE  Cardinality(In(L)) = Len(L)
<1> DEFINE n == Len(L)
<1>1. /\ n \in Nat /\ L \in Seq(Addresses) /\ DOMAIN L = 1 .. n
      /\ \A i \in 1 .. n : L[i] \in In(L)
      /\ \A a \in In(L) : \E i \in 1 .. n : a = L[i]
      /\ \A i, j \in 1 .. n : L[i] = L[j] => i = j
  BY RosterIs
<1>2. L \in [1 .. n -> In(L)]
  <2>1. L \in [1 .. n -> Addresses]
    BY <1>1
  <2> HIDE DEF n
  <2> QED BY <1>1, <2>1
<1> HIDE DEF n
<1>3. L \in Injection(1 .. n, In(L)) /\ L \in Surjection(1 .. n, In(L))
  BY <1>1, <1>2 DEF Injection, IsInjective, Surjection
<1>4. ExistsBijection(1 .. n, In(L))
  BY <1>3 DEF ExistsBijection, Bijection
<1>5. IsFiniteSet(1 .. n)
  BY <1>1, FS_Interval
<1>6. Cardinality(1 .. n) = n
  BY <1>1, FS_Interval
<1>7. Cardinality(In(L)) = Cardinality(1 .. n)
  BY <1>4, <1>5, FS_Bijection
<1> QED BY <1>6, <1>7 DEF n

\* The records change, but not what links them.
LEMMA LinksKept ==
  ASSUME NEW M, NEW head, NEW L, Roster(M, head, L), NEW P \in [Addresses -> MonitorRecords],
         \A a \in Addresses : P[a].next = M[a].next /\ P[a].output = M[a].output,
         \A a \in Addresses \ In(L) : P[a] = M[a]
  PROVE  Roster(P, head, L)
<1>1. \A i \in 1 .. Len(L) : L[i] \in Addresses
  BY RosterIs
<1>2. Chained(P, L)
  BY <1>1 DEF Chained, Roster, Lists
<1> QED BY <1>1, <1>2 DEF Roster, Lists

\* setup_desktops finishes every monitor of the list, and changes nothing else.
SetUp(M, L, P) ==
  /\ \A a \in In(L) : P[a].desktops
  /\ \A a \in Addresses : P[a].tree = M[a].tree

\* setup_desktops keeps the list.
LEMMA SetupIs ==
  ASSUME NEW M, NEW head, NEW L, Roster(M, head, L)
  PROVE  /\ Roster(setup_desktops(M, In(L)), head, L)
         /\ SetUp(M, L, setup_desktops(M, In(L)))
<1> DEFINE P == setup_desktops(M, In(L))
           y == TRUE
<1>1. M \in [Addresses -> MonitorRecords] /\ \A a \in In(L) : a \in Addresses
  BY RosterIs DEF Roster
<1>2. y \in BOOLEAN /\ y
  OBVIOUS
<1>3. P = [a \in Addresses |-> IF a \in In(L) THEN [M[a] EXCEPT !.desktops = y] ELSE M[a]]
  BY DEF setup_desktops
<1> HIDE DEF y, P
<1>4. ASSUME NEW a \in Addresses
      PROVE  /\ P[a] \in MonitorRecords /\ P[a].next = M[a].next /\ P[a].output = M[a].output
             /\ P[a].tree = M[a].tree
             /\ a \in In(L) => P[a].desktops = y
             /\ a \notin In(L) => P[a] = M[a]
  <2>1. M[a] \in MonitorRecords
    BY <1>1
  <2>2. CASE a \in In(L)
    <3>1. P[a] = [M[a] EXCEPT !.desktops = y]
      BY <1>3, <2>2
    <3> QED BY <1>2, <2>1, <2>2, <3>1 DEF MonitorRecords
  <2>3. CASE a \notin In(L)
    BY <1>3, <2>1, <2>3
  <2> QED BY <2>2, <2>3
<1>5. P \in [Addresses -> MonitorRecords]
  BY <1>3, <1>4
<1>6. Roster(P, head, L)
  BY <1>4, <1>5, LinksKept
<1>7. \A a \in In(L) : P[a].desktops
  BY <1>1, <1>2, <1>4
<1>8. SetUp(M, L, P)
  BY <1>4, <1>7 DEF SetUp
<1> QED BY <1>6, <1>8 DEF P

\* arrange_trees fits every tree to its monitor, and changes nothing else.
Arranged(M, L, P) ==
  /\ \A a \in Addresses : P[a].tree = M[a].tree /\ P[a].desktops = M[a].desktops
  /\ \A a \in In(L) : \A d \in DesktopIds :
       P[a].tree[d] # {} => P[a].area[d] = P[a].rectangle

\* arrange_trees keeps the list.
LEMMA ArrangedIs ==
  ASSUME NEW M, NEW head, NEW L, Roster(M, head, L)
  PROVE  /\ Roster(arrange_trees(M, In(L)), head, L)
         /\ Arranged(M, L, arrange_trees(M, In(L)))
<1> DEFINE P == arrange_trees(M, In(L))
           e(a) == [d \in DesktopIds |-> IF M[a].tree[d] = {} THEN M[a].area[d]
                                         ELSE M[a].rectangle]
<1>1. M \in [Addresses -> MonitorRecords] /\ \A a \in In(L) : a \in Addresses
  BY RosterIs DEF Roster
<1>2. P = [a \in Addresses |-> IF a \in In(L) THEN [M[a] EXCEPT !.area = e(a)] ELSE M[a]]
  BY DEF arrange_trees
<1>3. ASSUME NEW a \in Addresses PROVE e(a) \in [DesktopIds -> Rectangles \cup {NULL}]
  BY <1>1 DEF MonitorRecords
<1>4. ASSUME NEW a \in Addresses, NEW d \in DesktopIds, M[a].tree[d] # {}
      PROVE  e(a)[d] = M[a].rectangle
  BY <1>4
<1> HIDE DEF e, P
<1>5. ASSUME NEW a \in Addresses
      PROVE  /\ P[a] \in MonitorRecords /\ P[a].next = M[a].next /\ P[a].output = M[a].output
             /\ P[a].tree = M[a].tree /\ P[a].desktops = M[a].desktops
             /\ P[a].rectangle = M[a].rectangle
             /\ a \in In(L) => P[a].area = e(a)
             /\ a \notin In(L) => P[a] = M[a]
  <2>1. M[a] \in MonitorRecords
    BY <1>1
  <2>2. CASE a \in In(L)
    <3>1. P[a] = [M[a] EXCEPT !.area = e(a)] /\ e(a) \in [DesktopIds -> Rectangles \cup {NULL}]
      BY <1>2, <1>3, <2>2
    <3> QED BY <2>1, <2>2, <3>1 DEF MonitorRecords
  <2>3. CASE a \notin In(L)
    BY <1>2, <2>1, <2>3
  <2> QED BY <2>2, <2>3
<1>6. P \in [Addresses -> MonitorRecords]
  BY <1>2, <1>5
<1>7. Roster(P, head, L)
  BY <1>5, <1>6, LinksKept
<1>8. \A a \in In(L) : \A d \in DesktopIds : P[a].tree[d] # {} => P[a].area[d] = P[a].rectangle
  BY <1>1, <1>4, <1>5
<1>9. Arranged(M, L, P)
  BY <1>5, <1>8 DEF Arranged
<1> QED BY <1>7, <1>9 DEF P

-----------------------------------------------------------------------------
(* The invariant.                                                          *)

Inv ==
  /\ TypeOK /\ running /\ FixedOn
  /\ \E L : /\ Ready(L)
            /\ multi_monitors = (Len(L) > 1)
            /\ ~pending => Matching(L)

\* What handling a change does to trees that were there.
Refits ==
  LET only_less == Listed' \subseteq Listed
      changed   == Listed' # Listed \/ \E a \in Listed : mon'[a].rectangle # mon[a].rectangle
  IN  pending /\ ~pending' /\ running' /\ only_less /\ changed =>
        \A a \in Listed' : \A d \in DesktopIds :
          mon'[a].tree[d] # {} => mon'[a].area[d] = mon'[a].rectangle

\* The windows of a ready list are those of all monitors.
LEMMA ReadyIs ==
  ASSUME NEW L, Ready(L)
  PROVE  Listed = In(L) /\ \A d : On(d) = Trees(mon, L, d)
<1>1. Chain(mon, head_monitor) = L
  BY RosterIs DEF Ready
<1> QED BY <1>1 DEF Listed, On, Trees

\* handle_monitor_changes.
LEMMA HandledIs ==
  ASSUME OneExternal, Inv, NEW order \in Orders, handle_monitor_changes(order)
  PROVE  Inv' /\ Refits /\ \A d \in DesktopIds : On(d) \subseteq On(d)'
<1>1. /\ status \in [Outputs -> Statuses] /\ mode \in [Outputs -> Modes]
      /\ mapped \subseteq Windows /\ FixedOn
  BY DEF Inv, TypeOK
<1>2. PICK L : Ready(L) /\ multi_monitors = (Len(L) > 1)
  BY DEF Inv
<1>3. PICK M, e, c, L2 : /\ update_monitors(order) = Found(M, head_monitor, e, c, Yes, Yes)
                         /\ Outcome(L, M, c, L2)
  BY <1>1, <1>2, UpdateIs
<1> DEFINE s == update_monitors(order)
           render == "CONNECTED" \notin c /\ c # {}
           moved  == "CONNECTED" \notin c /\ "DISCONNECTED" \in c
<1>4. s.mon = M /\ s.head = head_monitor /\ s.changes = c /\ s.running = Yes
  BY <1>3, FoundIs
<1>5. /\ Roster(M, head_monitor, L2) /\ Matching(L2)
      /\ \A d \in DesktopIds : Trees(mon, L, d) \subseteq Trees(M, L2, d)
      /\ "CONNECTED" \in c => In(L) \subseteq In(L2) /\ ~(In(L2) \subseteq In(L))
      /\ "CONNECTED" \notin c => In(L2) \subseteq In(L) /\ \A a \in In(L2) : M[a].desktops
      /\ "CONNECTED" \notin c /\ "DISCONNECTED" \notin c => L2 = L
      /\ c = {} => M = mon
  BY <1>3 DEF Outcome
<1>6. Chain(M, head_monitor) = L2
  BY <1>5, RosterIs
<1> HIDE DEF s
<1>7. /\ pending' = FALSE /\ running' = Yes
      /\ head_monitor' = head_monitor
      /\ prim_monitor' = IF moved THEN head_monitor ELSE prim_monitor
      /\ curr_monitor' = IF moved THEN head_monitor ELSE curr_monitor
      /\ mon' = IF "CONNECTED" \in c THEN setup_desktops(M, In(L2))
                ELSE IF render THEN arrange_trees(M, In(L2))
                ELSE M
      /\ mapped' = IF render THEN mapped \cup render_trees(M, In(L2)) ELSE mapped
      /\ multi_monitors' = IF c = {} THEN multi_monitors ELSE Cardinality(In(L2)) > 1
      /\ status' = status /\ mode' = mode
  BY <1>4, <1>6 DEF handle_monitor_changes, s
<1>8. /\ Roster(mon', head_monitor', L2)
      /\ \A a \in In(L2) : mon'[a].desktops /\ mon'[a].tree = M[a].tree
  <2>1. \A a \in In(L2) : a \in Addresses
    BY <1>5, RosterIs
  <2>2. CASE "CONNECTED" \in c
    <3>1. mon' = setup_desktops(M, In(L2))
      BY <1>7, <2>2
    <3>2. /\ Roster(setup_desktops(M, In(L2)), head_monitor, L2)
          /\ SetUp(M, L2, setup_desktops(M, In(L2)))
      <4>1. Roster(M, head_monitor, L2)
        BY <1>5
      <4> QED BY <4>1, SetupIs
    <3> QED BY <1>7, <2>1, <3>1, <3>2 DEF SetUp
  <2>3. CASE "CONNECTED" \notin c /\ c # {}
    <3>1. mon' = arrange_trees(M, In(L2))
      BY <1>7, <2>3
    <3>2. /\ Roster(arrange_trees(M, In(L2)), head_monitor, L2)
          /\ Arranged(M, L2, arrange_trees(M, In(L2)))
      <4>1. Roster(M, head_monitor, L2)
        BY <1>5
      <4> QED BY <4>1, ArrangedIs
    <3> QED BY <1>5, <1>7, <2>1, <2>3, <3>1, <3>2 DEF Arranged
  <2>4. CASE c = {}
    <3>1. mon' = M /\ "CONNECTED" \notin c
      BY <1>7, <2>4
    <3> QED BY <1>5, <1>7, <3>1
  <2> QED BY <2>2, <2>3, <2>4
<1>9. /\ \A a \in In(L2) : a \in Addresses
      /\ head_monitor \in In(L2) /\ Len(L2) \in {Last - 1, Last}
  <2>1. Last > 1 /\ Last \in Nat
    BY OrderIs DEF OneExternal
  <2>2. Len(L2) \in {Last - 1, Last}
    BY <1>5 DEF Matching
  <2>3. 1 \in 1 .. Len(L2) /\ L2 # <<>>
    <3>1. L2 \in Seq(Addresses) /\ Len(L2) \in Nat
      BY <1>5, RosterIs
    <3>2. Len(L2) # 0
      BY <2>1, <2>2
    <3> QED BY <3>1, <3>2
  <2>4. head_monitor = L2[1]
    BY <1>5, <2>3 DEF Roster, Lists
  <2>5. \A i \in 1 .. Len(L2) : L2[i] \in In(L2) /\ L2[i] \in Addresses
    BY <1>5, RosterIs
  <2> QED BY <1>5, <2>2, <2>3, <2>4, <2>5, RosterIs
<1>10. prim_monitor' \in In(L2) /\ curr_monitor' \in In(L2)
  <2>1. prim_monitor \in In(L) /\ curr_monitor \in In(L)
    BY <1>2 DEF Ready
  <2>2. CASE moved
    BY <1>7, <1>9, <2>2
  <2>3. CASE ~moved
    BY <1>5, <1>7, <2>1, <2>3
  <2> QED BY <2>2, <2>3
<1>11. Ready(L2)'
  BY <1>8, <1>9, <1>10 DEF Ready
<1>12. Matching(L2)'
  BY <1>5, <1>7 DEF Matching
<1>13. multi_monitors' = (Len(L2) > 1)
  <2>1. CASE c = {}
    <3>1. L2 = L
      BY <1>5, <2>1
    <3> QED BY <1>2, <1>7, <2>1, <3>1
  <2>2. CASE c # {}
    BY <1>5, <1>7, <2>2, CountIs
  <2> QED BY <2>1, <2>2
<1>14. TypeOK'
  <2>1. mapped' \subseteq Windows
    <3>1. M \in [Addresses -> MonitorRecords]
      BY <1>5 DEF Roster
    <3>2. render_trees(M, In(L2)) \subseteq Windows
      BY <1>9, <3>1 DEF render_trees, MonitorRecords
    <3> QED BY <1>1, <1>7, <3>2
  <2>2. mon' \in [Addresses -> MonitorRecords]
    BY <1>8 DEF Roster
  <2>3. multi_monitors' \in BOOLEAN
    BY <1>13
  <2>4. running' \in BOOLEAN
    BY <1>7 DEF Yes
  <2> QED BY <1>1, <1>7, <1>9, <1>10, <2>1, <2>2, <2>3, <2>4 DEF TypeOK
<1>15. Inv'
  <2>1. running'
    BY <1>7 DEF Yes
  <2>2. FixedOn'
    BY <1>1, <1>7 DEF FixedOn
  <2> QED BY <1>11, <1>12, <1>13, <1>14, <2>1, <2>2 DEF Inv
<1>16. Listed = In(L) /\ \A d \in DesktopIds : On(d) = Trees(mon, L, d)
  BY <1>2, ReadyIs
<1>17. Listed' = In(L2) /\ \A d \in DesktopIds : On(d)' = Trees(mon', L2, d)
  <2>1. Chain(mon', head_monitor') = L2
    BY <1>8, RosterIs
  <2> QED BY <2>1 DEF Listed, On, Trees
<1>18. \A d \in DesktopIds : Trees(mon', L2, d) = Trees(M, L2, d)
  BY <1>8 DEF Trees
<1>19. Refits
  <2> SUFFICES ASSUME Listed' \subseteq Listed,
                      Listed' # Listed \/ \E a \in Listed : mon'[a].rectangle # mon[a].rectangle
               PROVE  \A a \in Listed' : \A d \in DesktopIds :
                        mon'[a].tree[d] # {} => mon'[a].area[d] = mon'[a].rectangle
    BY DEF Refits
  <2>1. "CONNECTED" \notin c
    BY <1>5, <1>16, <1>17
  <2>2. c # {}
    <3> SUFFICES ASSUME c = {} PROVE FALSE
      OBVIOUS
    <3>1. mon' = mon /\ L2 = L
      BY <1>5, <1>7
    <3> QED BY <1>16, <1>17, <3>1
  <2>3. mon' = arrange_trees(M, In(L2))
    BY <1>7, <2>1, <2>2
  <2>4. Arranged(M, L2, arrange_trees(M, In(L2)))
    <3>1. Roster(M, head_monitor, L2)
      BY <1>5
    <3> QED BY <3>1, ArrangedIs
  <2> QED BY <1>17, <2>3, <2>4 DEF Arranged
<1> QED BY <1>5, <1>15, <1>16, <1>17, <1>18, <1>19
-----------------------------------------------------------------------------
(* The other handlers.                                                     *)

\* Desktop d of monitor R is given tree t, count n and area e.
Filed(R, d, t, n, e) ==
  [R EXCEPT !.tree[d] = t, !.n_count[d] = n, !.area[d] = e]

\* The fields of a monitor one of whose desktops is filed anew.
LEMMA FiledIs ==
  ASSUME NEW R \in MonitorRecords, NEW d \in DesktopIds, NEW t \in SUBSET Windows,
         NEW n \in 0 .. UINT16 - 1, NEW e \in Rectangles \cup {NULL}
  PROVE  /\ Filed(R, d, t, n, e) \in MonitorRecords
         /\ Filed(R, d, t, n, e).next = R.next /\ Filed(R, d, t, n, e).output = R.output
         /\ Filed(R, d, t, n, e).desktops = R.desktops
         /\ Filed(R, d, t, n, e).tree = [R.tree EXCEPT ![d] = t]
<1> DEFINE T == [R.tree EXCEPT ![d] = t]
           C == [R.n_count EXCEPT ![d] = n]
           E == [R.area EXCEPT ![d] = e]
           R1 == [R EXCEPT !.tree = T]
           R2 == [R1 EXCEPT !.n_count = C]
           R3 == [R2 EXCEPT !.area = E]
<1>1. T \in [DesktopIds -> SUBSET Windows]
  BY DEF MonitorRecords
<1>2. C \in [DesktopIds -> 0 .. UINT16 - 1]
  <2> DEFINE N == 0 .. UINT16 - 1
  <2>1. R.n_count \in [DesktopIds -> N] /\ n \in N
    BY DEF MonitorRecords
  <2> HIDE DEF N
  <2>2. C \in [DesktopIds -> N]
    BY <2>1
  <2> QED BY <2>2 DEF N
<1>3. E \in [DesktopIds -> Rectangles \cup {NULL}]
  BY DEF MonitorRecords
<1>4. Filed(R, d, t, n, e) = R3
  <2>1. Filed(R, d, t, n, e) = [R EXCEPT !.tree = T, !.n_count = C, !.area = E]
    BY DEF Filed, MonitorRecords
  <2> HIDE DEF T, C, E
  <2> QED BY <2>1 DEF MonitorRecords
<1> HIDE DEF T, C, E, R1, R2, R3
<1>5. /\ R1 \in MonitorRecords /\ R1.next = R.next /\ R1.output = R.output
      /\ R1.desktops = R.desktops /\ R1.tree = T
  BY <1>1 DEF R1, MonitorRecords
<1>6. /\ R2 \in MonitorRecords /\ R2.next = R1.next /\ R2.output = R1.output
      /\ R2.desktops = R1.desktops /\ R2.tree = R1.tree
  BY <1>2, <1>5 DEF R2, MonitorRecords
<1>7. /\ R3 \in MonitorRecords /\ R3.next = R2.next /\ R3.output = R2.output
      /\ R3.desktops = R2.desktops /\ R3.tree = R2.tree
  BY <1>3, <1>6 DEF R3, MonitorRecords
<1> QED BY <1>4, <1>5, <1>6, <1>7 DEF T

\* The record of one monitor of the list is replaced.
LEMMA ReplacedIs ==
  ASSUME NEW M, NEW head, NEW L, Roster(M, head, L), NEW a \in In(L), NEW R \in MonitorRecords,
         R.next = M[a].next, R.output = M[a].output
  PROVE  Roster([M EXCEPT ![a] = R], head, L)
<1> DEFINE P == [M EXCEPT ![a] = R]
<1>1. M \in [Addresses -> MonitorRecords] /\ a \in Addresses
  BY RosterIs DEF Roster
<1>2. /\ P \in [Addresses -> MonitorRecords]
      /\ \A b \in Addresses : P[b] = IF b = a THEN R ELSE M[b]
  BY <1>1
<1> HIDE DEF P
<1>3. Roster(P, head, L)
  BY <1>2, LinksKept
<1> QED BY <1>3 DEF P

\* The first element of a list that is in a set is an element of both.
LEMMA FirstIs ==
  ASSUME NEW L \in Seq(Addresses), NEW S
  PROVE  FirstOf(L, S) = NULL \/ FirstOf(L, S) \in In(L) \cap S
<1> DEFINE found == {i \in DOMAIN L : L[i] \in S}
<1>1. DOMAIN L = 1 .. Len(L) /\ Len(L) \in Nat
  OBVIOUS
<1>2. CASE found = {}
  BY <1>2 DEF FirstOf
<1>3. CASE found # {}
  <2>1. found \subseteq Nat
    BY <1>1
  <2>2. PICK k \in found : \A j \in found : ~(j < k)
    <3> HIDE DEF found
    <3> QED BY <1>3, <2>1, LeastIn
  <2>3. \A j \in found : k <= j
    BY <2>1, <2>2
  <2> DEFINE p == CHOOSE i \in found : \A j \in found : i <= j
  <2>4. p \in found
    <3> HIDE DEF found
    <3> QED BY <2>2, <2>3
  <2>5. FirstOf(L, S) = L[p]
    BY <1>3 DEF FirstOf
  <2> HIDE DEF p
  <2> QED BY <1>1, <2>4, <2>5 DEF In
<1> QED BY <1>2, <1>3

\* What the invariant says of the current monitor.
LEMMA CurrentIs ==
  ASSUME NEW L, Ready(L)
  PROVE  /\ Monitor(mon, curr_monitor) = mon[curr_monitor] /\ curr_monitor \in In(L)
         /\ curr_monitor \in Addresses /\ mon[curr_monitor] \in MonitorRecords
         /\ mon[curr_monitor].desktops /\ mon[curr_monitor].desktops \in BOOLEAN
         /\ mon[curr_monitor].desk \in DesktopIds
         /\ mon \in [Addresses -> MonitorRecords]
<1>1. /\ curr_monitor \in Addresses /\ curr_monitor # NULL
      /\ mon \in [Addresses -> MonitorRecords] /\ mon[curr_monitor].desktops
      /\ curr_monitor \in In(L)
  BY RosterIs DEF Ready, Roster
<1> QED BY <1>1 DEF Monitor, MonitorRecords

\* A handler that keeps the list keeps the invariant.
LEMMA InvKept ==
  ASSUME Inv, NEW L, Ready(L), multi_monitors = (Len(L) > 1), ~pending => Matching(L),
         UNCHANGED <<hardware, head_monitor, prim_monitor, multi_monitors>>,
         Roster(mon', head_monitor, L), curr_monitor' \in In(L),
         \A a \in In(L) : mon'[a].desktops, mapped' \subseteq Windows,
         running' \in BOOLEAN, running'
  PROVE  Inv' /\ Listed' = In(L) /\ \A d : On(d)' = Trees(mon', L, d)
<1>1. /\ status' = status /\ mode' = mode /\ pending' = pending
      /\ head_monitor' = head_monitor /\ prim_monitor' = prim_monitor
      /\ multi_monitors' = multi_monitors
  BY DEF hardware
<1>2. Ready(L)' /\ (Matching(L) => Matching(L)') /\ FixedOn'
  BY <1>1 DEF Ready, Matching, FixedOn, Inv
<1>3. Chain(mon', head_monitor') = L
  BY <1>1, RosterIs
<1>4. mon' \in [Addresses -> MonitorRecords] /\ curr_monitor' \in Addresses
  BY RosterIs DEF Roster
<1>5. TypeOK'
  BY <1>1, <1>4 DEF Inv, TypeOK
<1>6. Inv'
  BY <1>1, <1>2, <1>5 DEF Inv
<1>7. Listed' = In(L) /\ \A d : On(d)' = Trees(mon', L, d)
  BY <1>3 DEF Listed, On, Trees
<1> QED BY <1>6, <1>7


\* screen_change.
LEMMA ScreenIs ==
  ASSUME OneExternal, Inv, NEW o \in Outputs, NEW st \in Statuses, NEW m \in Modes,
         screen_change(o, st, m)
  PROVE  Inv' /\ \A d : On(d)' = On(d)
<1>1. /\ status' = [status EXCEPT ![o] = st] /\ mode' = [mode EXCEPT ![o] = m]
      /\ pending' = TRUE /\ mon' = mon /\ head_monitor' = head_monitor
      /\ prim_monitor' = prim_monitor /\ curr_monitor' = curr_monitor
      /\ multi_monitors' = multi_monitors /\ mapped' = mapped /\ running' = running
      /\ o \in Hotplug \/ st = "ON"
  BY DEF screen_change, pointers
<1>2. TypeOK /\ FixedOn /\ running
  BY DEF Inv
<1>3. TypeOK'
  BY <1>1, <1>2 DEF TypeOK
<1>4. FixedOn'
  <2> SUFFICES ASSUME NEW i \in 1 .. Last - 1 PROVE status'[OutputOrder[i]] = "ON"
    BY DEF FixedOn
  <2>1. i \in 1 .. Last /\ Last \in 1 .. Last /\ i # Last /\ OutputOrder[i] \in Outputs
    BY OrderIs
  <2>2. OutputOrder[i] \notin Hotplug
    BY <2>1, OrderIs DEF OneExternal
  <2>3. status[OutputOrder[i]] = "ON" /\ status \in [Outputs -> Statuses]
    BY <1>2 DEF FixedOn, TypeOK
  <2> QED BY <1>1, <2>1, <2>2, <2>3
<1>5. PICK L : Ready(L) /\ multi_monitors = (Len(L) > 1)
  BY DEF Inv
<1>6. Ready(L)'
  BY <1>1, <1>5 DEF Ready
<1>7. Inv'
  BY <1>1, <1>2, <1>3, <1>4, <1>5, <1>6 DEF Inv
<1>8. \A d : On(d)' = On(d)
  BY <1>1 DEF On, Listed
<1> QED BY <1>7, <1>8

\* enter_monitor.
LEMMA EnterIs ==
  ASSUME Inv, NEW a \in Addresses, enter_monitor(a)
  PROVE  Inv' /\ \A d \in DesktopIds : On(d) \subseteq On(d)'
<1>1. PICK L : Ready(L) /\ multi_monitors = (Len(L) > 1) /\ (~pending => Matching(L))
  BY DEF Inv
<1>2. Listed = In(L) /\ \A d : On(d) = Trees(mon, L, d)
  BY <1>1, ReadyIs
<1>3. /\ curr_monitor' = a /\ a \in In(L) /\ mon' = mon /\ mapped' = mapped
      /\ running' = running
      /\ UNCHANGED <<hardware, head_monitor, prim_monitor, multi_monitors>>
  BY <1>2 DEF enter_monitor
<1>4. running \in BOOLEAN /\ running /\ mapped \subseteq Windows
  BY DEF Inv, TypeOK
<1>5. Roster(mon', head_monitor, L) /\ \A b \in In(L) : mon'[b].desktops
  BY <1>1, <1>3 DEF Ready
<1>6. Inv' /\ \A d : On(d)' = Trees(mon', L, d)
  BY <1>1, <1>3, <1>4, <1>5, InvKept
<1> QED BY <1>2, <1>3, <1>6

\* switch_desktop.
LEMMA SwitchIs ==
  ASSUME Inv, NEW d \in DesktopIds, switch_desktop(d)
  PROVE  Inv' /\ \A i \in DesktopIds : On(i) \subseteq On(i)'
<1>1. PICK L : Ready(L) /\ multi_monitors = (Len(L) > 1) /\ (~pending => Matching(L))
  BY DEF Inv
<1>2. Listed = In(L) /\ \A i : On(i) = Trees(mon, L, i)
  BY <1>1, ReadyIs
<1> DEFINE c == curr_monitor
           R == [mon[c] EXCEPT !.desk = d]
<1>3. /\ Monitor(mon, c) = mon[c] /\ c \in In(L) /\ c \in Addresses
      /\ mon[c] \in MonitorRecords /\ mon[c].desktops /\ mon[c].desktops \in BOOLEAN
      /\ mon[c].desk \in DesktopIds /\ mon \in [Addresses -> MonitorRecords]
  BY <1>1, CurrentIs
<1>4. /\ mon' = [mon EXCEPT ![c].desk = d] /\ curr_monitor' = c
      /\ mapped' = (mapped \ mon[c].tree[mon[c].desk]) \cup mon[c].tree[d]
      /\ running' = mon[c].desktops
      /\ UNCHANGED <<hardware, head_monitor, prim_monitor, multi_monitors>>
  BY <1>3 DEF switch_desktop, pointers
<1>5. /\ R \in MonitorRecords /\ R.next = mon[c].next /\ R.output = mon[c].output
      /\ R.desktops = mon[c].desktops /\ R.tree = mon[c].tree
  BY <1>3 DEF MonitorRecords
<1>6. mon' = [mon EXCEPT ![c] = R]
  BY <1>3, <1>4
<1> HIDE DEF R
<1>7. Roster(mon', head_monitor, L)
  <2>1. Roster([mon EXCEPT ![c] = R], head_monitor, L)
    BY <1>1, <1>3, <1>5, ReplacedIs DEF Ready
  <2> QED BY <1>6, <2>1
<1>8. \A b \in Addresses : mon'[b].desktops = mon[b].desktops /\ mon'[b].tree = mon[b].tree
  BY <1>3, <1>5, <1>6
<1>9. \A b \in In(L) : mon'[b].desktops /\ mon'[b].tree = mon[b].tree
  BY <1>1, <1>8, RosterIs DEF Ready
<1>10. mapped' \subseteq Windows
  <2>1. mapped \subseteq Windows /\ mon[c].tree[d] \subseteq Windows
    BY <1>3 DEF Inv, TypeOK, MonitorRecords
  <2> QED BY <1>4, <2>1
<1>11. running' \in BOOLEAN /\ running' /\ curr_monitor' \in In(L)
  BY <1>3, <1>4
<1>12. Inv' /\ \A i : On(i)' = Trees(mon', L, i)
  BY <1>1, <1>4, <1>7, <1>9, <1>10, <1>11, InvKept
<1>13. \A i : Trees(mon', L, i) = Trees(mon, L, i)
  BY <1>9 DEF Trees
<1> QED BY <1>2, <1>12, <1>13
\* A count wraps around.
LEMMA WrapIs ==
  ASSUME NEW x \in Nat
  PROVE  x % UINT16 \in 0 .. UINT16 - 1
BY DEF UINT16

\* One desktop of a monitor of the list is filed anew.
FiledTrees(M, P, L, a, d, t) ==
  /\ \A b \in In(L) : P[b].desktops = M[b].desktops
  /\ \A b \in In(L) : P[b].tree = IF b = a THEN [M[a].tree EXCEPT ![d] = t] ELSE M[b].tree

\* Filing a desktop anew keeps the list.
LEMMA FiledKept ==
  ASSUME NEW M, NEW head, NEW L, Roster(M, head, L), NEW a \in In(L), NEW d \in DesktopIds,
         NEW t \in SUBSET Windows, NEW n \in 0 .. UINT16 - 1, NEW e \in Rectangles \cup {NULL},
         NEW P, P = [M EXCEPT ![a] = Filed(M[a], d, t, n, e)]
  PROVE  Roster(P, head, L) /\ FiledTrees(M, P, L, a, d, t)
<1> DEFINE R == Filed(M[a], d, t, n, e)
<1>1. /\ M \in [Addresses -> MonitorRecords] /\ a \in Addresses
      /\ \A b \in In(L) : b \in Addresses
  BY RosterIs DEF Roster
<1>2. M[a] \in MonitorRecords
  BY <1>1
<1>3. /\ R \in MonitorRecords /\ R.next = M[a].next /\ R.output = M[a].output
      /\ R.desktops = M[a].desktops /\ R.tree = [M[a].tree EXCEPT ![d] = t]
  BY <1>2, FiledIs
<1> HIDE DEF R
<1>4. P = [M EXCEPT ![a] = R]
  BY DEF R
<1>5. Roster([M EXCEPT ![a] = R], head, L)
  BY <1>3, ReplacedIs
<1>6. \A b \in In(L) : P[b] = IF b = a THEN R ELSE M[b]
  BY <1>1, <1>4
<1>7. FiledTrees(M, P, L, a, d, t)
  BY <1>3, <1>6 DEF FiledTrees
<1> QED BY <1>4, <1>5, <1>7

\* handle_map_request.
LEMMA MapIs ==
  ASSUME Inv, NEW w \in Windows, handle_map_request(w)
  PROVE  Inv' /\ \A i \in DesktopIds : On(i) \subseteq On(i)'
<1>1. PICK L : Ready(L) /\ multi_monitors = (Len(L) > 1) /\ (~pending => Matching(L))
  BY DEF Inv
<1>2. Listed = In(L) /\ \A i : On(i) = Trees(mon, L, i)
  BY <1>1, ReadyIs
<1> DEFINE c == curr_monitor
           m == mon[c]
           d == m.desk
           t == m.tree[d] \cup {w}
           n == (m.n_count[d] + 1) % UINT16
           e == IF m.tree[d] = {} THEN m.rectangle ELSE m.area[d]
<1>3. /\ Monitor(mon, c) = m /\ c \in In(L) /\ c \in Addresses
      /\ m \in MonitorRecords /\ m.desktops /\ m.desktops \in BOOLEAN
      /\ d \in DesktopIds /\ mon \in [Addresses -> MonitorRecords]
  BY <1>1, CurrentIs
<1>4. /\ m.tree[d] \in SUBSET Windows /\ m.n_count[d] \in 0 .. UINT16 - 1
      /\ m.area[d] \in Rectangles \cup {NULL} /\ m.rectangle \in Rectangles \cup {NULL}
  <2> HIDE DEF m, d
  <2> QED BY <1>3 DEF MonitorRecords
<1>5. t \in SUBSET Windows /\ e \in Rectangles \cup {NULL}
  <2> HIDE DEF m, d
  <2> QED BY <1>4
<1>6. n \in 0 .. UINT16 - 1
  <2>1. m.n_count[d] + 1 \in Nat
    <3> DEFINE x == m.n_count[d]
    <3>1. x \in 0 .. UINT16 - 1
      BY <1>4
    <3> HIDE DEF x
    <3>2. x + 1 \in Nat
      BY <3>1 DEF UINT16
    <3> QED BY <3>2 DEF x
  <2> HIDE DEF m, d
  <2> QED BY <2>1, WrapIs
<1>7. /\ mon' = [mon EXCEPT ![c].tree[d] = @ \cup {w},
                            ![c].n_count[d] = (@ + 1) % UINT16,
                            ![c].area[d] = IF m.tree[d] = {} THEN m.rectangle ELSE @]
      /\ mapped' = mapped \cup m.tree[d] \cup {w}
      /\ running' = m.desktops
      /\ UNCHANGED <<hardware, head_monitor, prim_monitor, curr_monitor, multi_monitors>>
  <2> HIDE DEF m
  <2> QED BY <1>3 DEF handle_map_request, pointers
<1> HIDE DEF d, n
<1>8. mon' = [mon EXCEPT ![c] = Filed(m, d, t, n, e)]
  <2>1. mon' = [mon EXCEPT ![c] = [mon[c] EXCEPT !.tree[d] = @ \cup {w},
                                                 !.n_count[d] = (@ + 1) % UINT16,
                                                 !.area[d] = IF m.tree[d] = {} THEN m.rectangle ELSE @]]
    BY <1>3, <1>7
  <2>2. [m EXCEPT !.tree[d] = @ \cup {w}, !.n_count[d] = (@ + 1) % UINT16,
                  !.area[d] = IF m.tree[d] = {} THEN m.rectangle ELSE @]
          = Filed(m, d, t, n, e)
    <3> HIDE DEF m
    <3> QED BY <1>3 DEF Filed, MonitorRecords, n
  <2> QED BY <2>1, <2>2
<1> HIDE DEF m, t, e
<1>9. /\ Roster(mon', head_monitor, L)
      /\ \A b \in In(L) : mon'[b].desktops
      /\ \A b \in In(L) : mon'[b].tree = IF b = c THEN [mon[c].tree EXCEPT ![d] = t]
                                         ELSE mon[b].tree
  <2> DEFINE P == mon'
  <2>1. P = [mon EXCEPT ![c] = Filed(mon[c], d, t, n, e)]
    BY <1>8 DEF m
  <2>2. Roster(mon, head_monitor, L) /\ \A b \in In(L) : mon[b].desktops
    BY <1>1 DEF Ready
  <2> HIDE DEF P, c
  <2>3. Roster(P, head_monitor, L) /\ FiledTrees(mon, P, L, c, d, t)
    BY <1>3, <1>5, <1>6, <2>1, <2>2, FiledKept
  <2> QED BY <2>2, <2>3 DEF FiledTrees, P
<1>10. mapped' \subseteq Windows
  BY <1>4, <1>7 DEF Inv, TypeOK
<1>11. running' \in BOOLEAN /\ running' /\ curr_monitor' \in In(L)
  BY <1>3, <1>7
<1>12. Inv' /\ \A i : On(i)' = Trees(mon', L, i)
  BY <1>1, <1>7, <1>9, <1>10, <1>11, InvKept
<1>13. ASSUME NEW i \in DesktopIds, NEW b \in In(L) PROVE mon[b].tree[i] \subseteq mon'[b].tree[i]
  <2>1. m.tree \in [DesktopIds -> SUBSET Windows]
    BY <1>3 DEF MonitorRecords
  <2>2. m.tree[d] \subseteq t
    BY DEF t
  <2> QED BY <1>9, <2>1, <2>2 DEF m
<1>14. \A i \in DesktopIds : Trees(mon, L, i) \subseteq Trees(mon', L, i)
  BY <1>13 DEF Trees
<1> QED BY <1>2, <1>12, <1>14

\* kill_window: nothing but the window is lost.
LEMMA KillIs ==
  ASSUME Inv, NEW w \in Windows, kill_window(w)
  PROVE  Inv' /\ \A i \in DesktopIds : On(i) \subseteq On(i)' \cup {w}
<1>1. PICK L : Ready(L) /\ multi_monitors = (Len(L) > 1) /\ (~pending => Matching(L))
  BY DEF Inv
<1>2. /\ Listed = In(L) /\ \A i : On(i) = Trees(mon, L, i)
      /\ Chain(mon, head_monitor) = L /\ L \in Seq(Addresses)
      /\ \A b \in In(L) : b \in Addresses /\ b # NULL
  <2>1. /\ Chain(mon, head_monitor) = L /\ L \in Seq(Addresses)
        /\ \A b \in In(L) : b \in Addresses /\ b # NULL
    BY <1>1, RosterIs DEF Ready
  <2> QED BY <1>1, <2>1, ReadyIs
<1> DEFINE c == curr_monitor
           m == Monitor(mon, c)
           here == w \in m.tree[m.desk]
           has == {a \in Addresses : \E i \in DesktopIds : w \in mon[a].tree[i]}
           first == FirstOf(Chain(mon, head_monitor), has)
           o == IF here THEN c ELSE first
           d == CHOOSE i \in DesktopIds : w \in mon[o].tree[i]
<1>3. /\ m = mon[c] /\ c \in In(L) /\ c \in Addresses
      /\ m \in MonitorRecords /\ m.desktops /\ m.desktops \in BOOLEAN
      /\ m.desk \in DesktopIds /\ mon \in [Addresses -> MonitorRecords]
  BY <1>1, CurrentIs
<1>4. o # NULL => o \in In(L) /\ \E i \in DesktopIds : w \in mon[o].tree[i]
  <2>1. CASE here
    <3>1. o = c
      BY <2>1
    <3>2. w \in mon[c].tree[m.desk]
      BY <1>3, <2>1
    <3> HIDE DEF o, m, c
    <3> QED BY <1>3, <3>1, <3>2
  <2>2. CASE ~here
    <3>1. first = NULL \/ first \in In(L) \cap has
      <4> HIDE DEF has
      <4> QED BY <1>2, FirstIs
    <3>2. o = first
      BY <2>2
    <3> HIDE DEF first, m, o
    <3>3. o # NULL => o \in In(L) /\ o \in has
      BY <3>1, <3>2
    <3> QED BY <3>3
  <2> QED BY <2>1, <2>2
<1>5. /\ mon' = IF o = NULL THEN mon
                ELSE [mon EXCEPT
                        ![o].tree[d] = @ \ {w},
                        ![o].n_count[d] = (@ + UINT16 - 1) % UINT16,
                        ![o].area[d] = IF mon[o].tree[d] = {w} THEN @ ELSE m.rectangle]
      /\ mapped' = IF here THEN (mapped \cup m.tree[m.desk]) \ {w} ELSE mapped \ {w}
      /\ running' = m.desktops
      /\ UNCHANGED <<hardware, head_monitor, prim_monitor, curr_monitor, multi_monitors>>
  BY DEF kill_window, pointers
<1> HIDE DEF o
<1>6. mapped' \subseteq Windows
  <2>1. m.tree[m.desk] \subseteq Windows /\ mapped \subseteq Windows
    <3> HIDE DEF m
    <3> QED BY <1>3 DEF MonitorRecords, Inv, TypeOK
  <2> HIDE DEF m
  <2> QED BY <1>5, <2>1
<1>7. running' \in BOOLEAN /\ running' /\ curr_monitor' \in In(L)
  BY <1>3, <1>5
<1>8. /\ Roster(mon', head_monitor, L)
      /\ \A b \in In(L) : mon'[b].desktops
      /\ \A b \in In(L) : \A i \in DesktopIds : mon[b].tree[i] \subseteq mon'[b].tree[i] \cup {w}
  <2>1. CASE o = NULL
    BY <1>1, <1>5, <2>1 DEF Ready
  <2>2. CASE o # NULL
    <3> DEFINE R == mon[o]
               t == R.tree[d] \ {w}
               n == (R.n_count[d] + UINT16 - 1) % UINT16
               e == IF R.tree[d] = {w} THEN R.area[d] ELSE m.rectangle
    <3>1. o \in In(L) /\ o \in Addresses /\ d \in DesktopIds /\ R \in MonitorRecords
      BY <1>2, <1>3, <1>4, <2>2
    <3>2. m.rectangle \in Rectangles \cup {NULL}
      <4> HIDE DEF m
      <4> QED BY <1>3 DEF MonitorRecords
    <3> HIDE DEF d, m, here
    <3>3. /\ R.tree[d] \in SUBSET Windows /\ R.n_count[d] \in 0 .. UINT16 - 1
          /\ R.area[d] \in Rectangles \cup {NULL}
          /\ R.tree \in [DesktopIds -> SUBSET Windows]
      <4> HIDE DEF R
      <4> QED BY <3>1 DEF MonitorRecords
    <3>4. t \in SUBSET Windows /\ e \in Rectangles \cup {NULL}
      <4> HIDE DEF R
      <4> QED BY <3>2, <3>3
    <3>5. n \in 0 .. UINT16 - 1
      <4>1. R.n_count[d] + UINT16 - 1 \in Nat
        <5> DEFINE x == R.n_count[d]
        <5>1. x \in 0 .. UINT16 - 1
          BY <3>3
        <5> HIDE DEF x
        <5>2. x + UINT16 - 1 \in Nat
          BY <5>1 DEF UINT16
        <5> QED BY <5>2 DEF x
      <4> HIDE DEF R
      <4> QED BY <4>1, WrapIs
    <3> HIDE DEF n
    <3>6. mon' = [mon EXCEPT ![o] = Filed(R, d, t, n, e)]
      <4>1. mon' = [mon EXCEPT ![o] = [mon[o] EXCEPT
                       !.tree[d] = @ \ {w},
                       !.n_count[d] = (@ + UINT16 - 1) % UINT16,
                       !.area[d] = IF mon[o].tree[d] = {w} THEN @ ELSE m.rectangle]]
        BY <1>3, <1>5, <2>2, <3>1
      <4>2. [R EXCEPT !.tree[d] = @ \ {w}, !.n_count[d] = (@ + UINT16 - 1) % UINT16,
                      !.area[d] = IF R.tree[d] = {w} THEN @ ELSE m.rectangle]
              = Filed(R, d, t, n, e)
        <5> HIDE DEF R
        <5> QED BY <3>1 DEF Filed, MonitorRecords, n
      <4> QED BY <4>1, <4>2
    <3> HIDE DEF t, e
    <3>7. /\ Roster(mon', head_monitor, L)
          /\ \A b \in In(L) : mon'[b].desktops
          /\ \A b \in In(L) : mon'[b].tree = IF b = o THEN [R.tree EXCEPT ![d] = t]
                                             ELSE mon[b].tree
      <4> DEFINE P == mon'
      <4>1. P = [mon EXCEPT ![o] = Filed(mon[o], d, t, n, e)]
        BY <3>6
      <4>2. Roster(mon, head_monitor, L) /\ \A b \in In(L) : mon[b].desktops
        BY <1>1 DEF Ready
      <4> HIDE DEF P, R
      <4>3. Roster(P, head_monitor, L) /\ FiledTrees(mon, P, L, o, d, t)
        BY <3>1, <3>4, <3>5, <4>1, <4>2, FiledKept
      <4> QED BY <4>2, <4>3 DEF FiledTrees, P, R
    <3>8. R.tree[d] \subseteq t \cup {w}
      BY DEF t
    <3>9. ASSUME NEW b \in In(L), NEW i \in DesktopIds
          PROVE  mon[b].tree[i] \subseteq mon'[b].tree[i] \cup {w}
      <4>1. CASE b = o
        <5>1. mon'[b].tree = [R.tree EXCEPT ![d] = t] /\ mon[b].tree = R.tree
          BY <3>7, <4>1
        <5> HIDE DEF R
        <5> QED BY <3>3, <3>8, <5>1
      <4>2. CASE b # o
        BY <3>7, <4>2
      <4> QED BY <4>1, <4>2
    <3> QED BY <3>7, <3>9
  <2> QED BY <2>1, <2>2
<1>9. Inv' /\ \A i : On(i)' = Trees(mon', L, i)
  BY <1>1, <1>5, <1>6, <1>7, <1>8, InvKept
<1>10. \A i \in DesktopIds : Trees(mon, L, i) \subseteq Trees(mon', L, i) \cup {w}
  BY <1>8 DEF Trees
<1> QED BY <1>2, <1>9, <1>10
-----------------------------------------------------------------------------
(* The first monitors.                                                     *)

\* What setup_outputs works on.
Pair(M, h) == [mon |-> M, head |-> h]

\* t has a list of i monitors.
Grown(t, i) == \E M, h, L : t = Pair(M, h) /\ Roster(M, h, L) /\ Len(L) = i

\* No monitor yet.
LEMMA NoneYet == Grown(Pair([a \in Addresses |-> FreeMonitor], NULL), 0)
<1> DEFINE M == [a \in Addresses |-> FreeMonitor]
           L == << >>
<1>1. L \in Seq(Addresses) /\ Len(L) = 0 /\ In(L) = {}
  BY DEF In
<1>2. M \in [Addresses -> MonitorRecords] /\ \A a \in Addresses : M[a] = FreeMonitor
  BY FreeTyped
<1> HIDE DEF M
<1>3. Chained(M, L)
  BY <1>1, <1>2, FreeTyped DEF Chained
<1>4. Roster(M, NULL, L)
  BY <1>1, <1>2, <1>3, OrderIs DEF Roster, Lists
<1> HIDE DEF L
<1>5. Grown(Pair(M, NULL), 0)
  BY <1>1, <1>4 DEF Grown
<1> QED BY <1>5 DEF M

\* A blank monitor for an output.
LEMMA BlankIs ==
  ASSUME NEW o \in Outputs, NEW x \in Modes
  PROVE  /\ init_monitor(o, x) \in MonitorRecords
         /\ init_monitor(o, x).next = NULL /\ init_monitor(o, x).output = o
<1> DEFINE R == <<o, x>>
           m == init_monitor(o, x)
           Q == [FreeMonitor EXCEPT !.output = o]
<1>1. R \in Rectangles
  BY DEF Rectangles
<1>2. m = [Q EXCEPT !.rectangle = R]
  BY FreeTyped DEF init_monitor, MonitorRecords
<1>3. Q \in MonitorRecords /\ Q.next = NULL /\ Q.output = o
  BY FreeTyped DEF MonitorRecords
<1> HIDE DEF R, Q, m
<1>4. /\ [Q EXCEPT !.rectangle = R] \in MonitorRecords
      /\ [Q EXCEPT !.rectangle = R].next = Q.next
      /\ [Q EXCEPT !.rectangle = R].output = Q.output
  BY <1>1, <1>3 DEF MonitorRecords
<1> QED BY <1>2, <1>3, <1>4 DEF m

\* The list grows by one for an output that is on.
LEMMA OneMore ==
  ASSUME mode \in [Outputs -> Modes], Last <= Cardinality(Addresses), NEW t, NEW i \in 1 .. Last,
         Grown(t, i - 1), status[OutputOrder[i]] = "ON"
  PROVE  Grown(setup_output(t, OutputOrder[i]), i)
<1> DEFINE o == OutputOrder[i]
           m == init_monitor(o, mode[o])
           a == Malloc(FreeAddresses(t.mon))
<1>1. PICK M, h, L : t = Pair(M, h) /\ Roster(M, h, L) /\ Len(L) = i - 1
  BY DEF Grown
<1>2. t.mon = M /\ t.head = h
  BY <1>1 DEF Pair
<1>3. /\ Last \in Nat /\ i \in Nat /\ i <= Last /\ o \in Outputs
      /\ Cardinality(Addresses) \in Nat /\ i >= 1
  BY OrderIs, MonitorsAssumption, FS_CardinalityType
<1>4. a \in Addresses \ In(L)
  <2>1. Len(L) < Cardinality(Addresses)
    BY <1>1, <1>3
  <2>2. Addresses \ In(L) # {}
    BY <1>1, <2>1, RoomIs
  <2> QED BY <1>1, <1>2, <2>2, FreeIs
<1>5. m \in MonitorRecords /\ m.next = NULL /\ m.output = o
  <2>1. mode[o] \in Modes
    BY <1>3
  <2> QED BY <1>3, <2>1, BlankIs
<1> HIDE DEF a, m
<1> DEFINE P == Added(M, L, a, m)
           g == IF L = <<>> THEN a ELSE h
<1>6. /\ add_monitor(t, a, m) = IF L = <<>> THEN [t EXCEPT !.mon = P, !.head = a]
                                ELSE [t EXCEPT !.mon = P]
      /\ Roster(P, g, Append(L, a))
  <2>1. m.output = OutputOrder[Len(L) + 1] /\ Len(L) < Last
    BY <1>1, <1>3, <1>5
  <2>2. Roster(t.mon, t.head, L)
    BY <1>1, <1>2
  <2>3. /\ add_monitor(t, a, m) =
              IF L = <<>> THEN [t EXCEPT !.mon = Added(t.mon, L, a, m), !.head = a]
              ELSE [t EXCEPT !.mon = Added(t.mon, L, a, m)]
        /\ Roster(Added(t.mon, L, a, m), IF L = <<>> THEN a ELSE t.head, Append(L, a))
    BY <1>4, <1>5, <2>1, <2>2, AddIs
  <2> QED BY <1>2, <2>3
<1> HIDE DEF P
<1>7. add_monitor(t, a, m) = Pair(P, g)
  <2> DEFINE u == Pair(M, h)
             v == Pair(P, h)
  <2>1. [u EXCEPT !.mon = P] = v /\ [v EXCEPT !.head = a] = Pair(P, a)
    BY DEF Pair
  <2>2. [u EXCEPT !.mon = P, !.head = a] = [[u EXCEPT !.mon = P] EXCEPT !.head = a]
    BY DEF Pair
  <2>3. t = u
    BY <1>1
  <2> HIDE DEF u
  <2>4. add_monitor(t, a, m) = IF L = <<>> THEN Pair(P, a) ELSE v
    BY <1>6, <2>1, <2>2, <2>3
  <2> QED BY <2>4
<1>8. setup_output(t, o) = Pair(P, g)
  <2>1. setup_output(t, o) = add_monitor(t, a, m)
    BY DEF setup_output, a, m
  <2> QED BY <1>7, <2>1
<1>9. Len(Append(L, a)) = i
  <2>1. L \in Seq(Addresses)
    BY <1>1, RosterIs
  <2> QED BY <1>1, <1>3, <2>1
<1> DEFINE A == Append(L, a)
<1> HIDE DEF g, A
<1>10. Roster(P, g, A) /\ Len(A) = i
  BY <1>6, <1>9 DEF A, g
<1> QED BY <1>8, <1>10 DEF Grown

\* All outputs but the last are on; the last may be.
LEMMA SetupOutputs ==
  ASSUME OneExternal, FixedOn, mode \in [Outputs -> Modes]
  PROVE  Grown(setup_outputs, IF status[External] = "ON" THEN Last ELSE Last - 1)
<1> DEFINE B == Pair([a \in Addresses |-> FreeMonitor], NULL)
           Step(f, i) == IF i = 0 THEN B ELSE setup_output(f[i - 1], OutputOrder[i])
           size(i) == IF i < Last \/ status[External] = "ON" THEN i ELSE Last - 1
           Good(f, n) == /\ f = [i \in 0 .. n |-> Step(f, i)]
                         /\ \A i \in 0 .. n : Grown(f[i], size(i))
           T == {n \in 0 .. Last : ~\E f : Good(f, n)}
           U == CHOOSE u : u = [i \in 0 .. Last |-> Step(u, i)]
<1>1. Last \in Nat /\ Last > 1 /\ Last <= Cardinality(Addresses)
  BY OrderIs DEF OneExternal
<1>2. Grown(B, size(0))
  BY <1>1, NoneYet
<1>3. ASSUME NEW t, NEW i \in 1 .. Last, Grown(t, size(i - 1))
      PROVE  Grown(setup_output(t, OutputOrder[i]), size(i))
  <2>1. size(i - 1) = i - 1
    BY <1>1
  <2>2. CASE i < Last \/ status[External] = "ON"
    <3>1. status[OutputOrder[i]] = "ON"
      BY <1>1, <2>2 DEF FixedOn, External
    <3>2. size(i) = i
      BY <2>2
    <3> HIDE DEF size
    <3> QED BY <1>1, <1>3, <2>1, <3>1, <3>2, OneMore
  <2>3. CASE ~(i < Last) /\ status[External] # "ON"
    <3>1. i = Last /\ OutputOrder[i] = External
      BY <1>1, <2>3 DEF External
    <3>2. setup_output(t, OutputOrder[i]) = t
      BY <2>3, <3>1 DEF setup_output
    <3>3. size(i) = i - 1
      BY <2>3, <3>1
    <3> HIDE DEF size
    <3> QED BY <1>3, <2>1, <3>2, <3>3
  <2> QED BY <2>2, <2>3
<1> HIDE DEF size, B
<1>4. T = {}
  <2> SUFFICES ASSUME T # {} PROVE FALSE
    OBVIOUS
  <2>1. T \subseteq Nat
    BY <1>1
  <2>2. PICK n \in T : \A j \in T : ~(j < n)
    <3> HIDE DEF T
    <3> QED BY <2>1, LeastIn
  <2>3. n \in 0 .. Last /\ ~\E f : Good(f, n)
    OBVIOUS
  <2>4. CASE n = 0
    <3> DEFINE f == [i \in 0 .. 0 |-> B]
    <3>1. Good(f, 0)
      <4>1. f = [i \in 0 .. 0 |-> Step(f, i)]
        OBVIOUS
      <4>2. \A i \in 0 .. 0 : Grown(f[i], size(i))
        BY <1>2
      <4> QED BY <4>1, <4>2
    <3> HIDE DEF f, Good
    <3> QED BY <2>3, <2>4, <3>1
  <2>5. CASE n # 0
    <3> DEFINE k == n - 1
    <3>1. k \in 0 .. Last /\ k < n /\ n \in 1 .. Last /\ k + 1 = n
      BY <1>1, <2>3, <2>5
    <3>2. k \notin T
      BY <2>2, <3>1
    <3>3. PICK f : Good(f, k)
      BY <3>1, <3>2
    <3>4. /\ f = [i \in 0 .. k |-> Step(f, i)]
          /\ \A i \in 0 .. k : Grown(f[i], size(i))
      BY <3>3
    <3> HIDE DEF k, T, Good
    <3> DEFINE x == setup_output(f[k], OutputOrder[n])
               g == [i \in 0 .. n |-> IF i = n THEN x ELSE f[i]]
    <3>5. Grown(x, size(n))
      <4>1. Grown(f[n - 1], size(n - 1)) /\ k = n - 1
        BY <3>1, <3>4 DEF k
      <4>2. Grown(setup_output(f[n - 1], OutputOrder[n]), size(n))
        BY <1>3, <3>1, <4>1
      <4> QED BY <4>1, <4>2
    <3>6. \A i \in 0 .. n : i = n \/ (i \in 0 .. k /\ i - 1 # n)
      BY <3>1
    <3>7. \A i \in 0 .. n : Grown(g[i], size(i))
      <4> HIDE DEF x
      <4> QED BY <3>4, <3>5, <3>6
    <3>8. g = [i \in 0 .. n |-> Step(g, i)]
      <4>1. ASSUME NEW i \in 0 .. n PROVE g[i] = Step(g, i)
        <5>1. CASE i = n
          <6>1. g[i] = x /\ i # 0 /\ g[i - 1] = f[k] /\ i - 1 = k
            <7> HIDE DEF x
            <7> QED BY <3>1, <5>1
          <6> HIDE DEF g
          <6> QED BY <5>1, <6>1
        <5>2. CASE i # n /\ i # 0
          <6>1. i \in 0 .. k /\ i - 1 \in 0 .. n /\ i - 1 # n
            BY <3>1, <5>2
          <6>2. g[i] = f[i] /\ g[i - 1] = f[i - 1]
            <7> HIDE DEF x
            <7> QED BY <5>2, <6>1
          <6>3. f[i] = Step(f, i)
            <7> HIDE DEF g, Step
            <7> QED BY <3>4, <6>1
          <6> HIDE DEF g
          <6> QED BY <5>2, <6>2, <6>3
        <5>3. CASE i # n /\ i = 0
          <6>1. g[0] = f[0] /\ 0 \in 0 .. k
            <7> HIDE DEF x
            <7> QED BY <3>1, <5>3
          <6>2. f[0] = B
            BY <3>4, <6>1
          <6> HIDE DEF g
          <6> QED BY <5>3, <6>1, <6>2
        <5> QED BY <5>1, <5>2, <5>3
      <4>2. g = [i \in 0 .. n |-> g[i]]
        OBVIOUS
      <4> HIDE DEF g, Step
      <4> QED BY <4>1, <4>2
    <3>9. Good(g, n)
      <4> HIDE DEF g
      <4> QED BY <3>7, <3>8 DEF Good
    <3> HIDE DEF g
    <3> QED BY <2>3, <3>9
  <2> QED BY <2>4, <2>5
<1>5. PICK f : Good(f, Last)
  <2>1. Last \in 0 .. Last
    BY <1>1
  <2>2. Last \notin T
    <3> HIDE DEF T
    <3> QED BY <1>4
  <2> HIDE DEF Good
  <2> QED BY <2>1, <2>2
<1>6. /\ f = [i \in 0 .. Last |-> Step(f, i)]
      /\ \A i \in 0 .. Last : Grown(f[i], size(i))
  BY <1>5
<1> HIDE DEF T, Good
<1>7. U = [i \in 0 .. Last |-> Step(U, i)]
  <2> HIDE DEF Step
  <2> QED BY <1>6
<1> HIDE DEF U
<1>8. U[Last] = f[Last]
  <2>1. U[0] = f[0]
    BY <1>1, <1>6, <1>7
  <2>2. ASSUME NEW i \in 1 .. Last, U[i - 1] = f[i - 1] PROVE U[i] = f[i]
    <3>1. i \in 0 .. Last /\ i # 0
      BY <1>1
    <3> HIDE DEF Step
    <3>2. U[i] = Step(U, i) /\ f[i] = Step(f, i)
      BY <1>6, <1>7, <3>1
    <3>3. Step(U, i) = Step(f, i)
      BY <2>2, <3>1 DEF Step
    <3> QED BY <3>2, <3>3
  <2> QED BY <1>1, <2>1, <2>2, SameEnd
<1>9. setup_outputs = U[Last]
  BY DEF setup_outputs, Iterated, U, Last, B, Pair
<1>10. size(Last) = IF status[External] = "ON" THEN Last ELSE Last - 1
  BY <1>1 DEF size
<1> QED BY <1>1, <1>6, <1>8, <1>9, <1>10
\* The program starts with a ready list that matches the outputs.
LEMMA InitIs ==
  ASSUME OneExternal, Init
  PROVE  Inv
<1>1. /\ status \in [Outputs -> Statuses] /\ mode \in [Outputs -> Modes] /\ pending = FALSE
      /\ mon = setup_desktops(setup_outputs.mon, In(Chain(setup_outputs.mon, setup_outputs.head)))
      /\ head_monitor = setup_outputs.head
      /\ setup_monitors(Chain(setup_outputs.mon, setup_outputs.head))
      /\ mapped = {} /\ running = TRUE
      /\ \A o \in Outputs \ Hotplug : status[o] = "ON"
  BY DEF Init
<1>2. Last \in Nat /\ Last > 1
  BY OrderIs DEF OneExternal
<1>3. FixedOn
  <2> SUFFICES ASSUME NEW i \in 1 .. Last - 1 PROVE status[OutputOrder[i]] = "ON"
    BY DEF FixedOn
  <2>1. i \in 1 .. Last /\ Last \in 1 .. Last /\ i # Last /\ OutputOrder[i] \in Outputs
    BY <1>2, OrderIs
  <2>2. OutputOrder[i] \notin Hotplug
    BY <2>1, OrderIs DEF OneExternal
  <2> QED BY <1>1, <2>1, <2>2
<1>4. Grown(setup_outputs, IF status[External] = "ON" THEN Last ELSE Last - 1)
  BY <1>1, <1>3, SetupOutputs
<1>5. PICK M, h, L : /\ setup_outputs = Pair(M, h) /\ Roster(M, h, L)
                     /\ Len(L) = IF status[External] = "ON" THEN Last ELSE Last - 1
  BY <1>4 DEF Grown
<1>6. setup_outputs.mon = M /\ setup_outputs.head = h
  BY <1>5 DEF Pair
<1>7. Chain(M, h) = L /\ L \in Seq(Addresses) /\ \A a \in In(L) : a \in Addresses
  BY <1>5, RosterIs
<1>8. /\ mon = setup_desktops(M, In(L)) /\ head_monitor = h
      /\ prim_monitor \in In(L) /\ curr_monitor = prim_monitor
      /\ multi_monitors = (Len(L) > 1)
  BY <1>1, <1>6, <1>7 DEF setup_monitors
<1>9. Roster(mon, head_monitor, L) /\ \A a \in In(L) : mon[a].desktops
  <2>1. /\ Roster(setup_desktops(M, In(L)), h, L)
        /\ SetUp(M, L, setup_desktops(M, In(L)))
    BY <1>5, SetupIs
  <2> QED BY <1>8, <2>1 DEF SetUp
<1>10. Matching(L)
  BY <1>2, <1>5 DEF Matching
<1>11. Ready(L)
  BY <1>8, <1>9, <1>10 DEF Ready, Matching
<1>12. head_monitor \in Addresses
  <2>1. Len(L) # 0 /\ Len(L) \in Nat
    BY <1>2, <1>5
  <2>2. L # <<>> /\ 1 \in 1 .. Len(L)
    BY <1>7, <2>1
  <2>3. L[1] \in Addresses
    BY <1>7, <2>2
  <2> QED BY <1>9, <2>2, <2>3 DEF Roster, Lists
<1>13. mon \in [Addresses -> MonitorRecords]
  BY <1>9 DEF Roster
<1>14. TypeOK
  <2>1. pending \in BOOLEAN /\ running \in BOOLEAN /\ mapped \subseteq Windows
    BY <1>1
  <2>2. multi_monitors \in BOOLEAN
    BY <1>8
  <2>3. prim_monitor \in Addresses /\ curr_monitor \in Addresses
    BY <1>7, <1>8
  <2> QED BY <1>1, <1>12, <1>13, <2>1, <2>2, <2>3 DEF TypeOK
<1> QED BY <1>1, <1>3, <1>8, <1>10, <1>11, <1>14 DEF Inv

\* Nothing happens.
LEMMA StutterIs ==
  ASSUME Inv, UNCHANGED vars
  PROVE  Inv' /\ \A d : On(d)' = On(d)
<1>1. /\ status' = status /\ mode' = mode /\ pending' = pending /\ mon' = mon
      /\ head_monitor' = head_monitor /\ prim_monitor' = prim_monitor
      /\ curr_monitor' = curr_monitor /\ multi_monitors' = multi_monitors
      /\ mapped' = mapped /\ running' = running
  BY DEF vars
<1>2. Inv'
  BY <1>1 DEF Inv, TypeOK, FixedOn, Ready, Matching
<1>3. \A d : On(d)' = On(d)
  BY <1>1 DEF On, Listed
<1> QED BY <1>2, <1>3

\* Only handle_monitor_changes takes a change off the queue.
LEMMA OthersWait ==
  ASSUME UNCHANGED pending \/ pending' = TRUE
  PROVE  Refits
BY DEF Refits

\* The windows on the desktops number d stay there, unless their client destroys them.
Stays(d) == \A w \in On(d) : w \in On(d)' \/ kill_window(w)

\* Every step keeps the invariant, refits the trees and keeps the windows.
LEMMA StepIs ==
  ASSUME OneExternal, Inv, [Next]_vars
  PROVE  Inv' /\ Refits /\ \A d \in DesktopIds : Stays(d)
<1>1. CASE \E order \in Orders : handle_monitor_changes(order)
  BY <1>1, HandledIs DEF Stays
<1>2. CASE \E o \in Outputs, st \in Statuses, m \in Modes : screen_change(o, st, m)
  <2>1. PICK o \in Outputs, st \in Statuses, m \in Modes : screen_change(o, st, m)
    BY <1>2
  <2>2. Inv' /\ \A d : On(d)' = On(d)
    BY <2>1, ScreenIs
  <2>3. Refits
    BY <2>1, OthersWait DEF screen_change
  <2> QED BY <2>2, <2>3 DEF Stays
<1>3. CASE \E a \in Addresses : enter_monitor(a)
  <2>1. PICK a \in Addresses : enter_monitor(a)
    BY <1>3
  <2>2. Inv' /\ \A d \in DesktopIds : On(d) \subseteq On(d)'
    BY <2>1, EnterIs
  <2>3. Refits
    BY <2>1, OthersWait DEF enter_monitor, hardware
  <2> QED BY <2>2, <2>3 DEF Stays
<1>4. CASE \E w \in Windows : handle_map_request(w)
  <2>1. PICK w \in Windows : handle_map_request(w)
    BY <1>4
  <2>2. Inv' /\ \A d \in DesktopIds : On(d) \subseteq On(d)'
    BY <2>1, MapIs
  <2>3. Refits
    BY <2>1, OthersWait DEF handle_map_request, hardware
  <2> QED BY <2>2, <2>3 DEF Stays
<1>5. CASE \E w \in Windows : kill_window(w)
  <2>1. PICK w \in Windows : kill_window(w)
    BY <1>5
  <2>2. Inv' /\ \A d \in DesktopIds : On(d) \subseteq On(d)' \cup {w}
    BY <2>1, KillIs
  <2>3. Refits
    BY <2>1, OthersWait DEF kill_window, hardware
  <2>4. \A d \in DesktopIds : Stays(d)
    BY <2>1, <2>2 DEF Stays
  <2> QED BY <2>2, <2>3, <2>4
<1>6. CASE \E d \in DesktopIds : switch_desktop(d)
  <2>1. PICK d \in DesktopIds : switch_desktop(d)
    BY <1>6
  <2>2. Inv' /\ \A i \in DesktopIds : On(i) \subseteq On(i)'
    BY <2>1, SwitchIs
  <2>3. Refits
    BY <2>1, OthersWait DEF switch_desktop, hardware
  <2> QED BY <2>2, <2>3 DEF Stays
<1>7. CASE UNCHANGED vars
  <2>1. Inv' /\ \A d : On(d)' = On(d)
    BY <1>7, StutterIs
  <2>2. Refits
    BY <1>7, OthersWait DEF vars
  <2> QED BY <2>1, <2>2 DEF Stays
<1>8. Next \/ UNCHANGED vars
  OBVIOUS
<1> QED BY <1>1, <1>2, <1>3, <1>4, <1>5, <1>6, <1>7, <1>8 DEF Next

-----------------------------------------------------------------------------
(* The theorems.                                                           *)

\* The invariant gives every output that is on one monitor, and only those listed.
LEMMA InSyncIs ==
  ASSUME OneExternal, Inv
  PROVE  InSync
<1> SUFFICES ASSUME ~pending PROVE InSync
  BY DEF InSync
<1>1. PICK L : Ready(L) /\ multi_monitors = (Len(L) > 1) /\ Matching(L)
  BY DEF Inv
<1>2. /\ Listed = In(L) /\ Cardinality(In(L)) = Len(L)
      /\ Len(L) \in Nat /\ Len(L) <= Last
      /\ \A i \in 1 .. Len(L) : L[i] \in In(L)
      /\ \A a \in In(L) : \E i \in 1 .. Len(L) : a = L[i]
      /\ \A i \in 1 .. Len(L) : mon[L[i]].output = OutputOrder[i]
  <2>1. Roster(mon, head_monitor, L)
    BY <1>1 DEF Ready
  <2>2. \A i \in 1 .. Len(L) : mon[L[i]].output = OutputOrder[i]
    BY <2>1 DEF Roster
  <2> QED BY <1>1, <2>1, <2>2, ReadyIs, RosterIs, CountIs
<1>3. multi_monitors = (Cardinality(Listed) > 1)
  BY <1>1, <1>2
<1>4. ASSUME NEW o \in Outputs
      PROVE  LET shown == {a \in Listed : mon[a].output = o}
             IN  /\ Cardinality(shown) <= 1
                 /\ status[o] = "ON" => shown # {}
                 /\ status[o] = "UNPLUGGED" => shown = {}
  <2> DEFINE shown == {a \in Listed : mon[a].output = o}
  <2>1. PICK i \in 1 .. Last : o = OutputOrder[i]
    BY OrderIs
  <2>2. \A a \in In(L) : mon[a].output = o => i <= Len(L) /\ a = L[i]
    <3> SUFFICES ASSUME NEW a \in In(L), mon[a].output = o PROVE i <= Len(L) /\ a = L[i]
      OBVIOUS
    <3>1. PICK j \in 1 .. Len(L) : a = L[j]
      BY <1>2
    <3>2. j \in 1 .. Last /\ OutputOrder[j] = OutputOrder[i]
      BY <1>2, <2>1, <3>1, OrderIs
    <3>3. j = i
      BY <2>1, <3>2, OrderIs
    <3> QED BY <3>1, <3>3
  <2>3. CASE i <= Len(L)
    <3>1. i \in 1 .. Len(L)
      BY <1>2, <2>1, <2>3, OrderIs
    <3>2. shown = {L[i]}
      BY <1>2, <2>1, <2>2, <3>1
    <3>3. Cardinality(shown) = 1
      BY <3>2, FS_Singleton
    <3>4. status[o] # "UNPLUGGED"
      <4>1. CASE i = Last
        BY <1>1, <1>2, <2>1, <2>3, <4>1, OrderIs DEF Matching, External
      <4>2. CASE i # Last
        <5>1. i \in 1 .. Last - 1
          BY <2>1, <4>2, OrderIs
        <5> QED BY <2>1, <5>1 DEF Inv, FixedOn
      <4> QED BY <4>1, <4>2
    <3> HIDE DEF shown
    <3>5. /\ Cardinality(shown) <= 1
          /\ status[o] = "ON" => shown # {}
          /\ status[o] = "UNPLUGGED" => shown = {}
      BY <3>2, <3>3, <3>4
    <3> QED BY <3>5 DEF shown
  <2>4. CASE ~(i <= Len(L))
    <3>1. shown = {}
      BY <1>2, <2>2, <2>4
    <3>2. Cardinality(shown) = 0
      BY <3>1, FS_EmptySet
    <3>3. status[o] # "ON"
      <4>1. i = Last
        BY <1>1, <1>2, <2>1, <2>4, OrderIs DEF Matching
      <4> QED BY <1>1, <1>2, <2>1, <2>4, <4>1, OrderIs DEF Matching, External
    <3> HIDE DEF shown
    <3>4. /\ Cardinality(shown) <= 1
          /\ status[o] = "ON" => shown # {}
          /\ status[o] = "UNPLUGGED" => shown = {}
      BY <3>1, <3>2, <3>3
    <3> QED BY <3>4 DEF shown
  <2> QED BY <2>3, <2>4
<1> QED BY <1>3, <1>4 DEF InSync

\* The pointers.
LEMMA PointersIs ==
  ASSUME Inv
  PROVE  PointersListed
<1>1. PICK L : Ready(L)
  BY DEF Inv
<1>2. Listed = In(L)
  BY <1>1, ReadyIs
<1> QED BY <1>1, <1>2 DEF Ready, PointersListed
\* With one external output, the invariant holds throughout.
LEMMA InvAlways ==
  ASSUME OneExternal
  PROVE  Spec => []Inv
<1>1. Init => Inv
  BY InitIs
<1>2. Inv /\ [Next]_vars => Inv'
  BY StepIs
<1> QED BY <1>1, <1>2, PTL DEF Spec

\* Every variable keeps its type: the list never runs empty, and the three pointers are
\* never NULL.
THEOREM MonitorTypes ==
  ASSUME OneExternal
  PROVE  Spec => []TypeOK
<1>1. Inv => TypeOK
  BY DEF Inv
<1> QED BY <1>1, InvAlways, PTL

\* Once the last change is handled, the list has one monitor for each output that is on,
\* none for one that is unplugged, and never two for the same (update_monitors).
THEOREM InSyncAlways ==
  ASSUME OneExternal
  PROVE  Spec => []InSync
<1>1. Inv => InSync
  BY InSyncIs
<1> QED BY <1>1, InvAlways, PTL

\* The primary and the current monitor are listed, and every listed monitor has its
\* desktops, so no handler meets a monitor that is freed or unfinished.
THEOREM PointersAlways ==
  ASSUME OneExternal
  PROVE  Spec => []PointersListed
<1>1. Inv => PointersListed
  BY PointersIs
<1> QED BY <1>1, InvAlways, PTL

\* No window is lost with a monitor: merge_monitors moves all of them, each to the
\* desktop of the same number, before the monitor is destroyed.
THEOREM ConservedAlways ==
  ASSUME OneExternal
  PROVE  Spec => Conserved
<1> DEFINE Kept == \A d \in DesktopIds : \A w \in On(d) : w \in On(d)' \/ kill_window(w)
<1>1. Inv /\ [Next]_vars => Kept
  <2> SUFFICES ASSUME Inv, [Next]_vars PROVE Kept
    OBVIOUS
  <2>1. \A d \in DesktopIds : Stays(d)
    BY StepIs
  <2> QED BY <2>1 DEF Stays
<1> HIDE DEF Kept
<1>2. Spec => [][Kept]_vars
  BY <1>1, InvAlways, PTL DEF Spec
<1> QED BY <1>2 DEF Conserved, Kept

\* Handling a change that takes a monitor away or resizes one leaves every tree laid out
\* for the monitor it is on, whichever merge_monitors laid it out for.
THEOREM RefittedAlways ==
  ASSUME OneExternal
  PROVE  Spec => Refitted
<1>1. Inv /\ [Next]_vars => Refits
  BY StepIs
<1>2. Spec => [][Refits]_vars
  BY <1>1, InvAlways, PTL DEF Spec
<1> QED BY <1>2 DEF Refitted, Refits
=============================================================================
