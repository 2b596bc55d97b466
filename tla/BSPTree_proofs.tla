--------------------------- MODULE BSPTree_proofs ---------------------------
(***************************************************************************)
(* What the operators of BSPTree compute and preserve, for any set of      *)
(* nodes and windows.                                                      *)
(*                                                                         *)
(* First the recursive walks of a well-linked heap: the subtree of a node  *)
(* is the least set that holds it and is closed under children, and a      *)
(* search finds a node of the set it searches exactly when that set meets  *)
(* the subtree.  A recursive function is a CHOOSE: each has to be shown to *)
(* exist before its recursion can be unfolded.  Induction over a tree is   *)
(* the choice of a lowest counterexample (LowestNode).                     *)
(*                                                                         *)
(* Then the surgery: each operation of tree.c takes a well-linked heap to  *)
(* a well-linked heap, and says which nodes are roots afterwards.          *)
(*                                                                         *)
(* Last the order of the leaves: one is to the left of another when some   *)
(* node has the one in its first subtree and the other in its second.  The *)
(* walk lists the leaves in that order, and what surgery leaves alone it   *)
(* leaves in order.                                                        *)
(***************************************************************************)
EXTENDS BSPTree, FiniteSetTheorems, TLAPS

\* A well-typed, well-linked heap without cycles.
Good(h) == h \in Heaps /\ WellLinked(h) /\ Acyclic(h)

\* What the walks rely on, and what is left of it while a node is between two trees:
\* children know their parents, and there is no cycle.
Forest(h) ==
  /\ h \in Heaps /\ Acyclic(h)
  /\ \A n \in Nodes : \A c \in Children(h, n) : h[c].parent = n

\* S holds the children of its nodes.
Closed(h, S) == S \in SUBSET Nodes /\ \A n \in S : Children(h, n) \subseteq S

\* The children of a node are nodes whose parent it is.
LEMMA ChildrenKnow ==
  ASSUME NEW h, Forest(h), NEW n \in Nodes, NEW c \in Children(h, n)
  PROVE  c \in Nodes /\ h[c].parent = n
<1>1. h[n] \in NodeRecords  BY DEF Forest, Heaps
<1>2. c \in Nodes  BY <1>1 DEF Children, NodeRecords
<1> QED BY <1>2 DEF Forest

\* A well-linked heap is a forest.
LEMMA GoodIsForest ==
  ASSUME NEW h, Good(h)
  PROVE  Forest(h)
<1> SUFFICES ASSUME NEW n \in Nodes, NEW c \in Children(h, n) PROVE h[c].parent = n
  BY DEF Forest, Good
<1>1. h[n] \in NodeRecords  BY DEF Good, Heaps
<1> QED BY <1>1 DEF Children, Good, WellLinked, NodeRecords

\* Every set of nodes has one none of whose children is in it: if each had a child
\* in the set, choosing one would be an injection of a finite set into itself, which
\* reaches every node of it, and the set would hold the parents of its nodes.
LEMMA LowestNode ==
  ASSUME NEW h, Forest(h), NEW T \in SUBSET Nodes, T # {}
  PROVE  \E n \in T : Children(h, n) \cap T = {}
<1> SUFFICES ASSUME \A n \in T : Children(h, n) \cap T # {} PROVE FALSE
  OBVIOUS
<1> DEFINE f == [n \in T |-> CHOOSE c \in T : c \in Children(h, n)]
<1>1. \A n \in T : f[n] \in T /\ f[n] \in Children(h, n)
  OBVIOUS
<1>2. \A n \in T : h[f[n]].parent = n
  BY <1>1, ChildrenKnow
<1>3. f \in Injection(T, T)
  BY <1>1, <1>2 DEF Injection, IsInjective
<1>4. IsFiniteSet(T)
  BY NodesAssumption, FS_Subset
<1>5. f \in Surjection(T, T)
  BY <1>3, <1>4, FS_Injection
<1>6. \A m \in T : \E n \in T : f[n] = m
  BY <1>5 DEF Surjection
<1> HIDE DEF f
<1>7. ASSUME NEW m \in T PROVE h[m].parent \in T
  <2>1. PICK n \in T : f[n] = m
    BY <1>6
  <2> QED BY <1>2, <2>1
<1> QED BY <1>7 DEF Forest, Acyclic

-----------------------------------------------------------------------------
(* Subtrees.                                                               *)

\* The least closed set with n in it.
Reach(h, n) == {m \in Nodes : \A S : Closed(h, S) /\ n \in S => m \in S}

\* One step of the recursion of below.
BelowStep(h, f, n) ==
  {n} \cup (IF h[n].first = NULL THEN {} ELSE f[h[n].first])
      \cup (IF h[n].second = NULL THEN {} ELSE f[h[n].second])

\* below unfolds, because Reach is a solution of its recursion.
LEMMA BelowUnfolds ==
  ASSUME NEW h, Forest(h)
  PROVE  \A n \in Nodes : below(h)[n] = BelowStep(h, below(h), n)
<1> DEFINE R == [n \in Nodes |-> Reach(h, n)]
<1>1. ASSUME NEW n \in Nodes PROVE Closed(h, R[n]) /\ n \in R[n]
  <2>1. \A m \in Reach(h, n) : Children(h, m) \subseteq Reach(h, n)
    BY ChildrenKnow DEF Reach, Closed
  <2> QED BY <2>1 DEF Reach, Closed
<1>2. ASSUME NEW n \in Nodes PROVE R[n] = BelowStep(h, R, n)
  <2>1. \A c \in Children(h, n) : c \in Nodes /\ c \in R[n]
    BY <1>1, ChildrenKnow DEF Closed
  <2>2. \A c \in Children(h, n) : R[c] \subseteq R[n]
    BY <1>1, <2>1 DEF Reach
  <2>3. BelowStep(h, R, n) \subseteq R[n]
    BY <1>1, <2>2 DEF BelowStep, Children
  <2>4. Closed(h, BelowStep(h, R, n))
    <3>1. BelowStep(h, R, n) = {n} \cup UNION {R[c] : c \in Children(h, n)}
      BY DEF BelowStep, Children
    <3>2. \A c \in Children(h, n) : Closed(h, R[c]) /\ c \in R[c]
      BY <1>1, <2>1
    <3>3. BelowStep(h, R, n) \in SUBSET Nodes
      BY <3>1, <3>2 DEF Closed
    <3>4. ASSUME NEW m \in BelowStep(h, R, n) PROVE Children(h, m) \subseteq BelowStep(h, R, n)
      <4>1. CASE m = n
        BY <3>1, <3>2, <4>1
      <4>2. CASE \E c \in Children(h, n) : m \in R[c]
        BY <3>1, <3>2, <4>2 DEF Closed
      <4> QED BY <3>1, <3>4, <4>1, <4>2
    <3> QED BY <3>3, <3>4 DEF Closed
  <2>5. R[n] \subseteq BelowStep(h, R, n)
    BY <2>4 DEF Reach, BelowStep
  <2> QED BY <2>3, <2>5
<1>3. R = [n \in Nodes |-> BelowStep(h, R, n)]
  BY <1>2
<1> HIDE DEF R
<1>4. below(h) = [n \in Nodes |-> BelowStep(h, below(h), n)]
  BY <1>3, Zenon DEF below, BelowStep
<1> QED BY <1>4

\* The subtree of a node is closed, holds the node, and is the least such set.
LEMMA BelowLeast ==
  ASSUME NEW h, Forest(h), NEW n \in Nodes
  PROVE  /\ Closed(h, below(h)[n]) /\ n \in below(h)[n]
         /\ \A S : Closed(h, S) /\ n \in S => below(h)[n] \subseteq S
<1> DEFINE B == below(h)
           ok(m) == /\ Closed(h, B[m]) /\ m \in B[m]
                    /\ \A S : Closed(h, S) /\ m \in S => B[m] \subseteq S
           T == {m \in Nodes : ~ok(m)}
<1>1. \A m \in Nodes : B[m] = BelowStep(h, B, m)
  BY BelowUnfolds
<1> SUFFICES ASSUME T # {} PROVE FALSE
  OBVIOUS
<1>2. PICK m \in T : Children(h, m) \cap T = {}
  BY LowestNode
<1> HIDE DEF B
<1>3. B[m] = {m} \cup UNION {B[c] : c \in Children(h, m)}
  BY <1>1, <1>2 DEF BelowStep, Children
<1>4. \A c \in Children(h, m) : ok(c)
  BY <1>2, ChildrenKnow
<1>5. Closed(h, B[m]) /\ m \in B[m]
  BY <1>2, <1>3, <1>4 DEF Closed
<1>6. \A S : Closed(h, S) /\ m \in S => B[m] \subseteq S
  BY <1>3, <1>4 DEF Closed
<1> QED BY <1>2, <1>5, <1>6

\* Only the links to the children matter.
LEMMA SameSubtree ==
  ASSUME NEW h, Forest(h), NEW k, Forest(k), NEW r \in Nodes,
         \A n \in Nodes : Children(k, n) = Children(h, n)
  PROVE  Subtree(k, r) = Subtree(h, r)
<1>1. \A S : Closed(k, S) <=> Closed(h, S)
  BY DEF Closed
<1>2. below(k)[r] \subseteq below(h)[r]
  BY <1>1, BelowLeast
<1>3. below(h)[r] \subseteq below(k)[r]
  BY <1>1, BelowLeast
<1> QED BY <1>2, <1>3, NullAssumption DEF Subtree

\* Every node of a subtree but its top has its parent there.
LEMMA BelowParents ==
  ASSUME NEW h, Forest(h), NEW n \in Nodes, NEW m \in below(h)[n], m # n
  PROVE  h[m].parent \in below(h)[n]
<1> DEFINE S == {k \in below(h)[n] : k = n \/ h[k].parent \in below(h)[n]}
<1>1. Closed(h, below(h)[n]) /\ n \in below(h)[n]
  BY BelowLeast
<1>2. Closed(h, S) /\ n \in S
  BY <1>1, ChildrenKnow DEF Closed
<1> QED BY <1>2, BelowLeast

\* A node that has a parent is allocated, as its parent is.
LEMMA ParentAllocated ==
  ASSUME NEW h, Good(h), NEW n \in Nodes, h[n].parent # NULL
  PROVE  /\ h[n].parent \in Nodes /\ h[h[n].parent].type # "NONE" /\ h[n].type # "NONE"
         /\ n \in Children(h, h[n].parent)
<1>1. h[n] \in NodeRecords
  BY DEF Good, Heaps
<1>2. h[n].parent \in Nodes
  BY <1>1 DEF NodeRecords
<1>3. h[n].type # "NONE" /\ n \in Children(h, h[n].parent)
  BY DEF Good, WellLinked
<1> QED BY <1>2, <1>3, NullAssumption DEF Good, WellLinked, Children

\* In a tree of root r only r has no parent, and only r is the parent of a node
\* that has no grandparent.
Anchored(h, r, n) ==
  LET p == h[n].parent
  IN  IF p = NULL THEN n = r ELSE h[p].parent = NULL => p = r

\* The nodes of a tree are nodes, and only its root has a parent outside it.
LEMMA SubtreeInside ==
  ASSUME NEW h, Forest(h), NEW r \in Nodes \cup {NULL}, NEW n \in Subtree(h, r)
  PROVE  /\ n \in Nodes /\ r \in Nodes
         /\ n # r => h[n].parent \in Subtree(h, r) /\ h[n].parent \in Nodes
<1>1. r \in Nodes /\ n \in below(h)[r]
  BY DEF Subtree
<1>2. Closed(h, below(h)[r])
  BY <1>1, BelowLeast
<1>3. n # r => h[n].parent \in below(h)[r]
  BY <1>1, BelowParents
<1> QED BY <1>1, <1>2, <1>3, NullAssumption DEF Closed, Subtree

\* A labelling of the nodes that is the same along every edge is the same throughout
\* a tree.
LEMMA SubtreeLabels ==
  ASSUME NEW h, Forest(h), NEW r \in Nodes \cup {NULL}, NEW O,
         \A n \in Nodes : h[n].parent # NULL => O[n] = O[h[n].parent],
         NEW n \in Subtree(h, r)
  PROVE  O[n] = O[r]
<1> DEFINE S == {m \in Nodes : O[m] = O[r]}
<1>1. r \in Nodes /\ n \in below(h)[r]
  BY DEF Subtree
<1>2. Closed(h, S)
  BY ChildrenKnow, NullAssumption DEF Closed
<1> QED BY <1>1, <1>2, BelowLeast

\* The nodes of a tree are allocated as its root is, and anchored at it.
LEMMA SubtreeNodes ==
  ASSUME NEW h, Good(h), NEW r \in Nodes \cup {NULL}, NEW n \in Subtree(h, r)
  PROVE  /\ n \in Nodes /\ r \in Nodes
         /\ h[r].type # "NONE" => h[n].type # "NONE"
         /\ h[r].parent = NULL => Anchored(h, r, n)
<1>1. /\ n \in Nodes /\ r \in Nodes
      /\ n # r => h[n].parent \in Subtree(h, r) /\ h[n].parent \in Nodes
  BY GoodIsForest, SubtreeInside
<1>2. CASE n = r
  <2>1. h[r].parent = NULL => Anchored(h, r, n)
    BY <1>2 DEF Anchored
  <2> QED BY <1>1, <1>2, <2>1
<1>3. CASE n # r
  <2>1. h[n].parent # NULL
    BY <1>1, <1>3, NullAssumption
  <2>2. h[n].parent # r => h[h[n].parent].parent \in Nodes
    BY <1>1, <1>3, GoodIsForest, SubtreeInside
  <2> QED BY <1>1, <1>3, <2>1, <2>2, ParentAllocated, NullAssumption DEF Anchored
<1> QED BY <1>2, <1>3

\* A labelling of the nodes that is the same along every edge, and tells the roots
\* apart, labels the nodes of a tree with the label of its root and no others.
LEMMA SubtreeIsLabelled ==
  ASSUME NEW h, Good(h), NEW r \in Nodes, h[r].type # "NONE", NEW O,
         \A n \in Nodes : h[n].parent # NULL => O[n] = O[h[n].parent],
         \A n \in Nodes : h[n].type # "NONE" /\ h[n].parent = NULL /\ O[n] = O[r] => n = r
  PROVE  Subtree(h, r) = {n \in Nodes : h[n].type # "NONE" /\ O[n] = O[r]}
<1> DEFINE S == {n \in Nodes : h[n].type # "NONE" /\ O[n] = O[r]}
           B == below(h)[r]
<1>1. Closed(h, B) /\ r \in B /\ \A Q : Closed(h, Q) /\ r \in Q => B \subseteq Q
  BY GoodIsForest, BelowLeast
<1>2. Closed(h, S)
  <2> SUFFICES ASSUME NEW n \in S, NEW c \in Children(h, n) PROVE c \in S
    BY DEF Closed
  <2>1. c \in Nodes /\ h[c].parent = n
    BY GoodIsForest, ChildrenKnow
  <2> QED BY <2>1, NullAssumption, ParentAllocated
<1> HIDE DEF B
<1>3. B \subseteq S
  BY <1>1, <1>2
<1>4. S \subseteq B
  <2> SUFFICES ASSUME S \ B # {} PROVE FALSE
    OBVIOUS
  <2>1. PICK n \in S \ B : h[n].parent \notin S \ B
    BY DEF Good, Acyclic
  <2>2. CASE h[n].parent = NULL
    BY <1>1, <2>1, <2>2
  <2>3. CASE h[n].parent # NULL
    <3>1. /\ h[n].parent \in Nodes /\ h[h[n].parent].type # "NONE"
          /\ n \in Children(h, h[n].parent)
      BY <2>1, <2>3, ParentAllocated
    <3>2. h[n].parent \in B
      BY <2>1, <2>3, <3>1
    <3> QED BY <1>1, <2>1, <3>1, <3>2 DEF Closed
  <2> QED BY <2>2, <2>3
<1>5. r # NULL
  BY NullAssumption
<1> QED BY <1>3, <1>4, <1>5 DEF Subtree, B

-----------------------------------------------------------------------------
(* Searches.                                                               *)

\* One step of the recursion of seek.
SeekStep(h, S, f, n) ==
  IF n \in S THEN n
  ELSE IF h[n].first # NULL /\ f[h[n].first] # NULL THEN f[h[n].first]
  ELSE IF h[n].second # NULL THEN f[h[n].second] ELSE NULL

\* f solves the recursion of seek below n.
Solves(h, S, f, n) == \A m \in below(h)[n] : f[m] = SeekStep(h, S, f, m)

\* The step looks at the children only.
LEMMA SameStep ==
  ASSUME NEW h, NEW S, NEW f, NEW g, NEW n, \A c \in Children(h, n) : f[c] = g[c]
  PROVE  SeekStep(h, S, f, n) = SeekStep(h, S, g, n)
BY DEF SeekStep, Children

\* Solutions agree where both are one.
LEMMA SolutionsAgree ==
  ASSUME NEW h, Forest(h), NEW S, NEW f, NEW g, NEW a \in Nodes, NEW b \in Nodes,
         Solves(h, S, f, a), Solves(h, S, g, b), NEW m \in below(h)[a] \cap below(h)[b]
  PROVE  f[m] = g[m]
<1> DEFINE T == {k \in below(h)[a] \cap below(h)[b] : f[k] # g[k]}
<1>1. Closed(h, below(h)[a]) /\ Closed(h, below(h)[b])
  BY BelowLeast
<1> SUFFICES ASSUME T # {} PROVE FALSE
  OBVIOUS
<1>2. PICK k \in T : Children(h, k) \cap T = {}
  <2>1. T \in SUBSET Nodes
    BY <1>1 DEF Closed
  <2> QED BY <2>1, LowestNode
<1>3. \A c \in Children(h, k) : f[c] = g[c]
  BY <1>1, <1>2 DEF Closed
<1>4. SeekStep(h, S, f, k) = SeekStep(h, S, g, k)
  BY <1>3, SameStep
<1> QED BY <1>2, <1>4 DEF Solves

\* Below every node there is a solution: those below its children, put together.
LEMMA SolutionExists ==
  ASSUME NEW h, Forest(h), NEW S, NEW n \in Nodes
  PROVE  \E f : Solves(h, S, f, n)
<1> DEFINE B == below(h)
           T == {m \in Nodes : ~\E f : Solves(h, S, f, m)}
<1> SUFFICES ASSUME T # {} PROVE FALSE
  OBVIOUS
<1>1. PICK m \in T : Children(h, m) \cap T = {}
  BY LowestNode
<1> DEFINE c1 == h[m].first
           c2 == h[m].second
           f1 == CHOOSE f : Solves(h, S, f, c1)
           f2 == CHOOSE f : Solves(h, S, f, c2)
           one == c1 # NULL
           two == c2 # NULL
           in1(k) == one /\ k \in B[c1]
           in2(k) == two /\ k \in B[c2]
           sub == [k \in Nodes |-> IF in1(k) THEN f1[k] ELSE f2[k]]
           f == [k \in Nodes |-> IF in1(k) \/ in2(k) THEN sub[k] ELSE SeekStep(h, S, sub, m)]
<1>2. /\ one => c1 \in Nodes /\ Solves(h, S, f1, c1)
      /\ two => c2 \in Nodes /\ Solves(h, S, f2, c2)
  <2>1. /\ one => c1 \in Children(h, m)
        /\ two => c2 \in Children(h, m)
    BY DEF Children
  <2> QED BY <1>1, <2>1, ChildrenKnow
<1>3. /\ one => Closed(h, B[c1]) /\ c1 \in B[c1]
      /\ two => Closed(h, B[c2]) /\ c2 \in B[c2]
  BY <1>2, BelowLeast
<1>4. \A k \in B[m] : k \in Nodes /\ (k = m \/ in1(k) \/ in2(k))
  <2>1. B[m] = BelowStep(h, B, m)
    BY <1>1, BelowUnfolds
  <2>2. B[m] \subseteq Nodes
    BY <1>1, BelowLeast DEF Closed
  <2> QED BY <2>1, <2>2 DEF BelowStep
<1>5. ASSUME NEW k, in1(k) PROVE f[k] = SeekStep(h, S, f, k)
  <2>1. k \in Nodes /\ \A c \in Children(h, k) : in1(c) /\ c \in Nodes
    BY <1>3, <1>5 DEF Closed
  <2>2. \A c \in Children(h, k) : f[c] = f1[c]
    BY <2>1
  <2>3. f1[k] = SeekStep(h, S, f1, k)
    BY <1>2, <1>5 DEF Solves
  <2>4. f[k] = f1[k]
    BY <1>5, <2>1
  <2> HIDE DEF f
  <2> QED BY <2>2, <2>3, <2>4, SameStep
<1>6. ASSUME NEW k, in2(k), ~in1(k) PROVE f[k] = SeekStep(h, S, f, k)
  <2>1. k \in Nodes /\ \A c \in Children(h, k) : in2(c) /\ c \in Nodes
    BY <1>3, <1>6 DEF Closed
  <2>2. ASSUME NEW c \in Children(h, k) PROVE f[c] = f2[c]
    <3>1. CASE ~in1(c)
      BY <2>1, <3>1
    <3>2. CASE in1(c)
      <4>1. c \in B[c1] \cap B[c2] /\ one /\ two
        BY <2>1, <3>2
      <4> HIDE DEF f1, f2, c1, c2, one, two, B
      <4>2. f1[c] = f2[c]
        BY <1>2, <4>1, SolutionsAgree DEF B
      <4> QED BY <2>1, <3>2, <4>2
    <3> QED BY <3>1, <3>2
  <2>3. f2[k] = SeekStep(h, S, f2, k)
    BY <1>2, <1>6 DEF Solves
  <2>4. f[k] = f2[k]
    BY <1>6, <2>1
  <2> HIDE DEF f
  <2> QED BY <2>2, <2>3, <2>4, SameStep
<1>7. ASSUME ~in1(m), ~in2(m) PROVE f[m] = SeekStep(h, S, f, m)
  <2>1. \A c \in Children(h, m) : in1(c) \/ in2(c)
    BY <1>3 DEF Children
  <2>2. \A c \in Children(h, m) : c \in Nodes
    BY <1>1, ChildrenKnow
  <2>3. \A c \in Children(h, m) : f[c] = sub[c]
    BY <2>1, <2>2
  <2>4. f[m] = SeekStep(h, S, sub, m)
    BY <1>1, <1>7
  <2> HIDE DEF f, sub
  <2> QED BY <2>3, <2>4, SameStep
<1> HIDE DEF f
<1>8. Solves(h, S, f, m)
  <2> HIDE DEF in1, in2, B
  <2> QED BY <1>4, <1>5, <1>6, <1>7 DEF Solves, B
<1> QED BY <1>1, <1>8

\* seek unfolds.
LEMMA SeekUnfolds ==
  ASSUME NEW h, Forest(h), NEW S
  PROVE  \A n \in Nodes : seek(h, S)[n] = SeekStep(h, S, seek(h, S), n)
<1> DEFINE g == [n \in Nodes |-> CHOOSE f : Solves(h, S, f, n)]
           G == [n \in Nodes |-> g[n][n]]
<1>1. \A n \in Nodes : Solves(h, S, g[n], n)
  BY SolutionExists
<1> HIDE DEF g
<1>2. ASSUME NEW n \in Nodes PROVE G[n] = SeekStep(h, S, G, n)
  <2>1. n \in below(h)[n] /\ Closed(h, below(h)[n])
    BY BelowLeast
  <2>2. G[n] = SeekStep(h, S, g[n], n)
    BY <1>1, <2>1 DEF Solves
  <2>3. ASSUME NEW c \in Children(h, n) PROVE G[c] = g[n][c]
    <3>1. c \in Nodes /\ c \in below(h)[n]
      BY <2>1, ChildrenKnow DEF Closed
    <3>2. c \in below(h)[c]
      BY <3>1, BelowLeast
    <3>3. g[c][c] = g[n][c]
      BY <1>1, <3>1, <3>2, SolutionsAgree
    <3> QED BY <3>1, <3>3
  <2> HIDE DEF G
  <2> QED BY <2>2, <2>3, SameStep
<1>3. G = [n \in Nodes |-> SeekStep(h, S, G, n)]
  BY <1>2
<1> HIDE DEF G
<1>4. seek(h, S) = [n \in Nodes |-> SeekStep(h, S, seek(h, S), n)]
  BY <1>3, Zenon DEF seek, SeekStep
<1> QED BY <1>4

\* A search returns a node of the subtree that is in the set, when there is one, and
\* NULL when there is none.
LEMMA SeekFinds ==
  ASSUME NEW h, Forest(h), NEW S, NEW n \in Nodes
  PROVE  IF S \cap below(h)[n] = {} THEN seek(h, S)[n] = NULL
         ELSE seek(h, S)[n] \in S \cap below(h)[n]
<1> DEFINE B == below(h)
           s == seek(h, S)
           ok(m) == IF S \cap B[m] = {} THEN s[m] = NULL ELSE s[m] \in S \cap B[m]
           T == {m \in Nodes : ~ok(m)}
<1> SUFFICES ASSUME T # {} PROVE FALSE
  OBVIOUS
<1>1. PICK m \in T : Children(h, m) \cap T = {}
  BY LowestNode
<1>2. B[m] = BelowStep(h, B, m)
  BY <1>1, BelowUnfolds
<1>3. s[m] = SeekStep(h, S, s, m)
  BY <1>1, SeekUnfolds
<1>4. \A c \in Children(h, m) : ok(c) /\ B[c] \subseteq Nodes
  BY <1>1, ChildrenKnow, BelowLeast DEF Closed
<1> HIDE DEF B, s
<1>5. /\ h[m].first # NULL => ok(h[m].first) /\ B[h[m].first] \subseteq Nodes
      /\ h[m].second # NULL => ok(h[m].second) /\ B[h[m].second] \subseteq Nodes
  BY <1>4 DEF Children
<1>6. ok(m)
  BY <1>1, <1>2, <1>3, <1>5, NullAssumption DEF BelowStep, SeekStep
<1> QED BY <1>1, <1>6

\* The same of the searches of tree.c, from the root of a tree.
LEMMA FirstInFinds ==
  ASSUME NEW h, Forest(h), NEW r \in Nodes \cup {NULL}, NEW S \in SUBSET Subtree(h, r)
  PROVE  IF S = {} THEN FirstIn(h, r, S) = NULL ELSE FirstIn(h, r, S) \in S
<1>1. CASE r = NULL
  BY <1>1 DEF FirstIn, Subtree
<1>2. CASE r # NULL
  <2>1. S \cap below(h)[r] = S
    BY <1>2 DEF Subtree
  <2> QED BY <1>2, <2>1, SeekFinds DEF FirstIn
<1> QED BY <1>1, <1>2

-----------------------------------------------------------------------------
(* The surgery.                                                            *)

\* n is an allocated leaf of h.
LeafNode(h, n) == n \in Nodes /\ h[n].type # "NONE" /\ h[n].client # NULL

\* The roots of a heap.
IsRoot(h, n) == n \in Nodes /\ h[n].type = "ROOT"

\* Two heaps that differ in flags only.
SameShape(h, k) ==
  \A m \in Nodes :
    /\ k[m].type = h[m].type     /\ k[m].client = h[m].client
    /\ k[m].parent = h[m].parent /\ k[m].first = h[m].first
    /\ k[m].second = h[m].second /\ k[m].leaked = h[m].leaked

-----------------------------------------------------------------------------
(* What the searches of tree.c return.                                     *)

\* find_node_by_window_id returns a leaf of the tree that holds the window.
LEMMA FindResult ==
  ASSUME NEW h, Good(h), NEW r \in Nodes \cup {NULL}, NEW w,
         find_node_by_window_id(h, r, w) # NULL
  PROVE  LET n == find_node_by_window_id(h, r, w)
         IN  n \in Subtree(h, r) /\ LeafNode(h, n) /\ h[n].client = w
<1>1. find_node_by_window_id(h, r, w)
        \in {n \in Subtree(h, r) : h[n].client # NULL /\ h[n].client = w}
  BY GoodIsForest, FirstInFinds DEF find_node_by_window_id
<1> QED BY <1>1, SubtreeNodes DEF LeafNode, Good, WellLinked

\* The leaves of a tree are allocated nodes that hold a window.
LEMMA LeafSearchResult ==
  ASSUME NEW h, Good(h), NEW r \in Nodes \cup {NULL}, NEW n \in Leaves(h, r)
  PROVE  n \in Subtree(h, r) /\ LeafNode(h, n)
<1>1. n \in Subtree(h, r) /\ h[n].client # NULL  BY DEF Leaves, IsLeaf
<1> QED BY <1>1, SubtreeNodes DEF LeafNode, Good, WellLinked

\* The focused node, when there is one, is a leaf of the tree.
LEMMA FocusedResult ==
  ASSUME NEW h, Good(h), NEW r \in Nodes \cup {NULL}, get_focused_node(h, r) # NULL
  PROVE  /\ get_focused_node(h, r) \in Subtree(h, r) /\ LeafNode(h, get_focused_node(h, r))
         /\ get_focused_node(h, r) \in Leaves(h, r)
<1>1. {n \in Leaves(h, r) : h[n].is_focused} \in SUBSET Subtree(h, r)  BY DEF Leaves
<1>2. get_focused_node(h, r) \in Leaves(h, r)
  BY <1>1, GoodIsForest, FirstInFinds DEF get_focused_node
<1> QED BY <1>2, LeafSearchResult

\* find_any_leaf returns a leaf of the tree that does not float, when there is one.
LEMMA AnyLeafResult ==
  ASSUME NEW h, Good(h), NEW r \in Nodes \cup {NULL}, NEW fl, find_any_leaf(h, r, fl) # NULL
  PROVE  /\ find_any_leaf(h, r, fl) \in Subtree(h, r) /\ LeafNode(h, find_any_leaf(h, r, fl))
         /\ find_any_leaf(h, r, fl) \in Leaves(h, r)
<1>1. {n \in Leaves(h, r) : h[n].client \notin fl} \in SUBSET Subtree(h, r)  BY DEF Leaves
<1>2. find_any_leaf(h, r, fl) \in Leaves(h, r)
  BY <1>1, GoodIsForest, FirstInFinds DEF find_any_leaf
<1> QED BY <1>2, LeafSearchResult

-----------------------------------------------------------------------------
(* Flags.                                                                  *)

\* A change of flags keeps a heap well linked and its roots the same.
LEMMA ShapeGood ==
  ASSUME NEW h, Good(h), NEW k \in Heaps, SameShape(h, k)
  PROVE  Good(k) /\ \A n : IsRoot(k, n) <=> IsRoot(h, n)
<1>1. WellLinked(k)
  <2> SUFFICES ASSUME NEW n \in Nodes
               PROVE  LET x == k[n]
                      IN  IF x.type = "NONE"
                          THEN x.client = NULL /\ x.parent = NULL /\ x.first = NULL /\ x.second = NULL
                          ELSE /\ x.first = NULL <=> x.second = NULL
                               /\ x.first # NULL => /\ x.first # x.second
                                                    /\ k[x.first].parent = n
                                                    /\ k[x.second].parent = n
                               /\ x.parent # NULL => n \in Children(k, x.parent)
                               /\ x.client = NULL <=> x.first # NULL
                               /\ x.type = "ROOT" <=> x.parent = NULL
                               /\ x.type = "INTERNAL" => x.first # NULL
                               /\ x.type = "EXTERNAL" => x.first = NULL
    BY DEF WellLinked
  <2>1. h[n] \in NodeRecords  BY DEF Good, Heaps
  <2> QED BY <2>1 DEF Good, WellLinked, SameShape, Children, NodeRecords
<1>2. Acyclic(k)
  <2> SUFFICES ASSUME NEW S \in SUBSET Nodes, S # {} PROVE \E n \in S : k[n].parent \notin S
    BY DEF Acyclic
  <2>1. \E n \in S : h[n].parent \notin S  BY DEF Good, Acyclic
  <2> QED BY <2>1 DEF SameShape
<1> QED BY <1>1, <1>2 DEF Good, SameShape, IsRoot

\* Each operator that sets or clears flags changes nothing else.
LEMMA FlagShapes ==
  ASSUME NEW h \in Heaps, NEW r, NEW n, NEW l, NEW fl, NEW flag \in BOOLEAN
  PROVE  /\ set_focused(h, n, flag) \in Heaps /\ SameShape(h, set_focused(h, n, flag))
         /\ update_focus(h, r, n) \in Heaps   /\ SameShape(h, update_focus(h, r, n))
         /\ master_clean_up(h, r) \in Heaps   /\ SameShape(h, master_clean_up(h, r))
         /\ master_layout(h, r, n, fl) \in Heaps /\ SameShape(h, master_layout(h, r, n, fl))
         /\ arrange_tree(h, r, l, fl) \in Heaps /\ SameShape(h, arrange_tree(h, r, l, fl))
<1>1. /\ set_focused(h, n, flag) \in Heaps
      /\ SameShape(h, set_focused(h, n, flag))
  BY DEF set_focused, SameShape, Heaps, NodeRecords
<1>2. /\ update_focus(h, r, n) \in Heaps
      /\ SameShape(h, update_focus(h, r, n))
  BY DEF update_focus, SameShape, Heaps, NodeRecords
<1>3. /\ master_clean_up(h, r) \in Heaps
      /\ SameShape(h, master_clean_up(h, r))
  BY DEF master_clean_up, SameShape, Heaps, NodeRecords
<1>4. ASSUME NEW m
      PROVE  master_layout(h, r, m, fl) \in Heaps /\ SameShape(h, master_layout(h, r, m, fl))
  <2>1. ASSUME NEW q
        PROVE  /\ [h EXCEPT ![q].is_master = TRUE] \in Heaps
               /\ SameShape(h, [h EXCEPT ![q].is_master = TRUE])
    BY DEF SameShape, Heaps, NodeRecords
  <2>2. SameShape(h, h)  BY DEF SameShape
  <2> QED BY <2>1, <2>2 DEF master_layout
<1>5. arrange_tree(h, r, l, fl) \in Heaps /\ SameShape(h, arrange_tree(h, r, l, fl))
  <2>1. SameShape(h, h)  BY DEF SameShape
  <2> QED BY <2>1, <1>4 DEF arrange_tree
<1> QED BY <1>1, <1>2, <1>3, <1>4, <1>5

-----------------------------------------------------------------------------
(* Surgery.                                                                *)

\* The wiring of one node, the body of WellLinked.
Wired(h, n) ==
  LET x == h[n]
  IN  IF x.type = "NONE"
      THEN x.client = NULL /\ x.parent = NULL /\ x.first = NULL /\ x.second = NULL
      ELSE /\ x.first = NULL <=> x.second = NULL
           /\ x.first # NULL => /\ x.first # x.second
                                /\ h[x.first].parent = n
                                /\ h[x.second].parent = n
           /\ x.parent # NULL => \/ n = h[x.parent].first
                                 \/ n = h[x.parent].second
           /\ x.client = NULL <=> x.first # NULL
           /\ x.type = "ROOT" <=> x.parent = NULL
           /\ x.type = "INTERNAL" => x.first # NULL
           /\ x.type = "EXTERNAL" => x.first = NULL

\* A heap is well linked when each node is.
LEMMA WiredIsWellLinked ==
  ASSUME NEW h \in Heaps
  PROVE  WellLinked(h) <=> \A n \in Nodes : Wired(h, n)
BY NullAssumption DEF WellLinked, Wired, Children, Heaps, NodeRecords

\* The records create_node makes, with the flags its callers set, are node records.
LEMMA NewNode ==
  ASSUME NEW w \in Windows \cup {NULL}, NEW t \in NodeTypes, NEW p \in Nodes \cup {NULL},
         NEW f \in BOOLEAN, NEW b \in BOOLEAN
  PROVE  /\ create_node(w, t, p) \in NodeRecords
         /\ [create_node(w, t, p) EXCEPT !.is_focused = f, !.frect = b] \in NodeRecords
         /\ [create_node(w, t, p) EXCEPT !.frect = b] \in NodeRecords
BY DEF create_node, FreeNode, NodeRecords

\* A node that makes a tree by itself.
LoneRoot(x) ==
  /\ x \in NodeRecords /\ x.type = "ROOT" /\ x.client # NULL
  /\ x.parent = NULL /\ x.first = NULL /\ x.second = NULL

\* The nodes the first window of a desktop is given.
LEMMA NewRoots ==
  ASSUME NEW w \in Windows, NEW f \in BOOLEAN, NEW b \in BOOLEAN
  PROVE  /\ LoneRoot([create_node(w, "ROOT", NULL) EXCEPT !.is_focused = f, !.frect = b])
         /\ LoneRoot([create_node(w, "ROOT", NULL) EXCEPT !.frect = b])
<1>1. w # NULL /\ w \in Windows \cup {NULL} /\ NULL \in Nodes \cup {NULL}  BY NullAssumption
<1>2. "ROOT" \in NodeTypes  BY DEF NodeTypes
<1> DEFINE x == [create_node(w, "ROOT", NULL) EXCEPT !.is_focused = f, !.frect = b]
           y == [create_node(w, "ROOT", NULL) EXCEPT !.frect = b]
<1>3. x \in NodeRecords /\ y \in NodeRecords  BY <1>1, <1>2, NewNode
<1>4. x.type = "ROOT" /\ x.client = w /\ x.parent = NULL /\ x.first = NULL /\ x.second = NULL
  BY DEF create_node, FreeNode
<1>5. y.type = "ROOT" /\ y.client = w /\ y.parent = NULL /\ y.first = NULL /\ y.second = NULL
  BY DEF create_node, FreeNode
<1> HIDE DEF x, y
<1>6. LoneRoot(x) /\ LoneRoot(y)  BY <1>1, <1>3, <1>4, <1>5 DEF LoneRoot
<1> QED BY <1>6 DEF x, y

\* The first window of a desktop: a new root.
LEMMA RootGood ==
  ASSUME NEW h, Good(h), NEW n \in FreeNodes(h), NEW x, LoneRoot(x)
  PROVE  LET k == [h EXCEPT ![n] = x]
         IN  Good(k) /\ \A m \in Nodes : IsRoot(k, m) <=> m = n \/ IsRoot(h, m)
<1> DEFINE k == [h EXCEPT ![n] = x]
<1>1. n \in Nodes /\ h[n].type = "NONE"  BY DEF FreeNodes
<1>2. k[n] = x  BY <1>1 DEF Good, Heaps
<1>3. \A m \in Nodes : m # n => k[m] = h[m]  BY DEF Good, Heaps
<1>4. k \in Heaps  BY <1>1 DEF LoneRoot, Good, Heaps
<1> HIDE DEF k
<1>5. \A m \in Nodes : Wired(h, m)  BY WiredIsWellLinked DEF Good
<1>6. k[n].type = "ROOT" /\ k[n].client # NULL /\ k[n].parent = NULL /\ k[n].first = NULL
      /\ k[n].second = NULL
  BY <1>2 DEF LoneRoot
<1>7. ASSUME NEW m \in Nodes PROVE Wired(k, m)
  <2>1. CASE m = n  BY <2>1, <1>6, NullAssumption DEF Wired
  <2>2. CASE m # n
    <3>1. h[m] \in NodeRecords /\ h[n] \in NodeRecords  BY <1>1 DEF Good, Heaps
    <3>2. h[m].first # n /\ h[m].second # n /\ h[m].parent # n
      BY <1>1, <1>5, <3>1, NullAssumption DEF Wired, NodeRecords
    <3> QED BY <2>2, <3>1, <3>2, <1>3, <1>5 DEF Wired, NodeRecords
  <2> QED BY <2>1, <2>2
<1>8. Acyclic(k)
  <2> SUFFICES ASSUME NEW S \in SUBSET Nodes, S # {} PROVE \E m \in S : k[m].parent \notin S
    BY DEF Acyclic
  <2>1. CASE n \in S  BY <2>1, <1>6, NullAssumption
  <2>2. CASE n \notin S
    <3>1. \E m \in S : h[m].parent \notin S  BY DEF Good, Acyclic
    <3> QED BY <3>1, <2>2, <1>3
  <2> QED BY <2>1, <2>2
<1>10. Good(k)  BY <1>4, <1>7, <1>8, WiredIsWellLinked DEF Good
<1>9. \A m \in Nodes : IsRoot(k, m) <=> m = n \/ IsRoot(h, m)
  BY <1>1, <1>3, <1>6 DEF IsRoot
<1> QED BY <1>9, <1>10 DEF k

\* k is h with the leaf split into the nodes at, which takes its client, and new.
SplitFrom(h, k, leaf, at, new) ==
  /\ k \in Heaps
  /\ k[at].type = "EXTERNAL" /\ k[at].client = h[leaf].client /\ k[at].parent = leaf
  /\ k[at].first = NULL /\ k[at].second = NULL
  /\ k[new].type = "EXTERNAL" /\ k[new].parent = leaf
  /\ k[new].first = NULL /\ k[new].second = NULL
  /\ k[leaf].type = IF h[leaf].type = "ROOT" THEN "ROOT" ELSE "INTERNAL"
  /\ k[leaf].client = NULL /\ k[leaf].parent = h[leaf].parent
  /\ k[leaf].first = at /\ k[leaf].second = new
  /\ \A m \in Nodes \ {at, leaf, new} : k[m] = h[m]

\* insert_node at a leaf n, for a window that has just been given the node new.
LEMMA InsertGood ==
  ASSUME NEW h, Good(h), NEW n, LeafNode(h, n), NEW new \in FreeNodes(h),
         NEW at \in FreeNodes(h), at # new, NEW w \in Windows, NEW b \in BOOLEAN, NEW fl
  PROVE  LET h1 == [h EXCEPT ![new] = [create_node(w, "EXTERNAL", NULL) EXCEPT !.frect = b]]
             k  == insert_node(h1, n, at, new, fl)
         IN  /\ Good(k) /\ \A m \in Nodes : IsRoot(k, m) <=> IsRoot(h, m)
             /\ SplitFrom(h, k, n, at, new) /\ k[new].client = w
<1> DEFINE h1 == [h EXCEPT ![new] = [create_node(w, "EXTERNAL", NULL) EXCEPT !.frect = b]]
           k  == insert_node(h1, n, at, new, fl)
<1>1. /\ n \in Nodes /\ at \in Nodes /\ new \in Nodes
      /\ n # at /\ n # new /\ at # new
      /\ h[at].type = "NONE" /\ h[new].type = "NONE"
      /\ h[n].type # "NONE" /\ h[n].client \in Windows /\ h[n] \in NodeRecords
  BY DEF LeafNode, FreeNodes, Good, Heaps, NodeRecords
<1>2. /\ h1[new] \in NodeRecords /\ h1[new].client = w
      /\ h1[new].first = NULL /\ h1[new].second = NULL
  <2>1. [create_node(w, "EXTERNAL", NULL) EXCEPT !.frect = b] \in NodeRecords
    BY NewNode DEF NodeTypes
  <2>2. /\ [create_node(w, "EXTERNAL", NULL) EXCEPT !.frect = b].client = w
        /\ [create_node(w, "EXTERNAL", NULL) EXCEPT !.frect = b].first = NULL
        /\ [create_node(w, "EXTERNAL", NULL) EXCEPT !.frect = b].second = NULL
    BY DEF create_node, FreeNode
  <2> QED BY <1>1, <2>1, <2>2 DEF Good, Heaps
<1>3. \A m \in Nodes : m # new => h1[m] = h[m]  BY DEF Good, Heaps
<1>4. /\ k[at] \in NodeRecords /\ k[at].type = "EXTERNAL" /\ k[at].client = h[n].client
      /\ k[at].parent = n /\ k[at].first = NULL /\ k[at].second = NULL
  BY <1>1, <1>3 DEF insert_node, create_node, FreeNode, NodeRecords, NodeTypes
<1>5. k[n] = [type |-> IF h[n].type = "ROOT" THEN "ROOT" ELSE "INTERNAL", client |-> NULL,
              parent |-> h[n].parent, first |-> at, second |-> new,
              is_focused |-> FALSE, is_master |-> FALSE, frect |-> h[n].frect,
              leaked |-> h[n].leaked]
  BY <1>1, <1>3 DEF insert_node, NodeRecords
<1>6. /\ k[new] \in NodeRecords /\ k[new].type = "EXTERNAL" /\ k[new].client = w
      /\ k[new].parent = n /\ k[new].first = NULL /\ k[new].second = NULL
  <2>1. k[new] = [h1[new] EXCEPT !.parent = n, !.type = "EXTERNAL"]
    <3> HIDE DEF h1
    <3> QED BY <1>1 DEF insert_node
  <2> HIDE DEF k, h1
  <2> QED BY <2>1, <1>1, <1>2 DEF NodeRecords, NodeTypes
<1>7. \A m \in Nodes : m \notin {at, n, new} => k[m] = h[m]  BY <1>3 DEF insert_node
<1>8. k \in Heaps
  <2>1. k[at] \in NodeRecords  BY <1>4
  <2>2. k[new] \in NodeRecords  BY <1>6
  <2>3. k[n] \in NodeRecords
    <3>1. h[n] \in NodeRecords /\ n \in Nodes  BY <1>1
    <3> HIDE DEF k, h1
    <3> QED BY <3>1, <1>1, <1>5 DEF NodeRecords, NodeTypes
  <2>4. \A m \in Nodes : k[m] \in NodeRecords
    <3> HIDE DEF k, h1
    <3> QED BY <2>1, <2>2, <2>3, <1>7 DEF Good, Heaps
  <2>5. k = [m \in Nodes |-> k[m]]  BY DEF insert_node
  <2> HIDE DEF k, h1
  <2> QED BY <2>4, <2>5 DEF Heaps
<1>9. \A m \in Nodes : Wired(h, m)  BY WiredIsWellLinked DEF Good
<1> HIDE DEF k, h1
<1>10. ASSUME NEW m \in Nodes PROVE Wired(k, m)
  <2>1. CASE m = at  BY <2>1, <1>1, <1>4, <1>5, NullAssumption DEF Wired
  <2>2. CASE m = new  BY <2>2, <1>1, <1>5, <1>6, NullAssumption DEF Wired
  <2>3. CASE m = n
    <3>1. h[n].parent # NULL => h[n].parent \notin {at, n, new} /\ h[n].parent \in Nodes
      BY <1>1, <1>9, NullAssumption DEF Wired, NodeRecords
    <3> QED BY <2>3, <3>1, <1>1, <1>4, <1>5, <1>6, <1>7, <1>9, NullAssumption
            DEF Wired, NodeRecords
  <2>4. CASE m \notin {at, n, new}
    <3>1. h[m] \in NodeRecords  BY DEF Good, Heaps
    <3>2. h[m].first \notin {at, new} /\ h[m].second \notin {at, new}
          /\ h[m].parent \notin {at, new}
      BY <3>1, <1>1, <1>9, NullAssumption DEF Wired, NodeRecords
    <3>3. h[m].parent # n
      BY <3>1, <1>1, <1>9, NullAssumption DEF Wired, NodeRecords
    <3> QED BY <2>4, <3>1, <3>2, <3>3, <1>1, <1>5, <1>7, <1>9, NullAssumption
            DEF Wired, NodeRecords
  <2> QED BY <2>1, <2>2, <2>3, <2>4
<1>11. Acyclic(k)
  <2> SUFFICES ASSUME NEW S \in SUBSET Nodes, S # {}, \A m \in S : k[m].parent \in S
               PROVE  FALSE
    BY DEF Acyclic
  <2> DEFINE T == S \ {at, new}
  <2>1. T # {}  BY <1>1, <1>4, <1>6
  <2>2. PICK m \in T : h[m].parent \notin T  BY <2>1 DEF Good, Acyclic
  <2>3. k[m].parent = h[m].parent  BY <2>2, <1>5, <1>7
  <2>4. h[m].parent \in {at, new}  BY <2>2, <2>3
  <2>5. h[m] \in NodeRecords /\ m \in Nodes  BY <2>2 DEF Good, Heaps
  <2> QED BY <2>4, <2>5, <1>1, <1>9, NullAssumption DEF Wired, NodeRecords
<1>13. Good(k)  BY <1>8, <1>10, <1>11, WiredIsWellLinked DEF Good
<1>12. \A m \in Nodes : IsRoot(k, m) <=> IsRoot(h, m)
  BY <1>1, <1>4, <1>5, <1>6, <1>7 DEF IsRoot
<1>14. SplitFrom(h, k, n, at, new)  BY <1>4, <1>5, <1>6, <1>7, <1>8 DEF SplitFrom
<1> QED BY <1>6, <1>12, <1>13, <1>14 DEF k, h1

\* In a heap without cycles no node is its own parent or grandparent.
LEMMA NoShortCycle ==
  ASSUME NEW h, Acyclic(h), NEW p \in Nodes, NEW s \in Nodes, h[s].parent = p
  PROVE  s # p /\ h[p].parent # s
<1>1. \E m \in {p} : h[m].parent \notin {p}  BY DEF Acyclic
<1>2. \E m \in {p, s} : h[m].parent \notin {p, s}  BY DEF Acyclic
<1> QED BY <1>1, <1>2

\* n is an allocated leaf that hangs nowhere in an otherwise well-linked heap.
Detached(h, n) ==
  /\ h \in Heaps /\ Acyclic(h) /\ n \in Nodes
  /\ h[n].type # "NONE" /\ h[n].client # NULL /\ h[n].parent = NULL
  /\ h[n].first = NULL /\ h[n].second = NULL
  /\ \A m \in Nodes \ {n} : /\ Wired(h, m)
                           /\ h[m].first # n /\ h[m].second # n /\ h[m].parent # n

\* The trees can be walked while a node is detached.
LEMMA DetachedIsForest ==
  ASSUME NEW k, NEW n, Detached(k, n)
  PROVE  Forest(k)
<1> SUFFICES ASSUME NEW m \in Nodes, NEW c \in Children(k, m) PROVE k[c].parent = m
  BY DEF Forest, Detached
<1>1. m # n
  BY DEF Detached, Children
<1>2. Wired(k, m) /\ k[m] \in NodeRecords
  BY <1>1 DEF Detached, Heaps
<1> QED BY <1>2 DEF Children, Wired, NodeRecords

\* k is h with the sibling s in the place of the parent p of n.
SplicedFrom(h, k, n, p, s, g) ==
  /\ k \in Heaps
  /\ k[p] = FreeNode
  /\ k[n].parent = NULL /\ k[n].first = h[n].first /\ k[n].second = h[n].second
  /\ k[n].type = h[n].type /\ k[n].client = h[n].client
  /\ k[s].parent = g /\ k[s].first = h[s].first /\ k[s].second = h[s].second
  /\ k[s].type = IF g = NULL THEN "ROOT" ELSE h[s].type
  /\ k[s].client = h[s].client
  /\ g # NULL =>
       /\ k[g].first = IF h[g].first = p THEN s ELSE h[g].first
       /\ k[g].second = IF h[g].first = p THEN h[g].second ELSE s
       /\ k[g].parent = h[g].parent /\ k[g].type = h[g].type
       /\ k[g].client = h[g].client
  /\ \A m \in Nodes \ {n, p, s, g} : k[m] = h[m]

\* That is what splice makes of a heap.
LEMMA Spliced ==
  ASSUME NEW h \in Heaps, NEW n \in Nodes, NEW p \in Nodes \ {n},
         NEW s \in Nodes \ {n, p}, NEW g, g = NULL \/ g \in Nodes \ {n, p, s}
  PROVE  SplicedFrom(h, splice(h, n, p, s, g), n, p, s, g)
<1> DEFINE k == splice(h, n, p, s, g)
<1>1. h[n] \in NodeRecords /\ h[s] \in NodeRecords /\ (g # NULL => h[g] \in NodeRecords)
  BY DEF Heaps
<1> USE NullAssumption
<1>2. k[p] = FreeNode  BY DEF splice
<1>3. /\ k[n].parent = NULL /\ k[n].first = h[n].first /\ k[n].second = h[n].second
      /\ k[n].type = h[n].type /\ k[n].client = h[n].client /\ k[n] \in NodeRecords
  BY <1>1 DEF splice, NodeRecords
<1>4. /\ k[s].parent = g /\ k[s].first = h[s].first /\ k[s].second = h[s].second
      /\ k[s].type = IF g = NULL THEN "ROOT" ELSE h[s].type
      /\ k[s].client = h[s].client /\ k[s] \in NodeRecords
  <2>1. k[s] = [h[s] EXCEPT !.parent = g, !.type = IF g = NULL THEN "ROOT" ELSE @]
    BY DEF splice
  <2>2. (IF g = NULL THEN "ROOT" ELSE h[s].type) \in NodeTypes \cup {"NONE"}
    BY <1>1 DEF NodeRecords, NodeTypes
  <2> HIDE DEF k
  <2> QED BY <2>1, <2>2, <1>1 DEF NodeRecords
<1>5. g # NULL =>
        /\ k[g].first = IF h[g].first = p THEN s ELSE h[g].first
        /\ k[g].second = IF h[g].first = p THEN h[g].second ELSE s
        /\ k[g].parent = h[g].parent /\ k[g].type = h[g].type
        /\ k[g].client = h[g].client /\ k[g] \in NodeRecords
  <2> SUFFICES ASSUME g # NULL PROVE
        /\ k[g].first = IF h[g].first = p THEN s ELSE h[g].first
        /\ k[g].second = IF h[g].first = p THEN h[g].second ELSE s
        /\ k[g].parent = h[g].parent /\ k[g].type = h[g].type
        /\ k[g].client = h[g].client /\ k[g] \in NodeRecords
    OBVIOUS
  <2> DEFINE a == IF h[g].first = p THEN s ELSE h[g].first
             b == IF h[g].first = p THEN h[g].second ELSE s
  <2>1. k[g] = [h[g] EXCEPT !.first = a, !.second = b]
    BY DEF splice
  <2>2. a \in Nodes \cup {NULL} /\ b \in Nodes \cup {NULL}
    BY <1>1 DEF NodeRecords
  <2> HIDE DEF k
  <2>3. k[g].first = a /\ k[g].second = b  BY <2>1, <1>1 DEF NodeRecords
  <2> HIDE DEF a, b
  <2>4. k[g] \in NodeRecords  BY <2>1, <2>2, <1>1 DEF NodeRecords
  <2>5. /\ k[g].parent = h[g].parent /\ k[g].type = h[g].type
        /\ k[g].client = h[g].client
    BY <2>1, <1>1 DEF NodeRecords
  <2> QED BY <2>3, <2>4, <2>5 DEF a, b
<1>6. \A m \in Nodes \ {n, p, s, g} : k[m] = h[m]  BY DEF splice
<1>7. k = [m \in Nodes |-> k[m]]  BY DEF splice
<1>8. FreeNode \in NodeRecords  BY DEF FreeNode, NodeRecords
<1> HIDE DEF k
<1>9. \A m \in Nodes : k[m] \in NodeRecords
  BY <1>2, <1>3, <1>4, <1>5, <1>6, <1>8 DEF Heaps
<1>10. k \in Heaps  BY <1>7, <1>9 DEF Heaps
<1>11. SplicedFrom(h, k, n, p, s, g)
  BY <1>2, <1>3, <1>4, <1>5, <1>6, <1>10 DEF SplicedFrom
<1> QED BY <1>11 DEF k

\* unlink_node takes a leaf out of a well-linked heap.  Its parent p is freed; when p
\* was a root, the sibling s is the root now.
LEMMA UnlinkDetaches ==
  ASSUME NEW h, Good(h), NEW n, LeafNode(h, n)
  PROVE  LET k == unlink_node(h, n)
             p == h[n].parent
         IN  /\ Detached(k, n) /\ k[n].client = h[n].client
             /\ p # NULL => get_sibling(h, n) \in Nodes \ {n, p}
             /\ \A m \in Nodes \ {n} : IsRoot(k, m) <=>
                  \/ IsRoot(h, m) /\ m # p
                  \/ p # NULL /\ h[p].parent = NULL /\ m = get_sibling(h, n)
             /\ p = NULL => k = h
             /\ p # NULL => /\ SplicedFrom(h, k, n, p, get_sibling(h, n), h[p].parent)
                            /\ p \in Nodes \ {n} /\ h[p].client = NULL
                            /\ h[get_sibling(h, n)].parent = p
<1> DEFINE k == unlink_node(h, n)
           p == h[n].parent
           s == get_sibling(h, n)
           g == h[p].parent
<1>1. /\ n \in Nodes /\ h[n].type # "NONE" /\ h[n].client \in Windows
      /\ h \in Heaps /\ \A m \in Nodes : Wired(h, m) /\ h[m] \in NodeRecords
  BY WiredIsWellLinked DEF LeafNode, Good, Heaps, NodeRecords
<1>2. h[n].first = NULL /\ h[n].second = NULL  BY <1>1, NullAssumption DEF Wired
<1>3. CASE p = NULL
  <2>1. k = h  BY <1>3 DEF unlink_node
  <2>2. ASSUME NEW m \in Nodes \ {n}
        PROVE  Wired(h, m) /\ h[m].first # n /\ h[m].second # n /\ h[m].parent # n
    BY <1>1, <1>2, <1>3, NullAssumption DEF Wired, NodeRecords
  <2>3. Acyclic(h) /\ h[n].client # NULL  BY <1>1, NullAssumption DEF Good
  <2> HIDE DEF k
  <2>5. Detached(k, n)  BY <2>1, <2>2, <2>3, <1>1, <1>2, <1>3 DEF Detached
  <2>4. \A m \in Nodes \ {n} : m # p  BY <1>3, NullAssumption
  <2> QED BY <2>1, <2>4, <2>5, <1>3 DEF k
<1>4. CASE p # NULL
  <2>1. /\ p \in Nodes /\ p # n /\ s \in Nodes /\ s # n /\ s # p
        /\ h[p].type # "NONE" /\ h[p].client = NULL
        /\ \/ h[p].first = n /\ h[p].second = s
           \/ h[p].first = s /\ h[p].second = n
    <3>1. p \in Nodes /\ (n = h[p].first \/ n = h[p].second)
      BY <1>1, <1>4 DEF Wired, NodeRecords
    <3>2. p # n  BY <3>1, <1>1, <1>2, NullAssumption
    <3>3. h[p].type # "NONE" /\ h[p].first # NULL
      BY <3>1, <1>1, NullAssumption DEF Wired
    <3>4. h[p].first # h[p].second /\ h[h[p].first].parent = p /\ h[h[p].second].parent = p
          /\ h[p].second # NULL /\ h[p].client = NULL
      BY <3>1, <3>3, <1>1 DEF Wired
    <3>5. h[p].first \in Nodes /\ h[p].second \in Nodes
      BY <3>1, <3>3, <3>4, <1>1 DEF NodeRecords
    <3>6. h[p].first # p /\ h[p].second # p  BY <3>1, <3>4, <3>5, NoShortCycle DEF Good
    <3> QED BY <3>1, <3>2, <3>3, <3>4, <3>5, <3>6 DEF get_sibling
  <2>2. h[s].type # "NONE" /\ h[s].parent = p /\ h[s] \in NodeRecords /\ h[n] \in NodeRecords
    BY <2>1, <1>1, <1>4, NullAssumption DEF Wired
  <2>3. ASSUME g # NULL
        PROVE  /\ g \in Nodes \ {n, p, s} /\ h[g].type # "NONE" /\ h[g] \in NodeRecords
               /\ h[g].first = p \/ h[g].second = p
               /\ h[g].first # NULL /\ h[g].second # NULL
               /\ h[g].first # h[g].second
    <3>1. g \in Nodes /\ (h[g].first = p \/ h[g].second = p)
      BY <2>3, <2>1, <1>1 DEF Wired, NodeRecords
    <3>2. g # n  BY <3>1, <2>1, <1>2, NullAssumption
    <3>3. g # s /\ g # p  BY <3>1, <2>1, <2>2, NoShortCycle DEF Good
    <3>4. h[g].type # "NONE" /\ h[g].first # NULL /\ h[g].second # NULL
          /\ h[g].first # h[g].second /\ h[g] \in NodeRecords
      BY <3>1, <2>1, <1>1, NullAssumption DEF Wired
    <3> QED BY <3>1, <3>2, <3>3, <3>4
  <2>4. k = splice(h, n, p, s, g)  BY <1>4 DEF unlink_node
  <2> HIDE DEF k, p, s, g
  <2>5. SplicedFrom(h, k, n, p, s, g)
    <3>1. g = NULL \/ g \in Nodes \ {n, p, s}  BY <2>3
    <3>2. p \in Nodes \ {n} /\ s \in Nodes \ {n, p}  BY <2>1
    <3> QED BY <3>1, <3>2, <2>4, <1>1, Spliced
  <2>6. Acyclic(k)
    <3> SUFFICES ASSUME NEW S \in SUBSET Nodes, S # {}, \A m \in S : k[m].parent \in S
                 PROVE  FALSE
      BY DEF Acyclic
    <3> DEFINE T == IF s \in S THEN S \cup {p} ELSE S
    <3>1. n \notin S /\ p \notin S  BY <2>5, NullAssumption DEF SplicedFrom, FreeNode
    <3>2. T \in SUBSET Nodes /\ T # {}  BY <2>1
    <3>3. PICK m \in T : h[m].parent \notin T  BY <3>2 DEF Good, Acyclic
    <3>4. CASE m = p
      <4>1. s \in S  BY <3>4, <3>1, <3>3
      <4>2. k[s].parent = g  BY <2>5 DEF SplicedFrom
      <4> QED BY <4>1, <4>2, <3>3, <3>4 DEF g
    <3>5. CASE m = s  BY <3>5, <3>3, <3>1, <2>1, <2>2
    <3>6. CASE m \notin {p, s}
      <4>1. m \in S  BY <3>6, <3>3
      <4>2. k[m].parent = h[m].parent
        BY <4>1, <3>6, <3>1, <2>5, NullAssumption DEF SplicedFrom
      <4> QED BY <4>1, <4>2, <3>3
    <3> QED BY <3>4, <3>5, <3>6
  <2>7. ASSUME NEW m \in Nodes \ {n}
        PROVE  Wired(k, m) /\ k[m].first # n /\ k[m].second # n /\ k[m].parent # n
    <3>1. CASE m = p  BY <3>1, <2>5, <1>1, NullAssumption DEF SplicedFrom, FreeNode, Wired
    <3>2. CASE m = s
      <4>1. /\ h[s].first # NULL => h[s].first \in Nodes \ {n, p, s}
            /\ h[s].second # NULL => h[s].second \in Nodes \ {n, p, s}
        BY <2>1, <2>2, <2>3, <1>1, NoShortCycle DEF Good, Wired, NodeRecords, g
      <4>2. /\ h[s].first # NULL => k[h[s].first].parent = s
            /\ h[s].second # NULL => k[h[s].second].parent = s
        BY <4>1, <2>1, <2>2, <2>5, <1>1, NullAssumption DEF SplicedFrom, Wired
      <4>3. h[s].type # "ROOT"  BY <2>1, <2>2, <1>1, <1>4 DEF Wired
      <4>4. g # NULL => s = k[g].first \/ s = k[g].second  BY <2>3, <2>5 DEF SplicedFrom
      <4> QED BY <3>2, <4>1, <4>2, <4>3, <4>4, <2>1, <2>2, <2>3, <2>5, <1>1, NullAssumption
              DEF SplicedFrom, Wired
    <3>3. CASE m = g
      <4>1. g # NULL  BY <3>3, NullAssumption
      <4>2. PICK o \in Nodes \ {n, p, s} :
              /\ h[o].parent = g
              /\ \/ h[g].first = p /\ h[g].second = o
                 \/ h[g].first = o /\ h[g].second = p
        BY <4>1, <2>1, <2>2, <2>3, <1>1 DEF Wired, NodeRecords, p
      <4>3. k[o].parent = g /\ k[s].parent = g
        BY <4>1, <4>2, <2>3, <2>5, NullAssumption DEF SplicedFrom
      <4>4. /\ \/ k[g].first = o /\ k[g].second = s
               \/ k[g].first = s /\ k[g].second = o
            /\ k[g].parent = h[g].parent /\ k[g].type = h[g].type /\ k[g].client = h[g].client
        BY <4>1, <4>2, <2>5 DEF SplicedFrom
      <4>5. h[g].parent # NULL =>
              /\ h[g].parent \in Nodes \ {n, p, g}
              /\ g = k[h[g].parent].first \/ g = k[h[g].parent].second
        <5> SUFFICES ASSUME h[g].parent # NULL
                     PROVE  /\ h[g].parent \in Nodes \ {n, p, g}
                            /\ g = k[h[g].parent].first \/ g = k[h[g].parent].second
          OBVIOUS
        <5>1. /\ h[g].parent \in Nodes
              /\ g = h[h[g].parent].first \/ g = h[h[g].parent].second
          BY <4>1, <2>3, <1>1 DEF Wired, NodeRecords
        <5>2. h[g].parent # n /\ h[g].parent # p
          BY <5>1, <4>1, <2>1, <2>3, <1>1, <1>2, NullAssumption
        <5>3. h[g].parent # g  BY <4>1, <2>3, <5>1, NoShortCycle DEF Good
        <5> QED BY <5>1, <5>2, <5>3, <2>5 DEF SplicedFrom
      <4> QED BY <3>3, <4>1, <4>2, <4>3, <4>4, <4>5, <2>1, <2>3, <1>1, NullAssumption
              DEF Wired
    <3>4. CASE m \notin {p, s, g}
      <4>1. k[m] = h[m] /\ h[m] \in NodeRecords /\ Wired(h, m)
        BY <3>4, <2>5, <1>1 DEF SplicedFrom
      <4>2. h[m].first \notin {n, p, s} /\ h[m].second \notin {n, p, s}
        BY <3>4, <4>1, <2>1, <2>2, <1>1, NullAssumption DEF Wired, NodeRecords, g, p
      <4>3. h[m].parent \notin {n, p}
        BY <3>4, <4>1, <2>1, <1>1, <1>2, NullAssumption DEF Wired, NodeRecords
      <4>4. ASSUME NEW c \in Nodes, c = h[m].first \/ c = h[m].second
            PROVE  k[c].parent = h[c].parent
        BY <4>4, <4>2, <2>5, NullAssumption DEF SplicedFrom
      <4>5. h[m].parent # NULL => /\ h[m].parent \in Nodes
                                  /\ \/ m = k[h[m].parent].first
                                     \/ m = k[h[m].parent].second
        BY <3>4, <4>1, <4>3, <2>3, <2>5, NullAssumption DEF SplicedFrom, Wired, NodeRecords
      <4>6. h[m].first # NULL => h[m].first \in Nodes /\ h[m].second \in Nodes
        BY <4>1, NullAssumption DEF Wired, NodeRecords
      <4> QED BY <4>1, <4>2, <4>3, <4>4, <4>5, <4>6 DEF Wired
    <3> QED BY <3>1, <3>2, <3>3, <3>4
  <2>8. /\ k[n].type # "NONE" /\ k[n].client # NULL /\ k[n].parent = NULL
        /\ k[n].first = NULL /\ k[n].second = NULL /\ k[n].client = h[n].client
    BY <2>5, <1>1, <1>2, NullAssumption DEF SplicedFrom
  <2>9. Detached(k, n)  BY <2>5, <2>6, <2>7, <2>8, <1>1 DEF Detached, SplicedFrom
  <2>10. ASSUME NEW m \in Nodes \ {n}
         PROVE  IsRoot(k, m) <=> \/ IsRoot(h, m) /\ m # p
                                 \/ p # NULL /\ h[p].parent = NULL /\ m = s
    <3>1. h[s].type # "ROOT"  BY <2>1, <2>2, <1>1, <1>4 DEF Wired
    <3>2. (h[p].parent = NULL) <=> (g = NULL)  BY DEF g
    <3> QED BY <3>1, <3>2, <2>3, <2>5, <1>4, NullAssumption DEF SplicedFrom, FreeNode, IsRoot
  <2> QED BY <2>1, <2>2, <2>5, <2>8, <2>9, <2>10, <1>4 DEF k, p, s, g
<1> QED BY <1>3, <1>4

\* The node n of k, and nothing else, is out of use in j.
Gone(k, j, n) ==
  /\ j \in Heaps
  /\ \A m \in Nodes \ {n} : j[m] = k[m]
  /\ j[n].type = "NONE" /\ j[n].client = NULL /\ j[n].parent = NULL
  /\ j[n].first = NULL /\ j[n].second = NULL

\* Freeing a node puts it out of use, and so does leaking it.
LEMMA FreeGoes ==
  ASSUME NEW k \in Heaps, NEW n \in Nodes
  PROVE  Gone(k, free_node(k, n), n) /\ Gone(k, leak_node(k, n), n)
<1>1. k[n].client \in Windows \cup {NULL}  BY DEF Heaps, NodeRecords
<1> DEFINE x == [FreeNode EXCEPT !.leaked = k[n].client]
<1>2. FreeNode \in NodeRecords  BY DEF FreeNode, NodeRecords
<1>3. x \in NodeRecords /\ x.type = "NONE" /\ x.client = NULL /\ x.parent = NULL
      /\ x.first = NULL /\ x.second = NULL
  BY <1>1, <1>2 DEF FreeNode, NodeRecords
<1>4. Gone(k, free_node(k, n), n)  BY <1>2 DEF Gone, free_node, FreeNode, Heaps
<1>5. leak_node(k, n) = [k EXCEPT ![n] = x]  BY DEF leak_node
<1> HIDE DEF x
<1>6. Gone(k, leak_node(k, n), n)  BY <1>3, <1>5 DEF Gone, Heaps
<1> QED BY <1>4, <1>6

\* When a detached leaf is out of use the heap is well linked again.
LEMMA FreeDetached ==
  ASSUME NEW k, NEW n, Detached(k, n), NEW j, Gone(k, j, n)
  PROVE  Good(j) /\ \A m \in Nodes : IsRoot(j, m) <=> IsRoot(k, m) /\ m # n
<1>1. n \in Nodes /\ k \in Heaps /\ Gone(k, j, n)  BY DEF Detached
<1>2. j \in Heaps  BY <1>1 DEF Gone
<1>3. ASSUME NEW m \in Nodes PROVE Wired(j, m)
  <2>1. CASE m = n  BY <2>1, <1>1 DEF Gone, Wired
  <2>2. CASE m # n
    <3>1. /\ j[m] = k[m] /\ k[m] \in NodeRecords /\ Wired(k, m)
          /\ k[m].first # n /\ k[m].second # n /\ k[m].parent # n
      BY <2>2, <1>1 DEF Gone, Detached, Heaps
    <3> QED BY <3>1, <1>1, NullAssumption DEF Gone, Wired, NodeRecords
  <2> QED BY <2>1, <2>2
<1>4. Acyclic(j)
  <2> SUFFICES ASSUME NEW S \in SUBSET Nodes, S # {} PROVE \E m \in S : j[m].parent \notin S
    BY DEF Acyclic
  <2>1. PICK m \in S : k[m].parent \notin S  BY DEF Detached, Acyclic
  <2>2. j[n].parent = NULL /\ NULL \notin S  BY <1>1, NullAssumption DEF Gone
  <2> QED BY <2>1, <2>2, <1>1 DEF Gone
<1>5. Good(j)  BY <1>2, <1>3, <1>4, WiredIsWellLinked DEF Good
<1>6. \A m \in Nodes : IsRoot(j, m) <=> IsRoot(k, m) /\ m # n
  BY <1>1 DEF Gone, IsRoot
<1> QED BY <1>5, <1>6

\* A detached leaf becomes the root of a tree of its own.
LEMMA RootDetached ==
  ASSUME NEW k, NEW n, Detached(k, n)
  PROVE  LET j == [k EXCEPT ![n].type = "ROOT"]
         IN  Good(j) /\ \A m \in Nodes : IsRoot(j, m) <=> IsRoot(k, m) \/ m = n
<1> DEFINE j == [k EXCEPT ![n].type = "ROOT"]
<1>1. /\ k[n] \in NodeRecords /\ n \in Nodes /\ k[n].first = NULL /\ k[n].second = NULL
      /\ k[n].client # NULL /\ k[n].parent = NULL
  BY DEF Detached, Heaps
<1>2. /\ j[n].type = "ROOT" /\ j[n].first = NULL /\ j[n].second = NULL
      /\ j[n].parent = NULL /\ j[n].client = k[n].client
  BY <1>1 DEF Detached, Heaps, NodeRecords
<1>3. \A m \in Nodes \ {n} : j[m] = k[m]  BY DEF Detached, Heaps
<1>4. j \in Heaps  BY DEF Detached, Heaps, NodeRecords, NodeTypes
<1> HIDE DEF j
<1>5. ASSUME NEW m \in Nodes PROVE Wired(j, m)
  <2>1. CASE m = n  BY <2>1, <1>1, <1>2 DEF Wired
  <2>2. CASE m # n
    <3>1. /\ j[m] = k[m] /\ k[m] \in NodeRecords /\ Wired(k, m)
          /\ k[m].first # n /\ k[m].second # n /\ k[m].parent # n
      BY <2>2, <1>3 DEF Detached, Heaps
    <3> QED BY <3>1, <1>3, NullAssumption DEF Wired, NodeRecords
  <2> QED BY <2>1, <2>2
<1>6. Acyclic(j)
  <2> SUFFICES ASSUME NEW S \in SUBSET Nodes, S # {} PROVE \E m \in S : j[m].parent \notin S
    BY DEF Acyclic
  <2>1. PICK m \in S : k[m].parent \notin S  BY DEF Detached, Acyclic
  <2> QED BY <2>1, <1>1, <1>2, <1>3
<1>7. Good(j)  BY <1>4, <1>5, <1>6, WiredIsWellLinked DEF Good
<1>8. \A m \in Nodes : IsRoot(j, m) <=> IsRoot(k, m) \/ m = n
  BY <1>1, <1>2, <1>3 DEF IsRoot
<1> QED BY <1>7, <1>8 DEF j

\* A detached leaf n hung next to an allocated leaf of another tree.
LEMMA HungGood ==
  ASSUME NEW k, NEW n, Detached(k, n), NEW leaf, LeafNode(k, leaf), leaf # n,
         NEW at \in FreeNodes(k), NEW j, SplitFrom(k, j, leaf, at, n),
         j[n].client = k[n].client
  PROVE  Good(j) /\ \A m \in Nodes : IsRoot(j, m) <=> IsRoot(k, m) /\ m # n
<1>1. /\ n \in Nodes /\ at \in Nodes /\ leaf \in Nodes
      /\ n # at /\ n # leaf /\ at # leaf /\ k \in Heaps
      /\ k[at].type = "NONE" /\ k[leaf].type # "NONE"
      /\ k[leaf].client \in Windows /\ k[n].client \in Windows
      /\ k[n].first = NULL /\ k[n].second = NULL
  BY DEF LeafNode, FreeNodes, Detached, Heaps, NodeRecords
<1>2. /\ j[at].type = "EXTERNAL" /\ j[at].client = k[leaf].client
      /\ j[at].parent = leaf /\ j[at].first = NULL /\ j[at].second = NULL
  BY DEF SplitFrom
<1>3. /\ j[leaf].type = IF k[leaf].type = "ROOT" THEN "ROOT" ELSE "INTERNAL"
      /\ j[leaf].client = NULL /\ j[leaf].parent = k[leaf].parent
      /\ j[leaf].first = at /\ j[leaf].second = n
  BY DEF SplitFrom
<1>4. /\ j[n].type = "EXTERNAL" /\ j[n].client = k[n].client
      /\ j[n].parent = leaf /\ j[n].first = NULL /\ j[n].second = NULL
  BY DEF SplitFrom
<1>5. j \in Heaps /\ \A m \in Nodes : m \notin {at, leaf, n} => j[m] = k[m]
  BY DEF SplitFrom
<1>6. \A m \in Nodes \ {n} : /\ Wired(k, m) /\ k[m] \in NodeRecords
                              /\ k[m].first # n /\ k[m].second # n /\ k[m].parent # n
  BY DEF Detached, Heaps
<1>7. k[leaf].first = NULL /\ k[leaf].second = NULL
  BY <1>1, <1>6, NullAssumption DEF Wired
<1>8. ASSUME NEW m \in Nodes PROVE Wired(j, m)
  <2>1. CASE m = at  BY <2>1, <1>1, <1>2, <1>3, NullAssumption DEF Wired
  <2>2. CASE m = n  BY <2>2, <1>1, <1>3, <1>4, NullAssumption DEF Wired
  <2>3. CASE m = leaf
    <3>1. k[leaf].parent # NULL => k[leaf].parent \notin {at, leaf, n}
                                   /\ k[leaf].parent \in Nodes
      BY <1>1, <1>6, <1>7, NullAssumption DEF Wired, NodeRecords
    <3> QED BY <2>3, <3>1, <1>1, <1>2, <1>3, <1>4, <1>5, <1>6, NullAssumption
            DEF Wired, NodeRecords
  <2>4. CASE m \notin {at, leaf, n}
    <3>1. k[m] \in NodeRecords /\ j[m] = k[m] /\ Wired(k, m)  BY <2>4, <1>5, <1>6
    <3>2. k[m].first \notin {at, n} /\ k[m].second \notin {at, n}
          /\ k[m].parent \notin {at, n}
      BY <2>4, <3>1, <1>1, <1>6, NullAssumption DEF Wired, NodeRecords
    <3>3. k[m].parent # leaf  BY <2>4, <3>1, <1>1, <1>7, NullAssumption DEF Wired
    <3> QED BY <2>4, <3>1, <3>2, <3>3, <1>1, <1>3, <1>5, NullAssumption
            DEF Wired, NodeRecords
  <2> QED BY <2>1, <2>2, <2>3, <2>4
<1>9. Acyclic(j)
  <2> SUFFICES ASSUME NEW S \in SUBSET Nodes, S # {}, \A m \in S : j[m].parent \in S
               PROVE  FALSE
    BY DEF Acyclic
  <2> DEFINE T == S \ {at, n}
  <2>1. T # {}  BY <1>1, <1>2, <1>4
  <2>2. PICK m \in T : k[m].parent \notin T  BY <2>1 DEF Detached, Acyclic
  <2>3. j[m].parent = k[m].parent  BY <2>2, <1>3, <1>5
  <2>4. k[m].parent \in {at, n}  BY <2>2, <2>3
  <2>5. m \in Nodes \ {n}  BY <2>2
  <2> QED BY <2>4, <2>5, <1>1, <1>6, NullAssumption DEF Wired
<1>10. Good(j)  BY <1>5, <1>8, <1>9, WiredIsWellLinked DEF Good
<1>11. \A m \in Nodes : IsRoot(j, m) <=> IsRoot(k, m) /\ m # n
  BY <1>1, <1>2, <1>3, <1>4, <1>5 DEF IsRoot
<1> QED BY <1>10, <1>11

\* What there is of the leaf, the new node and the detached one before it is hung.
LEMMA BeforeHanging ==
  ASSUME NEW k, NEW n, Detached(k, n), NEW leaf, LeafNode(k, leaf), leaf # n,
         NEW at \in FreeNodes(k)
  PROVE  /\ n \in Nodes /\ at \in Nodes /\ leaf \in Nodes
         /\ n # at /\ n # leaf /\ at # leaf
         /\ k[leaf].client \in Windows
         /\ \A m \in Nodes : k[m] \in NodeRecords
         /\ k[n].first = NULL /\ k[n].second = NULL
BY DEF LeafNode, FreeNodes, Detached, Heaps, NodeRecords

\* transfer_node splits the leaf for the detached node.
LEMMA TransferGood ==
  ASSUME NEW k, NEW n, Detached(k, n), NEW leaf, LeafNode(k, leaf), leaf # n,
         NEW at \in FreeNodes(k)
  PROVE  LET j == transfer_node(k, leaf, at, n)
         IN  /\ Good(j) /\ \A m \in Nodes : IsRoot(j, m) <=> IsRoot(k, m) /\ m # n
             /\ SplitFrom(k, j, leaf, at, n) /\ j[n].client = k[n].client
<1> DEFINE j == transfer_node(k, leaf, at, n)
<1>1. /\ n \in Nodes /\ at \in Nodes /\ leaf \in Nodes
      /\ n # at /\ n # leaf /\ at # leaf
      /\ k[leaf].client \in Windows
      /\ \A m \in Nodes : k[m] \in NodeRecords
      /\ k[n].first = NULL /\ k[n].second = NULL
  BY BeforeHanging
<1>2. /\ j[at] \in NodeRecords /\ j[at].type = "EXTERNAL" /\ j[at].client = k[leaf].client
      /\ j[at].parent = leaf /\ j[at].first = NULL /\ j[at].second = NULL
  BY <1>1 DEF transfer_node, create_node, FreeNode, NodeRecords, NodeTypes
<1>3. /\ j[leaf] \in NodeRecords
      /\ j[leaf].type = IF k[leaf].type = "ROOT" THEN "ROOT" ELSE "INTERNAL"
      /\ j[leaf].client = NULL /\ j[leaf].parent = k[leaf].parent
      /\ j[leaf].first = at /\ j[leaf].second = n
  <2>1. j[leaf] = [k[leaf] EXCEPT !.type = IF @ = "ROOT" THEN @ ELSE "INTERNAL",
                                  !.client = NULL, !.first = at, !.second = n]
    BY <1>1 DEF transfer_node
  <2> HIDE DEF j
  <2> QED BY <1>1, <2>1 DEF NodeRecords, NodeTypes
<1>4. /\ j[n] \in NodeRecords /\ j[n].type = "EXTERNAL" /\ j[n].client = k[n].client
      /\ j[n].parent = leaf /\ j[n].first = NULL /\ j[n].second = NULL
  BY <1>1 DEF transfer_node, NodeRecords, NodeTypes
<1>5. \A m \in Nodes : m \notin {at, leaf, n} => j[m] = k[m]  BY DEF transfer_node
<1>6. j = [m \in Nodes |-> j[m]]  BY DEF transfer_node
<1> HIDE DEF j
<1>7. j \in Heaps
  <2>1. \A m \in Nodes : j[m] \in NodeRecords
    BY <1>1, <1>2, <1>3, <1>4, <1>5
  <2> QED BY <2>1, <1>6 DEF Heaps
<1>8. SplitFrom(k, j, leaf, at, n)  BY <1>2, <1>3, <1>4, <1>5, <1>7 DEF SplitFrom
<1>9. Good(j) /\ \A m \in Nodes : IsRoot(j, m) <=> IsRoot(k, m) /\ m # n
  BY <1>4, <1>8, HungGood
<1> QED BY <1>4, <1>8, <1>9 DEF j

\* insert_node splits a leaf for a node that was taken out of its place, as drag_end does.
LEMMA DropGood ==
  ASSUME NEW k, NEW n, Detached(k, n), NEW leaf, LeafNode(k, leaf), leaf # n,
         NEW at \in FreeNodes(k), NEW fl
  PROVE  LET j == insert_node(k, leaf, at, n, fl)
         IN  /\ Good(j) /\ \A m \in Nodes : IsRoot(j, m) <=> IsRoot(k, m) /\ m # n
             /\ SplitFrom(k, j, leaf, at, n) /\ j[n].client = k[n].client
<1> DEFINE j == insert_node(k, leaf, at, n, fl)
<1>1. /\ n \in Nodes /\ at \in Nodes /\ leaf \in Nodes
      /\ n # at /\ n # leaf /\ at # leaf
      /\ k[leaf].client \in Windows
      /\ \A m \in Nodes : k[m] \in NodeRecords
      /\ k[n].first = NULL /\ k[n].second = NULL
  BY BeforeHanging
<1>2. /\ j[at] \in NodeRecords /\ j[at].type = "EXTERNAL" /\ j[at].client = k[leaf].client
      /\ j[at].parent = leaf /\ j[at].first = NULL /\ j[at].second = NULL
  BY <1>1 DEF insert_node, create_node, FreeNode, NodeRecords, NodeTypes
<1>3. j[leaf] = [type |-> IF k[leaf].type = "ROOT" THEN "ROOT" ELSE "INTERNAL", client |-> NULL,
                 parent |-> k[leaf].parent, first |-> at, second |-> n,
                 is_focused |-> FALSE, is_master |-> FALSE, frect |-> k[leaf].frect,
                 leaked |-> k[leaf].leaked]
  BY <1>1 DEF insert_node, NodeRecords
<1>4. /\ j[n] \in NodeRecords /\ j[n].type = "EXTERNAL" /\ j[n].client = k[n].client
      /\ j[n].parent = leaf /\ j[n].first = NULL /\ j[n].second = NULL
  BY <1>1 DEF insert_node, NodeRecords, NodeTypes
<1>5. \A m \in Nodes : m \notin {at, leaf, n} => j[m] = k[m]  BY DEF insert_node
<1>6. j = [m \in Nodes |-> j[m]]  BY DEF insert_node
<1> HIDE DEF j
<1>7. j[leaf] \in NodeRecords
  BY <1>1, <1>3 DEF NodeRecords, NodeTypes
<1>8. j \in Heaps
  <2>1. \A m \in Nodes : j[m] \in NodeRecords
    BY <1>1, <1>2, <1>4, <1>5, <1>7
  <2> QED BY <2>1, <1>6 DEF Heaps
<1>9. SplitFrom(k, j, leaf, at, n)  BY <1>2, <1>3, <1>4, <1>5, <1>8 DEF SplitFrom
<1>10. Good(j) /\ \A m \in Nodes : IsRoot(j, m) <=> IsRoot(k, m) /\ m # n
  BY <1>4, <1>9, HungGood
<1> QED BY <1>4, <1>9, <1>10 DEF j

\* swap_node exchanges the children of a node.
LEMMA SwapGood ==
  ASSUME NEW h, Good(h), NEW n \in Nodes, h[n].parent # NULL
  PROVE  Good(swap_node(h, n)) /\ \A m \in Nodes : IsRoot(swap_node(h, n), m) <=> IsRoot(h, m)
<1> DEFINE k == swap_node(h, n)
           p == h[n].parent
<1>1. h \in Heaps /\ \A m \in Nodes : Wired(h, m) /\ h[m] \in NodeRecords
  BY WiredIsWellLinked DEF Good, Heaps
<1>2. p \in Nodes /\ h[p] \in NodeRecords  BY <1>1 DEF NodeRecords
<1>3. /\ k[p].first = h[p].second /\ k[p].second = h[p].first /\ k[p].parent = h[p].parent
      /\ k[p].type = h[p].type /\ k[p].client = h[p].client
  BY <1>1, <1>2 DEF swap_node, Heaps, NodeRecords
<1>4. \A m \in Nodes \ {p} : k[m] = h[m]  BY <1>1 DEF swap_node, Heaps
<1>5. k \in Heaps  BY <1>1, <1>2 DEF swap_node, Heaps, NodeRecords
<1> HIDE DEF k, p
<1>6. \A m \in Nodes : k[m].parent = h[m].parent /\ k[m].type = h[m].type
                      /\ k[m].client = h[m].client
  BY <1>2, <1>3, <1>4
<1>7. ASSUME NEW m \in Nodes PROVE Wired(k, m)
  <2>1. CASE m = p
    BY <2>1, <1>1, <1>2, <1>3, <1>4, <1>6, NullAssumption DEF Wired, NodeRecords
  <2>2. CASE m # p
    BY <2>2, <1>1, <1>2, <1>3, <1>4, <1>6, NullAssumption DEF Wired, NodeRecords
  <2> QED BY <2>1, <2>2
<1>8. Acyclic(k)  BY <1>6 DEF Acyclic, Good
<1>9. Good(k)  BY <1>5, <1>7, <1>8, WiredIsWellLinked DEF Good
<1>10. \A m \in Nodes : IsRoot(k, m) <=> IsRoot(h, m)  BY <1>6 DEF IsRoot
<1> QED BY <1>9, <1>10 DEF k

-----------------------------------------------------------------------------
(* The order of the leaves.                                                *)

\* One step of the recursion of walk.
WalkStep(h, f, n) ==
  IF IsLeaf(h, n) THEN <<n>>
  ELSE (IF h[n].first = NULL THEN <<>> ELSE f[h[n].first])
       \o (IF h[n].second = NULL THEN <<>> ELSE f[h[n].second])

\* f solves the recursion of walk in S.
WalkSolves(h, S, f) == \A n \in S : f[n] = WalkStep(h, f, n)

\* The step looks at the children only.
LEMMA SameWalkStep ==
  ASSUME NEW h, NEW f, NEW g, NEW n, \A c \in Children(h, n) : f[c] = g[c]
  PROVE  WalkStep(h, f, n) = WalkStep(h, g, n)
BY DEF WalkStep, Children

\* The recursion of walk has a solution: one on a largest closed set is one on all nodes,
\* or a lowest node outside could be added.
LEMMA WalkExists ==
  ASSUME NEW h, Forest(h)
  PROVE  \E f : WalkSolves(h, Nodes, f)
<1> DEFINE solved(S) == Closed(h, S) /\ \E f : WalkSolves(h, S, f)
           T == {R \in SUBSET Nodes : solved(Nodes \ R)}
<1>1. Nodes \in T
  BY DEF Closed, WalkSolves
<1>2. PICK R \in T : \A Q \in T : ~(<<Q, R>> \in StrictSubsetOrdering(Nodes))
  <2>1. IsWellFoundedOn(StrictSubsetOrdering(Nodes), SUBSET Nodes)
    BY NodesAssumption, FS_StrictSubsetOrderingWellFounded, FS_FiniteSubsetsOfFinite
  <2>2. T \subseteq SUBSET Nodes /\ T # {}
    BY <1>1
  <2> HIDE DEF T
  <2> QED BY <2>1, <2>2, WFMin
<1>3. PICK f : WalkSolves(h, Nodes \ R, f)
  BY <1>2
<1>4. ASSUME R # {} PROVE FALSE
  <2>1. PICK n \in R : Children(h, n) \cap R = {}
    BY <1>2, <1>4, LowestNode
  <2> DEFINE S == Nodes \ R
             g == [m \in Nodes |-> IF m = n THEN WalkStep(h, f, n) ELSE f[m]]
  <2>2. Closed(h, S) /\ n \in Nodes /\ n \notin S
    BY <1>2, <2>1
  <2>3. Children(h, n) \subseteq S
    BY <2>1, <2>2, ChildrenKnow
  <2>4. Closed(h, S \cup {n})
    BY <2>2, <2>3 DEF Closed
  <2>5. ASSUME NEW m \in S \cup {n} PROVE g[m] = WalkStep(h, g, m)
    <3>1. Children(h, m) \subseteq S
      BY <2>2, <2>3 DEF Closed
    <3>2. \A c \in Children(h, m) : f[c] = g[c]
      BY <3>1, <2>2
    <3>3. g[m] = WalkStep(h, f, m)
      BY <1>3, <2>2 DEF WalkSolves
    <3> HIDE DEF g
    <3> QED BY <3>2, <3>3, SameWalkStep
  <2> HIDE DEF g
  <2>6. WalkSolves(h, S \cup {n}, g)
    BY <2>5 DEF WalkSolves
  <2>7. Nodes \ (R \ {n}) = S \cup {n} /\ R \ {n} \in SUBSET Nodes
    BY <2>1, <2>2
  <2>8. R \ {n} \in T
    BY <2>4, <2>6, <2>7
  <2>9. <<R \ {n}, R>> \in StrictSubsetOrdering(Nodes)
    BY <2>1, <1>2 DEF StrictSubsetOrdering
  <2> QED BY <1>2, <2>8, <2>9
<1> QED BY <1>3, <1>4

\* walk unfolds.
LEMMA WalkUnfolds ==
  ASSUME NEW h, Forest(h)
  PROVE  \A n \in Nodes : walk(h)[n] = WalkStep(h, walk(h), n)
<1>1. PICK f : WalkSolves(h, Nodes, f)
  BY WalkExists
<1> DEFINE G == [n \in Nodes |-> f[n]]
<1>2. ASSUME NEW n \in Nodes PROVE G[n] = WalkStep(h, G, n)
  <2>1. \A c \in Children(h, n) : f[c] = G[c]
    BY ChildrenKnow
  <2>2. G[n] = WalkStep(h, f, n)
    BY <1>1 DEF WalkSolves
  <2> HIDE DEF G
  <2> QED BY <2>1, <2>2, SameWalkStep
<1>3. G = [n \in Nodes |-> WalkStep(h, G, n)]
  BY <1>2
<1> HIDE DEF G
<1>4. walk(h) = [n \in Nodes |-> WalkStep(h, walk(h), n)]
  BY <1>3, Zenon DEF walk, WalkStep
<1> QED BY <1>4

\* What is below a node that is below another is below that one.
LEMMA BelowTransitive ==
  ASSUME NEW h, Forest(h), NEW a \in Nodes, NEW b \in below(h)[a]
  PROVE  b \in Nodes /\ below(h)[b] \subseteq below(h)[a]
<1>1. Closed(h, below(h)[a])
  BY BelowLeast
<1>2. b \in Nodes
  BY <1>1 DEF Closed
<1> QED BY <1>1, <1>2, BelowLeast

\* Two subtrees that share a node are nested.
LEMMA NestedOrApart ==
  ASSUME NEW h, Forest(h), NEW a \in Nodes, NEW b \in Nodes,
         NEW x \in below(h)[a] \cap below(h)[b]
  PROVE  a \in below(h)[b] \/ b \in below(h)[a]
<1> DEFINE A == below(h)[a]
           B == below(h)[b]
           nested == a \in B \/ b \in A
           S == {k \in A : k \in B => nested}
<1>1. Closed(h, A) /\ a \in A
  BY BelowLeast
<1>2. Closed(h, S) /\ a \in S
  <2> SUFFICES ASSUME NEW k \in S, NEW c \in Children(h, k), c \in B PROVE nested
    BY <1>1 DEF Closed
  <2>1. k \in Nodes /\ c \in A /\ h[c].parent = k
    BY <1>1, ChildrenKnow DEF Closed
  <2>2. CASE c = b
    BY <2>1, <2>2
  <2>3. CASE c # b
    <3>1. k \in B
      BY <2>1, <2>3, BelowParents
    <3> QED BY <3>1
  <2> QED BY <2>2, <2>3
<1>3. A \subseteq S
  BY <1>2, BelowLeast
<1> QED BY <1>3

\* No node is below one of its children.
LEMMA NotBelowChild ==
  ASSUME NEW h, Forest(h), NEW n \in Nodes, NEW c \in Children(h, n)
  PROVE  n \notin below(h)[c]
<1> SUFFICES ASSUME n \in below(h)[c] PROVE FALSE
  OBVIOUS
<1>1. c \in Nodes /\ h[c].parent = n
  BY ChildrenKnow
<1>2. below(h)[c] \in SUBSET Nodes /\ c \in below(h)[c]
  BY <1>1, BelowLeast DEF Closed
<1>3. \A m \in below(h)[c] : h[m].parent \in below(h)[c]
  BY <1>1, BelowParents
<1> QED BY <1>2, <1>3 DEF Forest, Acyclic

\* The subtrees of the children of a node are apart.
LEMMA ChildrenApart ==
  ASSUME NEW h, Good(h), NEW n \in Nodes, NEW a \in Children(h, n), NEW b \in Children(h, n),
         a # b
  PROVE  below(h)[a] \cap below(h)[b] = {}
<1> SUFFICES ASSUME NEW x \in below(h)[a] \cap below(h)[b] PROVE FALSE
  OBVIOUS
<1>1. Forest(h)
  BY GoodIsForest
<1>2. a \in Nodes /\ b \in Nodes /\ h[a].parent = n /\ h[b].parent = n
  BY <1>1, ChildrenKnow
<1>3. CASE a \in below(h)[b]
  <2>1. n \in below(h)[b]
    BY <1>1, <1>2, <1>3, BelowParents
  <2> QED BY <1>1, <2>1, NotBelowChild
<1>4. CASE b \in below(h)[a]
  <2>1. n \in below(h)[a]
    BY <1>1, <1>2, <1>4, BelowParents
  <2> QED BY <1>1, <2>1, NotBelowChild
<1> QED BY <1>1, <1>2, <1>3, <1>4, NestedOrApart

\* x is in the first subtree of m and y in the second.
Parts(h, m, x, y) ==
  /\ h[m].first # NULL /\ h[m].second # NULL
  /\ x \in below(h)[h[m].first] /\ y \in below(h)[h[m].second]

\* x is to the left of y: some node has x in its first subtree and y in its second.
Left(h, x, y) == \E m \in Nodes : Parts(h, m, x, y)

\* The children of a node that parts two others.
LEMMA PartsFacts ==
  ASSUME NEW h, Good(h), NEW m \in Nodes, NEW x, NEW y, Parts(h, m, x, y)
  PROVE  /\ h[m].first \in Children(h, m) /\ h[m].second \in Children(h, m)
         /\ h[m].first \in Nodes /\ h[m].second \in Nodes /\ h[m].first # h[m].second
         /\ below(h)[m] = {m} \cup below(h)[h[m].first] \cup below(h)[h[m].second]
         /\ x \in below(h)[m] /\ y \in below(h)[m]
<1>1. h[m].first \in Children(h, m) /\ h[m].second \in Children(h, m)
  BY DEF Parts, Children
<1>2. h[m].first \in Nodes /\ h[m].second \in Nodes
  BY <1>1, GoodIsForest, ChildrenKnow
<1>3. h[m].first # h[m].second
  BY DEF Parts, Good, WellLinked
<1>4. below(h)[m] = BelowStep(h, below(h), m)
  BY GoodIsForest, BelowUnfolds
<1>5. below(h)[m] = {m} \cup below(h)[h[m].first] \cup below(h)[h[m].second]
  BY <1>4 DEF BelowStep, Parts
<1> QED BY <1>1, <1>2, <1>3, <1>5 DEF Parts

\* Nothing is to the left of what is to its left.
LEMMA LeftAsym ==
  ASSUME NEW h, Good(h), NEW x, NEW y, Left(h, x, y)
  PROVE  ~Left(h, y, x)
<1> SUFFICES ASSUME NEW m \in Nodes, NEW o \in Nodes, Parts(h, m, x, y), Parts(h, o, y, x)
             PROVE  FALSE
  BY DEF Left
<1>1. Forest(h)
  BY GoodIsForest
<1>2. ASSUME NEW a \in Nodes, NEW b \in Nodes, NEW u, NEW v,
             Parts(h, a, u, v), Parts(h, b, v, u), a \in below(h)[b]
      PROVE  FALSE
  <2> DEFINE b1 == h[b].first
             b2 == h[b].second
  <2>1. /\ b1 \in Nodes /\ b2 \in Nodes /\ b1 \in Children(h, b) /\ b2 \in Children(h, b)
        /\ b1 # b2 /\ below(h)[b] = {b} \cup below(h)[b1] \cup below(h)[b2]
    BY <1>2, PartsFacts
  <2>2. u \in below(h)[a] /\ v \in below(h)[a]
    BY <1>2, PartsFacts
  <2>3. v \in below(h)[b1] /\ u \in below(h)[b2]
    BY <1>2 DEF Parts
  <2> HIDE DEF b1, b2
  <2>4. below(h)[b1] \cap below(h)[b2] = {}
    BY <2>1, ChildrenApart
  <2>5. CASE a = b
    <3>1. u \in below(h)[b1] /\ v \in below(h)[b2]
      BY <1>2, <2>5 DEF Parts, b1, b2
    <3> QED BY <2>3, <2>4, <3>1
  <2>6. CASE a \in below(h)[b1]
    <3>1. u \in below(h)[b1]
      BY <1>1, <2>1, <2>2, <2>6, BelowTransitive
    <3> QED BY <2>3, <2>4, <3>1
  <2>7. CASE a \in below(h)[b2]
    <3>1. v \in below(h)[b2]
      BY <1>1, <2>1, <2>2, <2>7, BelowTransitive
    <3> QED BY <2>3, <2>4, <3>1
  <2> QED BY <1>2, <2>1, <2>5, <2>6, <2>7
<1>3. x \in below(h)[m] /\ x \in below(h)[o]
  BY PartsFacts
<1>4. CASE m \in below(h)[o]
  BY <1>2, <1>4
<1>5. CASE o \in below(h)[m]
  BY <1>2, <1>5
<1> QED BY <1>1, <1>3, <1>4, <1>5, NestedOrApart

\* A position of a concatenation is one of the first sequence or one of the second.
LEMMA ConcatPositions ==
  ASSUME NEW S, NEW s \in Seq(S), NEW t \in Seq(S)
  PROVE  /\ s \o t \in Seq(S)
         /\ \A i \in DOMAIN (s \o t) :
              \/ i \in DOMAIN s /\ (s \o t)[i] = s[i]
              \/ /\ i - Len(s) \in DOMAIN t /\ (s \o t)[i] = t[i - Len(s)]
                 /\ \A j \in DOMAIN s : j < i
         /\ \A i \in DOMAIN s : i \in DOMAIN (s \o t) /\ (s \o t)[i] = s[i]
         /\ \A i \in DOMAIN t : /\ i + Len(s) \in DOMAIN (s \o t)
                                /\ (s \o t)[i + Len(s)] = t[i]
<1>1. s \o t \in Seq(S) /\ Len(s \o t) = Len(s) + Len(t)
  OBVIOUS
<1>2. /\ DOMAIN s = 1 .. Len(s) /\ DOMAIN t = 1 .. Len(t)
      /\ DOMAIN (s \o t) = 1 .. (Len(s) + Len(t))
      /\ Len(s) \in Nat /\ Len(t) \in Nat
  BY <1>1
<1>3. \A i \in 1 .. (Len(s) + Len(t)) :
        (s \o t)[i] = IF i <= Len(s) THEN s[i] ELSE t[i - Len(s)]
  OBVIOUS
<1> QED BY <1>1, <1>2, <1>3

\* s lists S from left to right.
Listing(h, S, s) ==
  /\ s \in Seq(Nodes)
  /\ S = {s[i] : i \in DOMAIN s}
  /\ \A i, j \in DOMAIN s : i < j => Left(h, s[i], s[j])

\* One list after another, of which it is to the left.
LEMMA ListingConcat ==
  ASSUME NEW h, NEW S, NEW s, Listing(h, S, s), NEW T, NEW t, Listing(h, T, t),
         \A x \in S, y \in T : Left(h, x, y)
  PROVE  Listing(h, S \cup T, s \o t)
<1> DEFINE c == s \o t
<1>1. s \in Seq(Nodes) /\ t \in Seq(Nodes)
  BY DEF Listing
<1>2. /\ c \in Seq(Nodes)
      /\ \A i \in DOMAIN c :
           \/ i \in DOMAIN s /\ c[i] = s[i]
           \/ i - Len(s) \in DOMAIN t /\ c[i] = t[i - Len(s)] /\ \A j \in DOMAIN s : j < i
      /\ \A i \in DOMAIN s : i \in DOMAIN c /\ c[i] = s[i]
      /\ \A i \in DOMAIN t : i + Len(s) \in DOMAIN c /\ c[i + Len(s)] = t[i]
  BY <1>1, ConcatPositions
<1> HIDE DEF c
<1>3. S \cup T = {c[i] : i \in DOMAIN c}
  <2>1. S = {s[i] : i \in DOMAIN s} /\ T = {t[i] : i \in DOMAIN t}
    BY DEF Listing
  <2>2. ASSUME NEW x \in S \cup T PROVE x \in {c[i] : i \in DOMAIN c}
    BY <1>2, <2>1
  <2>3. ASSUME NEW i \in DOMAIN c PROVE c[i] \in S \cup T
    BY <1>2, <2>1
  <2> QED BY <2>2, <2>3
<1>4. ASSUME NEW i \in DOMAIN c, NEW j \in DOMAIN c, i < j PROVE Left(h, c[i], c[j])
  <2>1. i \in Nat /\ j \in Nat /\ Len(s) \in Nat
    BY <1>1, <1>2
  <2>2. CASE i \in DOMAIN s /\ c[i] = s[i] /\ j \in DOMAIN s /\ c[j] = s[j]
    BY <1>4, <2>2 DEF Listing
  <2>3. CASE i - Len(s) \in DOMAIN t /\ c[i] = t[i - Len(s)]
             /\ j - Len(s) \in DOMAIN t /\ c[j] = t[j - Len(s)]
    <3>1. i - Len(s) < j - Len(s)
      BY <1>4, <2>1
    <3> QED BY <2>3, <3>1 DEF Listing
  <2>4. CASE i \in DOMAIN s /\ c[i] = s[i] /\ j - Len(s) \in DOMAIN t /\ c[j] = t[j - Len(s)]
    <3>1. c[i] \in S /\ c[j] \in T
      BY <2>4 DEF Listing
    <3> QED BY <3>1
  <2>5. ~(j \in DOMAIN s /\ \A k \in DOMAIN s : k < i)
    BY <1>4, <2>1
  <2> QED BY <1>2, <2>2, <2>3, <2>4, <2>5
<1> QED BY <1>2, <1>3, <1>4 DEF Listing, c

\* walk lists the leaves below a node from left to right.
LEMMA WalkLists ==
  ASSUME NEW h, Good(h), NEW n \in Nodes
  PROVE  Listing(h, Leaves(h, n), walk(h)[n])
<1> DEFINE T == {m \in Nodes : ~Listing(h, Leaves(h, m), walk(h)[m])}
<1> SUFFICES ASSUME T # {} PROVE FALSE
  OBVIOUS
<1>1. Forest(h)
  BY GoodIsForest
<1>2. PICK m \in T : Children(h, m) \cap T = {}
  BY <1>1, LowestNode
<1>3. m \in Nodes /\ h[m] \in NodeRecords /\ Wired(h, m)
  BY <1>2, WiredIsWellLinked DEF Good, Heaps
<1>4. below(h)[m] = BelowStep(h, below(h), m) /\ walk(h)[m] = WalkStep(h, walk(h), m)
  BY <1>1, <1>3, BelowUnfolds, WalkUnfolds
<1>5. \A k \in Nodes : Leaves(h, k) = {x \in below(h)[k] : IsLeaf(h, x)}
  BY NullAssumption DEF Leaves, Subtree
<1>6. CASE h[m].first = NULL
  <2>1. h[m].second = NULL
    BY <1>3, <1>6 DEF Wired
  <2>2. below(h)[m] = {m}
    BY <1>4, <1>6, <2>1 DEF BelowStep
  <2>3. CASE IsLeaf(h, m)
    <3>1. Leaves(h, m) = {m} /\ walk(h)[m] = <<m>>
      BY <1>3, <1>4, <1>5, <2>2, <2>3 DEF WalkStep
    <3>2. Listing(h, {m}, <<m>>)
      BY <1>3 DEF Listing
    <3> QED BY <1>2, <3>1, <3>2
  <2>4. CASE ~IsLeaf(h, m)
    <3>1. Leaves(h, m) = {} /\ walk(h)[m] = <<>> \o <<>>
      BY <1>3, <1>4, <1>5, <1>6, <2>1, <2>2, <2>4 DEF WalkStep
    <3>2. <<>> \o <<>> = <<>>
      OBVIOUS
    <3>3. Listing(h, {}, <<>>)
      BY DEF Listing
    <3> QED BY <1>2, <3>1, <3>2, <3>3
  <2> QED BY <2>3, <2>4
<1>7. CASE h[m].first # NULL
  <2> DEFINE a == h[m].first
             b == h[m].second
  <2>1. b # NULL /\ h[m].client = NULL
    BY <1>3, <1>7 DEF Wired
  <2>2. /\ a \in Children(h, m) /\ b \in Children(h, m)
    BY <1>7, <2>1 DEF Children
  <2>3. a \in Nodes /\ b \in Nodes
    BY <1>1, <1>3, <2>2, ChildrenKnow
  <2>4. Listing(h, Leaves(h, a), walk(h)[a]) /\ Listing(h, Leaves(h, b), walk(h)[b])
    BY <1>2, <2>2, <2>3
  <2>5. ~IsLeaf(h, m)
    BY <2>1 DEF IsLeaf
  <2>6. walk(h)[m] = walk(h)[a] \o walk(h)[b]
    BY <1>4, <1>7, <2>1, <2>5 DEF WalkStep
  <2>7. Leaves(h, m) = Leaves(h, a) \cup Leaves(h, b)
    <3>1. below(h)[m] = {m} \cup below(h)[a] \cup below(h)[b]
      BY <1>4, <1>7, <2>1 DEF BelowStep
    <3> QED BY <1>3, <1>5, <2>3, <2>5, <3>1
  <2>8. \A x \in Leaves(h, a), y \in Leaves(h, b) : Left(h, x, y)
    BY <1>3, <1>5, <1>7, <2>1, <2>3 DEF Left, Parts
  <2> HIDE DEF a, b
  <2>9. Listing(h, Leaves(h, a) \cup Leaves(h, b), walk(h)[a] \o walk(h)[b])
    BY <2>4, <2>8, ListingConcat
  <2> QED BY <1>2, <2>6, <2>7, <2>9
<1> QED BY <1>6, <1>7

\* No two nodes hold the same window.
Unique(h) ==
  \A n, m \in Nodes : h[n].client # NULL /\ h[n].client = h[m].client => n = m

\* The window u is in a node to the left of the node of v.
WindowLeft(h, u, v) ==
  \E x, y \in Nodes : h[x].client = u /\ h[y].client = v /\ Left(h, x, y)

\* The windows of a tree come in LeafWindows in their order from left to right.
LEMMA LeafWindowsOrder ==
  ASSUME NEW h, Good(h), Unique(h), NEW r \in Nodes \cup {NULL},
         NEW u \in WindowsOf(h, r), NEW v \in WindowsOf(h, r)
  PROVE  Precedes(LeafWindows(h, r), u, v) <=> WindowLeft(h, u, v)
<1> DEFINE s == LeafOrder(h, r)
           t == LeafWindows(h, r)
<1>1. PICK x \in Leaves(h, r), y \in Leaves(h, r) : h[x].client = u /\ h[y].client = v
  BY DEF WindowsOf
<1>2. LeafNode(h, x) /\ LeafNode(h, y)
  BY LeafSearchResult
<1>3. r \in Nodes
  BY DEF Leaves, Subtree
<1>4. s = walk(h)[r]
  BY <1>3, NullAssumption DEF LeafOrder
<1>5. Listing(h, Leaves(h, r), s)
  BY <1>3, <1>4, WalkLists
<1>6. t = [i \in DOMAIN s |-> h[s[i]].client]
  BY DEF LeafWindows
<1> HIDE DEF s, t
<1>7. DOMAIN t = DOMAIN s /\ \A i \in DOMAIN s : t[i] = h[s[i]].client /\ s[i] \in Nodes
                                                /\ i \in Nat
  BY <1>5, <1>6 DEF Listing
<1>8. ASSUME Precedes(t, u, v) PROVE WindowLeft(h, u, v)
  <2>1. PICK i \in DOMAIN s, j \in DOMAIN s : i < j /\ t[i] = u /\ t[j] = v
    BY <1>7, <1>8 DEF Precedes
  <2>2. Left(h, s[i], s[j])
    BY <1>5, <2>1 DEF Listing
  <2> QED BY <1>7, <2>1, <2>2 DEF WindowLeft
<1>9. ASSUME WindowLeft(h, u, v) PROVE Precedes(t, u, v)
  <2>1. Left(h, x, y)
    BY <1>1, <1>2, <1>9 DEF WindowLeft, Unique, LeafNode
  <2>2. PICK i \in DOMAIN s, j \in DOMAIN s : s[i] = x /\ s[j] = y
    BY <1>5 DEF Listing
  <2>3. ~Left(h, y, x)
    BY <2>1, LeftAsym
  <2>4. x # y
    BY <2>1, <2>3
  <2>5. ~(j < i)
    BY <1>5, <2>2, <2>3 DEF Listing
  <2>6. i < j
    BY <1>7, <2>2, <2>4, <2>5
  <2> QED BY <1>1, <1>7, <2>2, <2>6 DEF Precedes
<1> QED BY <1>8, <1>9 DEF t

\* The children of a split leaf are next to each other: what is to the right of the
\* first is the second or to the right of that.
LEMMA NextLeaf ==
  ASSUME NEW h, Good(h), NEW m \in Nodes, h[m].first # NULL, h[m].second # NULL,
         h[h[m].second].first = NULL, h[h[m].second].second = NULL,
         NEW x, Left(h, h[m].first, x)
  PROVE  x = h[m].second \/ Left(h, h[m].second, x)
<1> DEFINE a == h[m].first
           b == h[m].second
<1>1. Forest(h) /\ a \in Children(h, m) /\ b \in Children(h, m)
  BY GoodIsForest DEF Children
<1>2. a \in Nodes /\ b \in Nodes /\ h[a].parent = m /\ below(h)[b] = {b}
  <2>1. a \in Nodes /\ b \in Nodes /\ h[a].parent = m
    BY <1>1, ChildrenKnow
  <2>2. below(h)[b] = BelowStep(h, below(h), b)
    BY <1>1, <2>1, BelowUnfolds
  <2> QED BY <2>1, <2>2 DEF BelowStep
<1>3. PICK o \in Nodes : Parts(h, o, a, x)
  BY DEF Left
<1> DEFINE c == h[o].first
<1>4. c \in Nodes /\ c \in Children(h, o) /\ a \in below(h)[c]
  BY <1>3, PartsFacts DEF Parts
<1>5. CASE a = c
  <2>1. o = m
    BY <1>1, <1>2, <1>4, <1>5, ChildrenKnow
  <2> QED BY <1>2, <1>3, <2>1 DEF Parts
<1>6. CASE a # c
  <2> HIDE DEF a, b, c
  <2>1. m \in below(h)[c]
    BY <1>1, <1>2, <1>4, <1>6, BelowParents
  <2>2. b \in below(h)[c]
    BY <1>1, <1>4, <2>1, BelowLeast DEF Closed
  <2>3. Parts(h, o, b, x)
    BY <1>3, <2>2 DEF Parts, c
  <2> QED BY <2>3 DEF Left, b
<1> QED BY <1>5, <1>6

\* Hence their windows come one after the other.
LEMMA SplitWindowsNext ==
  ASSUME NEW h, Good(h), NEW r \in Nodes, NEW m \in Nodes, h[m].first # NULL, h[m].second # NULL,
         h[m].first \in Leaves(h, r), h[m].second \in Leaves(h, r)
  PROVE  LET s == LeafWindows(h, r)
         IN  \E i \in 1 .. Len(s) - 1 : /\ s[i] = h[h[m].first].client
                                        /\ s[i + 1] = h[h[m].second].client
<1> DEFINE a == h[m].first
           b == h[m].second
           s == LeafOrder(h, r)
           t == LeafWindows(h, r)
<1>1. s = walk(h)[r]
  BY NullAssumption DEF LeafOrder
<1>2. Listing(h, Leaves(h, r), s)
  BY <1>1, WalkLists
<1>3. t = [i \in DOMAIN s |-> h[s[i]].client]
  BY DEF LeafWindows
<1>4. LeafNode(h, b) /\ Wired(h, b) /\ LeafNode(h, a)
  BY LeafSearchResult, WiredIsWellLinked DEF LeafNode, Good
<1>5. h[b].first = NULL /\ h[b].second = NULL
  BY <1>4 DEF Wired, LeafNode
<1>6. Left(h, a, b)
  <2>1. a \in below(h)[a] /\ b \in below(h)[b]
    BY <1>4, GoodIsForest, BelowLeast DEF LeafNode
  <2> QED BY <2>1 DEF Left, Parts
<1>7. \A x : Left(h, a, x) => x = b \/ Left(h, b, x)
  BY <1>5, NextLeaf
<1>8. a \in Leaves(h, r) /\ b \in Leaves(h, r)
  OBVIOUS
<1> HIDE DEF a, b, s, t
<1>9. PICK i \in DOMAIN s, k \in DOMAIN s : s[i] = a /\ s[k] = b
  BY <1>2, <1>8 DEF Listing
<1>10. DOMAIN s = 1 .. Len(s) /\ Len(s) \in Nat /\ DOMAIN t = DOMAIN s
  BY <1>2, <1>3 DEF Listing
<1>11. Len(t) = Len(s)
  <2>1. s \in Seq(Nodes)
    BY <1>2 DEF Listing
  <2> QED BY <1>3, <1>10, <2>1
<1>12. i < k
  <2>1. ~Left(h, b, a)
    BY <1>6, LeftAsym
  <2>2. a # b
    BY <1>6, <2>1
  <2>3. ~(k < i)
    BY <1>2, <1>9, <2>1 DEF Listing
  <2> QED BY <1>9, <1>10, <2>2, <2>3
<1>13. k = i + 1
  <2> SUFFICES ASSUME i + 1 < k PROVE FALSE
    BY <1>9, <1>10, <1>12
  <2>1. i + 1 \in DOMAIN s /\ i < i + 1
    BY <1>9, <1>10
  <2>2. Left(h, a, s[i + 1]) /\ Left(h, s[i + 1], b)
    BY <1>2, <1>9, <2>1 DEF Listing
  <2>3. s[i + 1] = b \/ Left(h, b, s[i + 1])
    BY <1>7, <2>2
  <2> QED BY <2>2, <2>3, LeftAsym
<1>14. i \in 1 .. Len(t) - 1 /\ t[i] = h[a].client /\ t[i + 1] = h[b].client
  BY <1>3, <1>9, <1>10, <1>11, <1>13
<1> QED BY <1>14 DEF a, b, t

-----------------------------------------------------------------------------
(* What surgery does to the order.                                         *)

\* The windows in W are in the same order in h and k.
OrderKept(h, k, W) ==
  \A u, v \in W : WindowLeft(h, u, v) <=> WindowLeft(k, u, v)

\* When only nodes without a window of W are given another, and none other children, the
\* order stays.
LEMMA KeptLinks ==
  ASSUME NEW h, Forest(h), NEW k, Forest(k), NEW W,
         \A m \in Nodes : /\ k[m].first = h[m].first /\ k[m].second = h[m].second
                          /\ \/ k[m].client = h[m].client
                             \/ k[m].client \notin W /\ h[m].client \notin W
  PROVE  OrderKept(h, k, W)
<1>1. \A m \in Nodes : Children(k, m) = Children(h, m)
  BY DEF Children
<1>2. \A m \in Nodes : below(k)[m] = below(h)[m]
  BY <1>1, SameSubtree, NullAssumption DEF Subtree
<1>3. ASSUME NEW m \in Nodes, NEW x, NEW y PROVE Parts(h, m, x, y) <=> Parts(k, m, x, y)
  <2>1. /\ h[m].first # NULL => h[m].first \in Nodes
        /\ h[m].second # NULL => h[m].second \in Nodes
    BY ChildrenKnow DEF Children
  <2> QED BY <1>2, <2>1 DEF Parts
<1>4. \A x, y : Left(h, x, y) <=> Left(k, x, y)
  BY <1>3 DEF Left
<1> QED BY <1>4 DEF OrderKept, WindowLeft

\* Changes of flags do.
LEMMA KeptShape ==
  ASSUME NEW h, Good(h), NEW k, Good(k), SameShape(h, k), NEW W
  PROVE  OrderKept(h, k, W)
BY GoodIsForest, KeptLinks DEF SameShape

\* Order is kept from step to step.
LEMMA KeptTwice ==
  ASSUME NEW h, NEW k, NEW j, NEW W, NEW V, V \subseteq W, OrderKept(h, k, V), OrderKept(k, j, W)
  PROVE  OrderKept(h, j, V)
BY DEF OrderKept

\* What was below a node before a leaf was split is below it afterwards.
LEMMA SplitBelow ==
  ASSUME NEW h, Forest(h), NEW k, Forest(k), NEW leaf \in Nodes, NEW at \in Nodes,
         NEW new \in Nodes, at # leaf, new # leaf, at # new, SplitFrom(h, k, leaf, at, new),
         h[leaf].first = NULL, h[leaf].second = NULL,
         \A m \in {at, new} : h[m].parent = NULL /\ h[m].first = NULL /\ h[m].second = NULL,
         NEW m \in Nodes \ {at, new}, NEW x \in Nodes \ {at, new}
  PROVE  (IF x = leaf THEN at ELSE x) \in below(k)[m] <=> x \in below(h)[m]
<1> DEFINE A == below(h)[m]
           B == below(k)[m]
           C == A \cup (IF leaf \in A THEN {at, new} ELSE {})
<1>1. Closed(h, A) /\ m \in A /\ Closed(k, B) /\ m \in B
  BY BelowLeast
<1>2. Children(k, leaf) \subseteq {at, new} /\ at \in Children(k, leaf)
  BY NullAssumption DEF SplitFrom, Children
<1>3. \A q \in Nodes : q # leaf => Children(k, q) = Children(h, q)
  BY DEF SplitFrom, Children
<1>4. Children(h, leaf) = {} /\ Children(h, at) = {} /\ Children(h, new) = {}
  BY DEF Children
<1>5. Closed(k, C)
  BY <1>1, <1>2, <1>3, <1>4 DEF Closed
<1>6. B \subseteq C
  BY <1>1, <1>5, BelowLeast
<1>7. Closed(h, B)
  BY <1>1, <1>3, <1>4 DEF Closed
<1>8. A \subseteq B
  BY <1>1, <1>7, BelowLeast
<1>9. at \notin A /\ new \notin A
  BY BelowParents, <1>1, NullAssumption DEF Closed
<1>10. leaf \in B => at \in B
  BY <1>1, <1>2 DEF Closed
<1> HIDE DEF A, B
<1>11. (IF x = leaf THEN at ELSE x) \in B <=> x \in A
  BY <1>6, <1>8, <1>9, <1>10
<1> QED BY <1>11 DEF A, B

\* Splitting a leaf changes the order of no other window than the new one.
LEMMA SplitKeepsOrder ==
  ASSUME NEW h, Forest(h), NEW k, Forest(k), NEW leaf \in Nodes, NEW at \in Nodes,
         NEW new \in Nodes, at # leaf, new # leaf, at # new, SplitFrom(h, k, leaf, at, new),
         h[leaf].first = NULL, h[leaf].second = NULL,
         \A m \in {at, new} : h[m].parent = NULL /\ h[m].first = NULL /\ h[m].second = NULL,
         h[at].client = NULL, h[new].client \in {NULL, k[new].client}
  PROVE  OrderKept(h, k, Windows \ {k[new].client})
<1> DEFINE to(x) == IF x = leaf THEN at ELSE x
           U == Windows \ {k[new].client}
<1>1. ASSUME NEW m \in Nodes \ {at, new}, NEW x \in Nodes \ {at, new}
      PROVE  to(x) \in below(k)[m] <=> x \in below(h)[m]
  BY SplitBelow
<1>2. /\ k[at].client = h[leaf].client /\ k[leaf].client = NULL
      /\ \A m \in Nodes \ {at, leaf, new} : k[m] = h[m]
      /\ k[leaf].first = at /\ k[leaf].second = new
      /\ k[at].first = NULL /\ k[new].first = NULL
      /\ k[new].second = NULL
  BY DEF SplitFrom
<1>3. below(k)[new] = {new}
  <2>1. below(k)[new] = BelowStep(k, below(k), new)
    BY BelowUnfolds
  <2> QED BY <1>2, <2>1 DEF BelowStep
<1>4. \A x \in Nodes \ {at, new} : to(x) # new
  OBVIOUS
<1>5. ASSUME NEW x \in Nodes \ {at, new}, NEW y \in Nodes \ {at, new}
      PROVE  Left(h, x, y) <=> Left(k, to(x), to(y))
  <2>1. ASSUME NEW m \in Nodes PROVE Parts(h, m, x, y) <=> Parts(k, m, to(x), to(y))
    <3>1. CASE m = leaf
      BY <1>2, <1>3, <1>4, <3>1 DEF Parts
    <3>2. CASE m \in {at, new}
      BY <1>2, <3>2 DEF Parts
    <3>3. CASE m \notin {leaf, at, new}
      <4>1. k[m].first = h[m].first /\ k[m].second = h[m].second
        BY <1>2, <3>3
      <4>2. \A c \in Children(h, m) : c \in Nodes \ {at, new}
        BY <3>3, ChildrenKnow, NullAssumption
      <4>3. /\ h[m].first # NULL => h[m].first \in Nodes \ {at, new}
            /\ h[m].second # NULL => h[m].second \in Nodes \ {at, new}
        BY <4>2 DEF Children
      <4> QED BY <1>1, <4>1, <4>3 DEF Parts
    <3> QED BY <3>1, <3>2, <3>3
  <2> QED BY <2>1 DEF Left
<1>6. ASSUME NEW u \in U PROVE u # NULL
  BY NullAssumption
<1>7. ASSUME NEW u \in U, NEW v \in U, WindowLeft(h, u, v) PROVE WindowLeft(k, u, v)
  <2>1. PICK x \in Nodes, y \in Nodes : h[x].client = u /\ h[y].client = v /\ Left(h, x, y)
    BY <1>7 DEF WindowLeft
  <2>2. x \notin {at, new} /\ y \notin {at, new}
    BY <1>6, <2>1
  <2>3. to(x) \in Nodes /\ to(y) \in Nodes /\ k[to(x)].client = u /\ k[to(y)].client = v
    BY <1>2, <2>1, <2>2
  <2>4. Left(k, to(x), to(y))
    BY <1>5, <2>1, <2>2
  <2> QED BY <2>3, <2>4 DEF WindowLeft
<1>8. ASSUME NEW u \in U, NEW v \in U, WindowLeft(k, u, v) PROVE WindowLeft(h, u, v)
  <2>1. PICK a \in Nodes, b \in Nodes : k[a].client = u /\ k[b].client = v /\ Left(k, a, b)
    BY <1>8 DEF WindowLeft
  <2>2. a \notin {leaf, new} /\ b \notin {leaf, new}
    BY <1>2, <1>6, <2>1
  <2> DEFINE x == IF a = at THEN leaf ELSE a
             y == IF b = at THEN leaf ELSE b
  <2>3. /\ x \in Nodes \ {at, new} /\ y \in Nodes \ {at, new} /\ to(x) = a /\ to(y) = b
        /\ h[x].client = u /\ h[y].client = v
    BY <1>2, <2>1, <2>2
  <2> HIDE DEF x, y, to
  <2>4. Left(h, x, y)
    BY <1>5, <2>1, <2>3
  <2> QED BY <2>3, <2>4 DEF WindowLeft
<1> QED BY <1>7, <1>8 DEF OrderKept

\* What was below a node before a leaf and its parent were taken out is below it
\* afterwards, but those two.
LEMMA SpliceBelow ==
  ASSUME NEW h, Good(h), NEW k, Forest(k), NEW n \in Nodes, NEW p \in Nodes, n # p,
         h[n].first = NULL, h[n].second = NULL, h[n].parent = p,
         NEW s \in Nodes \ {n, p}, s = get_sibling(h, n), h[s].parent = p,
         NEW g, g = h[p].parent, SplicedFrom(h, k, n, p, s, g),
         NEW m \in Nodes \ {n, p}, NEW x \in Nodes \ {n, p}
  PROVE  x \in below(k)[m] <=> x \in below(h)[m]
<1> DEFINE A == below(h)[m]
           B == below(k)[m]
           C == A \ {n, p}
           D == B \cup (IF s \in B THEN {n, p} ELSE {})
<1>1. Forest(h)
  BY GoodIsForest
<1>2. Closed(h, A) /\ m \in A /\ Closed(k, B) /\ m \in B
  BY <1>1, BelowLeast
<1>3. /\ p \in Nodes /\ h[n].type # "NONE" /\ h[p].type # "NONE" /\ Wired(h, p)
      /\ n \in Children(h, p)
  BY ParentAllocated, WiredIsWellLinked, NullAssumption DEF Good
<1>4. Children(h, p) = {n, s}
  BY <1>3, NullAssumption DEF Wired, Children, get_sibling
<1>5. Children(h, n) = {}
  BY DEF Children
<1>6. g # NULL => /\ g \in Nodes /\ g # p /\ g # s /\ p \in Children(h, g) /\ g # n
                  /\ h[g].first # h[g].second
  <2> SUFFICES ASSUME g # NULL PROVE /\ g \in Nodes /\ g # p /\ g # s /\ p \in Children(h, g) /\ g # n
                                     /\ h[g].first # h[g].second
    OBVIOUS
  <2>1. g \in Nodes /\ p \in Children(h, g)
    BY ParentAllocated
  <2>2. g # p /\ g # s
    BY <2>1, NoShortCycle DEF Good
  <2>3. g # n
    BY <1>5, <2>1
  <2>4. h[g].first # h[g].second
    BY <2>1, WiredIsWellLinked, NullAssumption DEF Good, Wired, Children
  <2> QED BY <2>1, <2>2, <2>3, <2>4
<1>7. \A q \in Nodes \ {n, p} : q # g => Children(k, q) = Children(h, q)
  BY DEF SplicedFrom, Children
<1>8. g # NULL => Children(k, g) = (Children(h, g) \ {p}) \cup {s}
  BY <1>6, NullAssumption DEF SplicedFrom, Children
<1>9. \A q \in Nodes \ {n, p} : \A c \in Children(h, q) : c # n /\ (c = p => q = g)
  BY <1>1, ChildrenKnow
<1>10. Closed(k, C)
  <2> SUFFICES ASSUME NEW q \in C PROVE Children(k, q) \subseteq C
    BY <1>2 DEF Closed
  <2>1. q \in Nodes \ {n, p} /\ Children(h, q) \subseteq A
    BY <1>2 DEF Closed
  <2>2. CASE q # g
    BY <1>7, <1>9, <2>1, <2>2
  <2>3. CASE q = g
    <3>1. g # NULL
      BY <2>1, <2>3, NullAssumption
    <3>2. p \in A
      BY <1>6, <2>1, <2>3, <3>1
    <3>3. s \in A
      BY <1>2, <1>4, <3>2 DEF Closed
    <3> QED BY <1>8, <1>9, <2>1, <2>3, <3>1, <3>3
  <2> QED BY <2>2, <2>3
<1>11. B \subseteq C
  BY <1>2, <1>10, BelowLeast
<1>12. Closed(h, D)
  <2> SUFFICES ASSUME NEW q \in D PROVE Children(h, q) \subseteq D
    BY <1>2 DEF Closed
  <2>1. CASE q \in {n, p}
    <3>1. s \in B
      BY <1>11, <2>1
    <3> QED BY <1>4, <1>5, <2>1, <3>1
  <2>2. CASE q \notin {n, p} /\ q # g
    BY <1>2, <1>7, <2>2 DEF Closed
  <2>3. CASE q \notin {n, p} /\ q = g
    <3>1. g # NULL /\ q \in B
      BY <1>2, <2>3, NullAssumption DEF Closed
    <3>2. Children(k, g) \subseteq B
      BY <1>2, <2>3, <3>1 DEF Closed
    <3> QED BY <1>8, <2>3, <3>1, <3>2
  <2> QED BY <2>1, <2>2, <2>3
<1>13. A \subseteq D
  BY <1>1, <1>2, <1>12, BelowLeast
<1> HIDE DEF A, B
<1>14. x \in B <=> x \in A
  BY <1>11, <1>13
<1> QED BY <1>14 DEF A, B

\* Taking a leaf out changes the order of no other window.
LEMMA SpliceKeepsOrder ==
  ASSUME NEW h, Good(h), NEW k, Forest(k), NEW n \in Nodes, NEW p \in Nodes, n # p,
         h[n].first = NULL, h[n].second = NULL, h[n].parent = p,
         NEW s \in Nodes \ {n, p}, s = get_sibling(h, n), h[s].parent = p,
         NEW g, g = h[p].parent, SplicedFrom(h, k, n, p, s, g), h[p].client = NULL
  PROVE  OrderKept(h, k, Windows \ {h[n].client})
<1> DEFINE U == Windows \ {h[n].client}
<1>1. ASSUME NEW m \in Nodes \ {n, p}, NEW x \in Nodes \ {n, p}
      PROVE  x \in below(k)[m] <=> x \in below(h)[m]
  BY SpliceBelow
<1>2. Forest(h)
  BY GoodIsForest
<1>3. /\ p \in Nodes /\ h[n].type # "NONE" /\ h[p].type # "NONE" /\ Wired(h, p)
      /\ n \in Children(h, p)
  BY ParentAllocated, WiredIsWellLinked, NullAssumption DEF Good
<1>4. /\ \/ h[p].first = n /\ h[p].second = s
         \/ h[p].first = s /\ h[p].second = n
      /\ Children(h, p) = {n, s}
  BY <1>3, NullAssumption DEF Wired, Children, get_sibling
<1>5. below(h)[n] = {n} /\ below(h)[p] = {n, p} \cup below(h)[s]
  <2>1. below(h)[n] = BelowStep(h, below(h), n) /\ below(h)[p] = BelowStep(h, below(h), p)
    BY <1>2, BelowUnfolds
  <2>2. below(h)[n] = {n}
    BY <2>1 DEF BelowStep
  <2> QED BY <1>4, <2>1, <2>2, NullAssumption DEF BelowStep
<1>6. g # NULL => /\ g \in Nodes /\ g # p /\ g # s /\ p \in Children(h, g) /\ g # n
                  /\ h[g].first # h[g].second
  <2> SUFFICES ASSUME g # NULL PROVE /\ g \in Nodes /\ g # p /\ g # s /\ p \in Children(h, g) /\ g # n
                                     /\ h[g].first # h[g].second
    OBVIOUS
  <2>1. g \in Nodes /\ p \in Children(h, g)
    BY ParentAllocated
  <2>2. g # p /\ g # s
    BY <2>1, NoShortCycle DEF Good
  <2>3. g # n
    BY <2>1, NullAssumption DEF Children
  <2>4. h[g].first # h[g].second
    BY <2>1, WiredIsWellLinked, NullAssumption DEF Good, Wired, Children
  <2> QED BY <2>1, <2>2, <2>3, <2>4
<1>7. /\ k[p] = FreeNode /\ k[n].first = NULL /\ k[n].second = NULL
      /\ \A m \in Nodes \ {n, p, g} : k[m].first = h[m].first /\ k[m].second = h[m].second
      /\ g # NULL => /\ k[g].first = IF h[g].first = p THEN s ELSE h[g].first
                     /\ k[g].second = IF h[g].first = p THEN h[g].second ELSE s
      /\ \A m \in Nodes \ {p} : k[m].client = h[m].client
  <2>1. \A m \in Nodes \ {n, p, g} : k[m].first = h[m].first /\ k[m].second = h[m].second
    BY DEF SplicedFrom
  <2>2. ASSUME NEW m \in Nodes \ {p} PROVE k[m].client = h[m].client
    <3>1. CASE m \in {n, s}
      BY <3>1 DEF SplicedFrom
    <3>2. CASE m = g
      BY <3>2, NullAssumption DEF SplicedFrom
    <3>3. CASE m \notin {n, s, g}
      BY <3>3 DEF SplicedFrom
    <3> QED BY <3>1, <3>2, <3>3
  <2> QED BY <2>1, <2>2 DEF SplicedFrom
<1>8. \A q \in Nodes \ {n, p} : \A c \in Children(h, q) : c \in Nodes \ {n} /\ (c = p => q = g)
  BY <1>2, ChildrenKnow
<1>9. ASSUME NEW x \in Nodes \ {n, p}, NEW y \in Nodes \ {n, p}, NEW m \in Nodes
      PROVE  Parts(h, m, x, y) => m \notin {n, p}
  BY <1>4, <1>5 DEF Parts
<1>10. ASSUME NEW x, NEW y, NEW m \in Nodes PROVE Parts(k, m, x, y) => m \notin {n, p}
  BY <1>7 DEF Parts, FreeNode
<1>11. ASSUME NEW x \in Nodes \ {n, p}, NEW y \in Nodes \ {n, p}, NEW m \in Nodes \ {n, p}
       PROVE  Parts(h, m, x, y) <=> Parts(k, m, x, y)
  <2>1. CASE m # g
    <3>1. k[m].first = h[m].first /\ k[m].second = h[m].second
      BY <1>7, <2>1
    <3>2. /\ h[m].first # NULL => h[m].first \in Nodes \ {n, p}
          /\ h[m].second # NULL => h[m].second \in Nodes \ {n, p}
      BY <1>8, <2>1 DEF Children
    <3> QED BY <1>1, <3>1, <3>2 DEF Parts
  <2>2. CASE m = g
    <3>1. g # NULL
      BY <2>2, NullAssumption
    <3>2. /\ \A z \in Nodes \ {n, p} : z \in below(h)[p] <=> z \in below(k)[s]
          /\ p # NULL /\ s # NULL
      BY <1>1, <1>5, NullAssumption
    <3>3. PICK o \in Nodes \ {n, p} : /\ \/ h[g].first = p /\ h[g].second = o
                                         \/ h[g].first = o /\ h[g].second = p
      <4>1. h[g].first # NULL /\ h[g].second # NULL
        BY <1>6, <3>1, WiredIsWellLinked, NullAssumption DEF Good, Wired, Children
      <4> QED BY <1>6, <1>8, <2>2, <3>1, <4>1 DEF Children
    <3>4. \/ h[g].first = p /\ h[g].second = o /\ k[g].first = s /\ k[g].second = o
          \/ h[g].first = o /\ h[g].second = p /\ k[g].first = o /\ k[g].second = s
      BY <1>7, <3>1, <3>3
    <3>5. \A z \in Nodes \ {n, p} : z \in below(h)[o] <=> z \in below(k)[o]
      BY <1>1
    <3> QED BY <2>2, <3>2, <3>3, <3>4, <3>5, NullAssumption DEF Parts
  <2> QED BY <2>1, <2>2
<1>12. ASSUME NEW x \in Nodes \ {n, p}, NEW y \in Nodes \ {n, p}
       PROVE  Left(h, x, y) <=> Left(k, x, y)
  BY <1>9, <1>10, <1>11 DEF Left
<1>13. /\ \A x \in Nodes : h[x].client \in U => x \in Nodes \ {n, p}
       /\ \A x \in Nodes : k[x].client \in U => x \in Nodes \ {n, p}
  BY <1>7, NullAssumption DEF FreeNode
<1>14. ASSUME NEW u \in U, NEW v \in U PROVE WindowLeft(h, u, v) <=> WindowLeft(k, u, v)
  BY <1>7, <1>12, <1>13 DEF WindowLeft
<1> QED BY <1>14 DEF OrderKept

\* The first window of a desktop is to the left and right of none.
LEMMA FirstKeepsOrder ==
  ASSUME NEW h, Good(h), NEW n \in FreeNodes(h), NEW x, LoneRoot(x)
  PROVE  OrderKept(h, [h EXCEPT ![n] = x], Windows \ {x.client})
<1> DEFINE k == [h EXCEPT ![n] = x]
<1>1. n \in Nodes /\ h[n].type = "NONE" /\ h \in Heaps
  BY DEF FreeNodes, Good
<1>2. k[n] = x /\ \A m \in Nodes \ {n} : k[m] = h[m]
  BY <1>1 DEF Heaps
<1>3. Wired(h, n)
  BY <1>1, WiredIsWellLinked DEF Good
<1>4. Forest(k) /\ Forest(h)
  BY RootGood, GoodIsForest
<1> HIDE DEF k
<1>5. h[n].first = NULL /\ h[n].second = NULL /\ h[n].client = NULL
  BY <1>1, <1>3 DEF Wired
<1>6. \A m \in Nodes : /\ k[m].first = h[m].first /\ k[m].second = h[m].second
                       /\ \/ k[m].client = h[m].client
                          \/ /\ k[m].client \notin Windows \ {x.client}
                             /\ h[m].client \notin Windows \ {x.client}
  BY <1>2, <1>5, NullAssumption DEF LoneRoot
<1>7. OrderKept(h, k, Windows \ {x.client})
  BY <1>4, <1>6, KeptLinks
<1> QED BY <1>7 DEF k

\* unlink_node leaves the other windows in order.
LEMMA UnlinkKeepsOrder ==
  ASSUME NEW h, Good(h), NEW n, LeafNode(h, n)
  PROVE  OrderKept(h, unlink_node(h, n), Windows \ {h[n].client})
<1> DEFINE k == unlink_node(h, n)
           p == h[n].parent
           s == get_sibling(h, n)
           g == h[p].parent
<1>1. /\ Detached(k, n)
      /\ p # NULL => s \in Nodes \ {n, p}
      /\ p = NULL => k = h
      /\ p # NULL => /\ SplicedFrom(h, k, n, p, s, g)
                     /\ p \in Nodes \ {n} /\ h[p].client = NULL /\ h[s].parent = p
  BY UnlinkDetaches
<1>2. n \in Nodes /\ Wired(h, n)
  BY WiredIsWellLinked DEF LeafNode, Good
<1>3. h[n].first = NULL /\ h[n].second = NULL
  BY <1>2 DEF LeafNode, Wired
<1>4. Forest(k)
  BY <1>1, DetachedIsForest
<1>5. CASE p = NULL
  BY <1>1, <1>5 DEF OrderKept
<1>6. CASE p # NULL
  <2> HIDE DEF k, s, g, p
  <2>1. s = get_sibling(h, n) /\ g = h[p].parent /\ h[n].parent = p
    BY DEF s, g, p
  <2>2. OrderKept(h, k, Windows \ {h[n].client})
    BY <1>1, <1>2, <1>3, <1>4, <1>6, <2>1, SpliceKeepsOrder
  <2> QED BY <2>2 DEF k
<1> QED BY <1>5, <1>6

\* The detached leaf being put out of use does.
LEMMA FreeKeepsOrder ==
  ASSUME NEW k, NEW n, Detached(k, n), NEW j, Gone(k, j, n)
  PROVE  OrderKept(k, j, Windows \ {k[n].client})
<1>1. Forest(j) /\ Forest(k)
  BY FreeDetached, GoodIsForest, DetachedIsForest
<1>2. \A m \in Nodes : /\ j[m].first = k[m].first /\ j[m].second = k[m].second
                       /\ \/ j[m].client = k[m].client
                          \/ /\ j[m].client \notin Windows \ {k[n].client}
                             /\ k[m].client \notin Windows \ {k[n].client}
  BY NullAssumption DEF Gone, Detached
<1> QED BY <1>1, <1>2, KeptLinks

\* The detached leaf becoming a root does.
LEMMA RootKeepsOrder ==
  ASSUME NEW k, NEW n, Detached(k, n)
  PROVE  OrderKept(k, [k EXCEPT ![n].type = "ROOT"], Windows)
<1> DEFINE j == [k EXCEPT ![n].type = "ROOT"]
<1>1. \A m \in Nodes : /\ j[m].first = k[m].first /\ j[m].second = k[m].second
                       /\ j[m].client = k[m].client
  BY DEF Detached, Heaps, NodeRecords
<1>2. Forest(j) /\ Forest(k)
  BY RootDetached, GoodIsForest, DetachedIsForest
<1> HIDE DEF j
<1>3. OrderKept(k, j, Windows)
  BY <1>1, <1>2, KeptLinks
<1> QED BY <1>3 DEF j

\* Hanging the detached leaf next to another does.
LEMMA HangKeepsOrder ==
  ASSUME NEW k, NEW n, Detached(k, n), NEW leaf, LeafNode(k, leaf), leaf # n,
         NEW at \in FreeNodes(k), NEW j, Forest(j), SplitFrom(k, j, leaf, at, n),
         j[n].client = k[n].client
  PROVE  OrderKept(k, j, Windows \ {k[n].client})
<1>1. /\ n \in Nodes /\ at \in Nodes /\ leaf \in Nodes /\ n # at /\ at # leaf
      /\ Wired(k, at) /\ Wired(k, leaf) /\ k[at].type = "NONE"
      /\ k[leaf].client # NULL /\ k[leaf].type # "NONE"
      /\ k[n].parent = NULL /\ k[n].first = NULL /\ k[n].second = NULL
  BY DEF LeafNode, FreeNodes, Detached
<1>2. /\ k[at].parent = NULL /\ k[at].first = NULL /\ k[at].second = NULL
      /\ k[at].client = NULL /\ k[leaf].first = NULL /\ k[leaf].second = NULL
  BY <1>1 DEF Wired
<1>3. Forest(k)
  BY DetachedIsForest
<1> QED BY <1>1, <1>2, <1>3, SplitKeepsOrder

\* So does splitting a leaf for a new window.
LEMMA NewKeepsOrder ==
  ASSUME NEW h, Good(h), NEW leaf, LeafNode(h, leaf), NEW at \in FreeNodes(h),
         NEW new \in FreeNodes(h), at # new, NEW k, Good(k), SplitFrom(h, k, leaf, at, new)
  PROVE  OrderKept(h, k, Windows \ {k[new].client})
<1>1. /\ new \in Nodes /\ at \in Nodes /\ leaf \in Nodes /\ new # leaf /\ at # leaf
      /\ Wired(h, at) /\ Wired(h, leaf) /\ Wired(h, new)
      /\ h[at].type = "NONE" /\ h[new].type = "NONE"
      /\ h[leaf].client # NULL /\ h[leaf].type # "NONE"
  BY WiredIsWellLinked DEF LeafNode, FreeNodes, Good
<1>2. /\ h[at].parent = NULL /\ h[at].first = NULL /\ h[at].second = NULL
      /\ h[new].parent = NULL /\ h[new].first = NULL /\ h[new].second = NULL
      /\ h[at].client = NULL /\ h[new].client = NULL
      /\ h[leaf].first = NULL /\ h[leaf].second = NULL
  BY <1>1 DEF Wired
<1>3. Forest(h) /\ Forest(k)
  BY GoodIsForest
<1> QED BY <1>1, <1>2, <1>3, SplitKeepsOrder

-----------------------------------------------------------------------------
(* Leaked nodes.                                                           *)

\* No node of the heap h was leaked.
Unleaked(h) == \A n \in Nodes : h[n].leaked = NULL

\* Changes of flags leak nothing.
LEMMA ShapeUnleaked ==
  ASSUME NEW h, NEW k, SameShape(h, k), Unleaked(h)
  PROVE  Unleaked(k)
BY DEF SameShape, Unleaked

\* A new node leaks nothing.
LEMMA NewUnleaked ==
  ASSUME NEW h \in Heaps, Unleaked(h), NEW n, NEW x, x.leaked = NULL
  PROVE  Unleaked([h EXCEPT ![n] = x])
BY DEF Heaps, Unleaked

\* Nor does surgery on nodes that were not leaked before.
LEMMA SurgeryUnleaked ==
  ASSUME NEW h \in Heaps, Unleaked(h), NEW n
  PROVE  /\ Unleaked(unlink_node(h, n))
         /\ n \in Nodes => Unleaked(free_node(h, n))
         /\ Unleaked([h EXCEPT ![n].type = "ROOT"])
         /\ Unleaked(swap_node(h, n))
         /\ \A leaf, at, fl : Unleaked(insert_node(h, leaf, at, n, fl))
         /\ \A leaf, at : Unleaked(transfer_node(h, leaf, at, n))
<1>1. \A m \in Nodes : h[m] \in NodeRecords /\ h[m].leaked = NULL
  BY DEF Heaps, Unleaked
<1>2. FreeNode.leaked = NULL
  BY DEF FreeNode
<1>3. \A w, p : create_node(w, "EXTERNAL", p).leaked = NULL
  BY DEF create_node, FreeNode
<1>4. ASSUME NEW p, NEW s, NEW g PROVE Unleaked(splice(h, n, p, s, g))
  BY <1>1, <1>2 DEF Unleaked, splice, NodeRecords
<1>5. Unleaked(unlink_node(h, n))
  BY <1>4 DEF unlink_node
<1>6. n \in Nodes => Unleaked(free_node(h, n))
  BY <1>1, <1>2 DEF Unleaked, free_node, Heaps
<1>7. Unleaked([h EXCEPT ![n].type = "ROOT"])
  BY <1>1 DEF Unleaked, Heaps, NodeRecords
<1>8. Unleaked(swap_node(h, n))
  BY <1>1 DEF Unleaked, swap_node, Heaps, NodeRecords
<1>9. ASSUME NEW leaf, NEW at, NEW fl PROVE Unleaked(insert_node(h, leaf, at, n, fl))
  BY <1>1 DEF Unleaked, insert_node, create_node, FreeNode, NodeRecords
<1>10. ASSUME NEW leaf, NEW at PROVE Unleaked(transfer_node(h, leaf, at, n))
  BY <1>1, <1>3 DEF Unleaked, transfer_node, NodeRecords
<1> QED BY <1>5, <1>6, <1>7, <1>8, <1>9, <1>10
=============================================================================
