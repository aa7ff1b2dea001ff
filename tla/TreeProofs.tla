----------------------------- MODULE TreeProofs -----------------------------
(***************************************************************************)
(* The search tree (BinarySearchTree) proved: whatever is added, removed,  *)
(* cleared and copied, the tree is sound, what Search finds is a set of    *)
(* keys that every call changes as it should, and Add keeps a balanced tree*)
(* balanced.  The tree is described with the set D[n] of the keys below    *)
(* every node n (and n itself): Shape says that links and order agree with *)
(* D, Fresh that what a node caches agrees with what its children cache.   *)
(* The two sides are handled as one: Before(s, a, b) orders keys, Other(s) *)
(* is the other side.                                                      *)
(*                                                                         *)
(* Then maps and sets (MapAndSet), which are such trees: a walk in an      *)
(* order, by an iterator that goes from each point to the next, meets all  *)
(* points in that order, and every call keeps the tree, the values or      *)
(* items of its nodes and the size in agreement.                           *)
(***************************************************************************)
EXTENDS MapAndSet, FiniteSetTheorems, SequenceTheorems, WellFoundedInduction, TLAPS

---------------------------------------------------------------------------
(* Numbers, loops and finite sets *)

\* The natural numbers are well-founded.
LEMMA LeastNumber ==
  ASSUME NEW T, T \subseteq Nat, T # {}
  PROVE  \E n \in T : \A m \in T : n <= m
<1> DEFINE R == OpToRel(<, Nat)
<1>1. IsWellFoundedOn(R, Nat)
  BY NatLessThanWellFounded
<1>2. PICK n \in T : \A m \in T : <<m, n>> \notin R
  <2> HIDE DEF R
  <2> QED
    BY <1>1, WFMin
<1>3. \A m \in T : ~(m < n)
  <2> SUFFICES ASSUME NEW m \in T, m < n PROVE FALSE
    OBVIOUS
  <2>1. <<m, n>> \in Nat \X Nat /\ <<m, n>>[1] < <<m, n>>[2]
    OBVIOUS
  <2>2. <<m, n>> \in R
    BY <2>1 DEF OpToRel
  <2> QED
    BY <1>2, <2>2
<1> QED
  BY <1>3

\* The loop as a tail recursion: it steps until it is done, and then gives something out.
Solves(f, S, step, Done, out) ==
  /\ f = [w \in S |-> f[w]]
  /\ \A w \in S : f[w] = IF w \in Done THEN out[w] ELSE f[step[w]]

\* The loop stays in I, and no part of I can hold it for ever.
Proceeds(I, step, Done) ==
  /\ \A w \in I : w \notin Done => step[w] \in I
  /\ \A X \in SUBSET I : X # {} => \E w \in X : w \in Done \/ step[w] \notin X

\* v is what is given out somewhere in I.
ResultIn(I, Done, out, v) == \E x \in I : x \in Done /\ v = out[x]

\* A tail recursion has a solution, even one that never ends: the result for w is what
\* is given out where the steps from w come to a stop.
LEMMA TailRecursion ==
  ASSUME NEW S, NEW step \in [S -> S], NEW Done \in SUBSET S, NEW out
  PROVE  \E f : Solves(f, S, step, Done, out)
<1> DEFINE Closed(X) == \A y \in X : y \notin Done => step[y] \in X
           Reach(w)  == {x \in S : \A X \in SUBSET S : w \in X /\ Closed(X) => x \in X}
           Stop(w)   == CHOOSE x : x \in Reach(w) /\ x \in Done
           f         == [w \in S |-> out[Stop(w)]]
<1>1. ASSUME NEW w \in S
      PROVE  w \in Reach(w) /\ Closed(Reach(w)) /\ Reach(w) \in SUBSET S
  OBVIOUS
<1>2. ASSUME NEW w \in Done PROVE Reach(w) = {w}
  <2>1. {w} \in SUBSET S /\ Closed({w})
    OBVIOUS
  <2> QED
    BY <2>1, <1>1
<1>3. ASSUME NEW w \in S, w \notin Done
      PROVE  \A x : x \in Reach(w) /\ x \in Done <=> x \in Reach(step[w]) /\ x \in Done
  <2>1. Reach(step[w]) \subseteq Reach(w)
    <3> SUFFICES ASSUME NEW x \in Reach(step[w]), NEW X \in SUBSET S, w \in X, Closed(X)
                 PROVE  x \in X
      OBVIOUS
    <3> QED
      BY <1>3
  <2>2. Reach(w) \subseteq {w} \cup Reach(step[w])
    <3>1. step[w] \in Reach(step[w]) /\ Closed(Reach(step[w])) /\ Reach(step[w]) \in SUBSET S
      BY <1>1
    <3> HIDE DEF Reach
    <3>2. Closed({w} \cup Reach(step[w])) /\ {w} \cup Reach(step[w]) \in SUBSET S
      BY <3>1
    <3> QED
      BY <3>2 DEF Reach
  <2> HIDE DEF Reach
  <2> QED
    BY <2>1, <2>2, <1>3
<1>4. ASSUME NEW w \in S PROVE f[w] = IF w \in Done THEN out[w] ELSE f[step[w]]
  <2>1. CASE w \in Done
    <3>1. Stop(w) = w
      <4> HIDE DEF Reach
      <4> QED
        BY <1>2, <2>1
    <3> HIDE DEF Stop
    <3> QED
      BY <2>1, <3>1
  <2>2. CASE w \notin Done
    <3>1. Stop(w) = Stop(step[w])
      <4> HIDE DEF Reach
      <4> QED
        BY <1>3, <2>2
    <3>2. step[w] \in S
      OBVIOUS
    <3> HIDE DEF Stop
    <3> QED
      BY <2>2, <3>1, <3>2
  <2> QED
    BY <2>1, <2>2
<1>5. f = [w \in S |-> f[w]]
  OBVIOUS
<1> HIDE DEF f
<1> QED
  BY <1>4, <1>5 DEF Solves

\* A loop that proceeds in I comes to an end in I.
LEMMA LoopEnds ==
  ASSUME NEW S, NEW step, NEW Done, NEW out, NEW f, NEW I \in SUBSET S,
         Solves(f, S, step, Done, out), Proceeds(I, step, Done), NEW w0 \in I
  PROVE  ResultIn(I, Done, out, f[w0])
<1> DEFINE X == {w \in I : ~ \E x \in I : x \in Done /\ f[w] = out[x]}
<1>1. ASSUME X # {} PROVE FALSE
  <2>1. PICK w \in X : w \in Done \/ step[w] \notin X
    <3>1. X \in SUBSET I
      OBVIOUS
    <3> HIDE DEF X
    <3> QED
      BY <1>1, <3>1 DEF Proceeds
  <2>2. w \in I /\ f[w] = IF w \in Done THEN out[w] ELSE f[step[w]]
    BY DEF Solves
  <2>3. CASE w \in Done
    BY <2>2, <2>3
  <2>4. CASE w \notin Done
    <3>1. step[w] \in I /\ step[w] \notin X
      BY <2>1, <2>2, <2>4 DEF Proceeds
    <3>2. PICK x \in I : x \in Done /\ f[step[w]] = out[x]
      BY <3>1
    <3> QED
      BY <2>2, <2>4, <3>2
  <2> QED
    BY <2>3, <2>4
<1> QED
  BY <1>1 DEF ResultIn

\* A recursion over the numbers has a solution.
LEMMA NatRecursion ==
  ASSUME NEW S, NEW a \in S, NEW g \in [S -> S]
  PROVE  \E f \in [Nat -> S] : f[0] = a /\ \A n \in Nat : f[n + 1] = g[f[n]]
<1> DEFINE Good(h, n) == h[0] = a /\ \A i \in 0 .. n - 1 : h[i + 1] = g[h[i]]
           H(n)       == CHOOSE h : h \in [0 .. n -> S] /\ Good(h, n)
<1>1. \A n \in Nat : \E h \in [0 .. n -> S] : Good(h, n)
  <2> DEFINE Bad == {n \in Nat : ~ \E h \in [0 .. n -> S] : Good(h, n)}
  <2>1. SUFFICES ASSUME Bad # {} PROVE FALSE
    OBVIOUS
  <2>2. PICK n \in Bad : \A m \in Bad : n <= m
    <3>1. Bad \subseteq Nat
      OBVIOUS
    <3> HIDE DEF Bad
    <3> QED
      BY <2>1, <3>1, LeastNumber
  <2>3. CASE n = 0
    <3>1. [i \in 0 .. 0 |-> a] \in [0 .. 0 -> S] /\ Good([i \in 0 .. 0 |-> a], 0)
      OBVIOUS
    <3> QED
      BY <2>3, <3>1
  <2>4. CASE n # 0
    <3>1. n - 1 \in Nat /\ n - 1 \notin Bad
      <4>1. n \in Nat
        OBVIOUS
      <4> HIDE DEF Bad
      <4> QED
        BY <2>2, <2>4, <4>1
    <3>2. PICK h \in [0 .. n - 1 -> S] : Good(h, n - 1)
      BY <3>1
    <3> DEFINE k == [i \in 0 .. n |-> IF i = n THEN g[h[n - 1]] ELSE h[i]]
    <3>3. n \in Nat /\ n - 1 \in 0 .. n - 1
      BY <3>1
    <3>4. \A i \in 0 .. n : i = n \/ i \in 0 .. n - 1
      BY <3>3
    <3>5. k \in [0 .. n -> S]
      BY <3>3, <3>4
    <3>6. k[0] = a
      BY <3>2, <3>3, <2>4
    <3>7. ASSUME NEW i \in 0 .. n - 1 PROVE k[i + 1] = g[k[i]]
      <4>1. i # n /\ k[i] = h[i] /\ i + 1 \in 0 .. n
        BY <3>3
      <4>2. CASE i = n - 1
        BY <4>1, <4>2, <3>3
      <4>3. CASE i # n - 1
        <5>1. i \in 0 .. (n - 1) - 1 /\ i + 1 # n
          BY <4>3, <3>3
        <5>2. k[i + 1] = h[i + 1]
          BY <4>1, <5>1
        <5> QED
          BY <4>1, <5>1, <5>2, <3>2
      <4> QED
        BY <4>2, <4>3
    <3> HIDE DEF k
    <3>8. Good(k, n)
      BY <3>6, <3>7
    <3> QED
      BY <3>5, <3>8, <2>2
  <2> QED
    BY <2>3, <2>4
<1>2. \A n \in Nat : H(n) \in [0 .. n -> S] /\ Good(H(n), n)
  <2> SUFFICES ASSUME NEW n \in Nat PROVE H(n) \in [0 .. n -> S] /\ Good(H(n), n)
    OBVIOUS
  <2>1. \E h : h \in [0 .. n -> S] /\ Good(h, n)
    BY <1>1
  <2> HIDE DEF Good
  <2> QED
    BY <2>1, Zenon
<1> HIDE DEF H
<1>3. ASSUME NEW n \in Nat PROVE \A i \in 0 .. n : H(n + 1)[i] = H(n)[i]
  <2> DEFINE Bad == {i \in 0 .. n : H(n + 1)[i] # H(n)[i]}
  <2>1. SUFFICES ASSUME Bad # {} PROVE FALSE
    OBVIOUS
  <2>2. PICK i \in Bad : \A m \in Bad : i <= m
    <3>1. Bad \subseteq Nat
      OBVIOUS
    <3> HIDE DEF Bad
    <3> QED
      BY <2>1, <3>1, LeastNumber
  <2>3. Good(H(n), n) /\ Good(H(n + 1), n + 1) /\ n + 1 \in Nat
    BY <1>2
  <2>4. i # 0 /\ i \in 0 .. n
    BY <2>3
  <2>5. i - 1 \in 0 .. n - 1 /\ i - 1 \in 0 .. (n + 1) - 1 /\ i - 1 \in 0 .. n /\ i - 1 < i
    BY <2>4
  <2>6. i - 1 \notin Bad
    BY <2>2, <2>5
  <2>7. H(n + 1)[i - 1] = H(n)[i - 1]
    BY <2>5, <2>6
  <2>8. H(n)[(i - 1) + 1] = g[H(n)[i - 1]] /\ H(n + 1)[(i - 1) + 1] = g[H(n + 1)[i - 1]]
    BY <2>3, <2>5
  <2>9. (i - 1) + 1 = i
    BY <2>4
  <2> QED
    BY <2>7, <2>8, <2>9
<1> DEFINE f == [n \in Nat |-> H(n)[n]]
<1>4. f \in [Nat -> S] /\ f[0] = a
  BY <1>2
<1>5. ASSUME NEW n \in Nat PROVE f[n + 1] = g[f[n]]
  <2>1. n + 1 \in Nat /\ n \in 0 .. (n + 1) - 1 /\ n \in 0 .. n
    OBVIOUS
  <2>2. H(n + 1)[n + 1] = g[H(n + 1)[n]]
    BY <1>2, <2>1
  <2>3. H(n + 1)[n] = H(n)[n]
    BY <1>3, <2>1
  <2> QED
    BY <2>1, <2>2, <2>3
<1> QED
  BY <1>4, <1>5

\* A smaller finite set has fewer elements.
LEMMA FewerElements ==
  ASSUME NEW T, IsFiniteSet(T), NEW S, S \subseteq T, S # T
  PROVE  Cardinality(S) \in Nat /\ Cardinality(T) \in Nat /\ Cardinality(S) < Cardinality(T)
<1>1. IsFiniteSet(S) /\ Cardinality(S) <= Cardinality(T) /\ (Cardinality(S) = Cardinality(T) => S = T)
  BY FS_Subset
<1>2. Cardinality(S) \in Nat /\ Cardinality(T) \in Nat
  BY <1>1, FS_CardinalityType
<1> QED
  BY <1>1, <1>2

---------------------------------------------------------------------------
(* The two sides *)

Sides        == {"left", "right"}
Other(s)     == IF s = "left" THEN "right" ELSE "left"
EndOf(s)     == IF s = "left" THEN "leftmost" ELSE "rightmost"

\* Key a belongs on side s of key b.
Before(s, a, b) == IF s = "left" THEN a < b ELSE a > b

\* Both sides order the keys, in opposite directions.
LEMMA SidesOrder ==
  ASSUME NEW s \in Sides, NEW a \in Keys, NEW b \in Keys, NEW c \in Keys
  PROVE  /\ Other(s) \in Sides /\ Other(s) # s /\ Other(Other(s)) = s
         /\ Before(s, a, b) <=> Before(Other(s), b, a)
         /\ Before(s, a, b) /\ Before(s, b, c) => Before(s, a, c)
         /\ ~Before(s, a, a)
         /\ a # b => Before(s, a, b) \/ Before(Other(s), a, b)
  BY KeysAssumption DEF Before, Sides, Other

\* A key is a node, not the null pointer.
LEMMA KeysAreNodes == /\ \A k \in Keys : k \in Node /\ k # NoNode /\ k \in Nat
                      /\ \A n \in Node : n # NoNode => n \in Keys
                      /\ NoNode \in Node /\ NoNode = 0
  BY KeysAssumption DEF Node, NoNode

\* The types of the fields of a node, by side.
LEMMA FieldTypes ==
  ASSUME NEW t \in Tree, NEW n \in Keys
  PROVE  /\ t.parent[n] \in Node /\ t.height[n] \in Nat
         /\ t.left[n] \in Node /\ t.right[n] \in Node
         /\ t.leftmost[n] \in Node /\ t.rightmost[n] \in Node
         /\ \A s \in Sides : t[s][n] \in Node /\ t[EndOf(s)][n] \in Node
         /\ t.root \in Node /\ t.size \in Nat
  BY DEF Tree, Links, Sides, EndOf

\* What a child contributes is a number, 0 only when there is no child.
LEMMA ChildHeights ==
  ASSUME NEW t \in Tree, NEW n \in Node
  PROVE  /\ ChildHeight(t, n) \in Nat
         /\ n = NoNode => ChildHeight(t, n) = 0
         /\ n # NoNode => ChildHeight(t, n) = t.height[n] + 1 /\ t.height[n] \in Nat
  BY DEF Tree, Links, ChildHeight, Node

---------------------------------------------------------------------------
(* Shape: links and order *)

\* The fields of a key without a node.
NoFields(t, m) == /\ t.parent[m] = 0 /\ t.left[m] = 0 /\ t.right[m] = 0
               /\ t.height[m] = 0 /\ t.leftmost[m] = 0 /\ t.rightmost[m] = 0

\* n, its parent and its children know each other; the keys below it are on their sides.
Linked(t, D, n) ==
  /\ t.parent[n] \in Allocated(t) \cup {NoNode}
  /\ \A s \in Sides : t[s][n] \in Allocated(t) \cup {NoNode}
  /\ D[n] = {n} \cup D[t.left[n]] \cup D[t.right[n]]
  /\ \A s \in Sides : t[s][n] # NoNode => t.parent[t[s][n]] = n
  /\ \A s \in Sides : \A m \in D[t[s][n]] : Before(s, m, n)
  /\ t.parent[n] # NoNode => \E s \in Sides : t[s][t.parent[n]] = n

Shape(t, D) ==
  /\ t \in Tree /\ D \in [Node -> SUBSET Keys] /\ D[NoNode] = {}
  /\ \A m \in Keys \ Allocated(t) : NoFields(t, m) /\ D[m] = {}
  /\ \A n \in Allocated(t) : Linked(t, D, n)
  /\ Allocated(t) # {} =>
       \E top \in Allocated(t) : t.parent[top] = NoNode /\ D[top] = Allocated(t)

\* c is the child of m on side s, or the null pointer.
ChildOK(u, E, m, s, c) == /\ c = u[s][m] /\ c \in Allocated(u) \cup {NoNode}
                          /\ c # NoNode => u.parent[c] = m
                          /\ \A x \in E[c] : Before(s, x, m)

\* m is a child of its parent.
ParentOK(u, m) == /\ u.parent[m] \in Allocated(u) \cup {NoNode}
                  /\ u.parent[m] # NoNode => \E q \in Sides : u[q][u.parent[m]] = m

\* Linked, from what holds on one side and on the other.
LEMMA LinkedBySides ==
  ASSUME NEW u, NEW E, NEW m, NEW s \in Sides, NEW r, r = Other(s), NEW a, NEW b,
         ChildOK(u, E, m, s, a), ChildOK(u, E, m, r, b), ParentOK(u, m),
         E[m] = {m} \cup E[a] \cup E[b]
  PROVE  Linked(u, E, m)
<1>1. CASE s = "left" /\ r = "right"
  <2>1. u.left[m] = a /\ u.right[m] = b
    BY <1>1 DEF ChildOK
  <2> QED
    BY <1>1, <2>1 DEF Linked, Sides, ChildOK, ParentOK
<1>2. CASE s = "right" /\ r = "left"
  <2>1. u.left[m] = b /\ u.right[m] = a
    BY <1>2 DEF ChildOK
  <2>2. E[m] = {m} \cup E[b] \cup E[a]
    OBVIOUS
  <2> QED
    BY <1>2, <2>1, <2>2 DEF Linked, Sides, ChildOK, ParentOK
<1> QED
  BY <1>1, <1>2 DEF Sides, Other

\* What Shape says of one node.
LEMMA NodeShape ==
  ASSUME NEW t, NEW D, Shape(t, D), NEW n \in Allocated(t)
  PROVE  /\ n \in Keys /\ n # NoNode /\ n \in Node /\ n \in D[n] /\ D[n] \subseteq Keys
         /\ t.parent[n] \in Allocated(t) \cup {NoNode} /\ t.parent[n] \in Node
         /\ D[n] = {n} \cup D[t.left[n]] \cup D[t.right[n]]
         /\ t.parent[n] # NoNode => \E s \in Sides : t[s][t.parent[n]] = n
  BY KeysAreNodes DEF Shape, Linked, Allocated

\* What Shape says of the child of n on side s.
LEMMA ChildShape ==
  ASSUME NEW t, NEW D, Shape(t, D), NEW n \in Allocated(t), NEW s \in Sides
  PROVE  /\ t[s][n] \in Allocated(t) \cup {NoNode} /\ t[s][n] \in Node
         /\ D[t[s][n]] \subseteq D[n] /\ n \notin D[t[s][n]]
         /\ \A m \in D[t[s][n]] : m \in Keys /\ Before(s, m, n)
         /\ t[s][n] # NoNode => t.parent[t[s][n]] = n /\ t[s][n] \in D[t[s][n]] /\ t[s][n] # n
         /\ D[n] = {n} \cup D[t[s][n]] \cup D[t[Other(s)][n]]
         /\ D[t[s][n]] \cap D[t[Other(s)][n]] = {}
         /\ t[s][n] # NoNode => t[s][n] # t[Other(s)][n]
<1>0. Linked(t, D, n) /\ n \in Keys /\ n \in Node
  BY KeysAreNodes DEF Shape, Allocated
<1>1. t[s][n] \in Allocated(t) \cup {NoNode} /\ t[s][n] \in Node
  BY <1>0, KeysAreNodes DEF Linked, Allocated
<1>2. D[n] = {n} \cup D[t[s][n]] \cup D[t[Other(s)][n]]
  <2>1. CASE s = "left"
    BY <1>0, <2>1 DEF Linked, Other
  <2>2. CASE s = "right"
    BY <1>0, <2>2 DEF Linked, Other
  <2> QED
    BY <2>1, <2>2 DEF Sides
<1>3. \A m \in D[t[s][n]] : m \in Keys /\ Before(s, m, n)
  BY <1>0, <1>1 DEF Linked, Shape
<1>4. n \notin D[t[s][n]]
  BY <1>0, <1>3, SidesOrder
<1>5. t[s][n] # NoNode => t.parent[t[s][n]] = n /\ t[s][n] \in D[t[s][n]]
  BY <1>0, <1>1, NodeShape DEF Linked
<1>6. \A m \in D[t[Other(s)][n]] : m \in Keys /\ Before(Other(s), m, n)
  <2>1. Other(s) \in Sides
    BY DEF Other, Sides
  <2> QED
    BY <1>0, <2>1, KeysAreNodes DEF Linked, Shape, Allocated
<1>7. D[t[s][n]] \cap D[t[Other(s)][n]] = {}
  <2> SUFFICES ASSUME NEW m \in D[t[s][n]], m \in D[t[Other(s)][n]] PROVE FALSE
    OBVIOUS
  <2>1. Before(s, m, n) /\ Before(Other(s), m, n) /\ m \in Keys
    BY <1>3, <1>6
  <2>2. Before(s, n, m) /\ Before(s, m, m)
    BY <1>0, <2>1, SidesOrder
  <2> QED
    BY <2>1, <2>2, SidesOrder
<1> QED
  BY <1>1, <1>2, <1>3, <1>4, <1>5, <1>7

\* Among any nodes there is one none of whose children is among them.
LEMMA LowestNode ==
  ASSUME NEW t, NEW D, Shape(t, D), NEW X \in SUBSET Allocated(t), X # {}
  PROVE  \E n \in X : \A s \in Sides : t[s][n] \notin X
<1> DEFINE sizes == {Cardinality(D[n]) : n \in X}
<1>1. \A n \in X : IsFiniteSet(D[n]) /\ Cardinality(D[n]) \in Nat
  <2> SUFFICES ASSUME NEW n \in X PROVE IsFiniteSet(D[n]) /\ Cardinality(D[n]) \in Nat
    OBVIOUS
  <2>1. D[n] \subseteq Keys
    BY NodeShape
  <2> QED
    BY <2>1, KeysAssumption, FS_Subset, FS_CardinalityType
<1>2. PICK n \in X : \A m \in X : Cardinality(D[n]) <= Cardinality(D[m])
  <2>1. sizes \subseteq Nat /\ sizes # {}
    BY <1>1
  <2>2. PICK c \in sizes : \A d \in sizes : c <= d
    BY <2>1, LeastNumber
  <2> QED
    BY <2>2
<1>3. ASSUME NEW s \in Sides, t[s][n] \in X PROVE FALSE
  <2>1. D[t[s][n]] \subseteq D[n] /\ n \notin D[t[s][n]] /\ n \in D[n]
    BY ChildShape, NodeShape
  <2>2. Cardinality(D[t[s][n]]) < Cardinality(D[n])
    BY <1>1, <2>1, FewerElements
  <2> QED
    BY <1>1, <1>2, <1>3, <2>2
<1> QED
  BY <1>3

\* Among any nodes there is one whose parent is not among them.
LEMMA HighestNode ==
  ASSUME NEW t, NEW D, Shape(t, D), NEW X \in SUBSET Allocated(t), X # {}
  PROVE  \E n \in X : t.parent[n] \notin X
<1> DEFINE sizes == {Cardinality(Keys \ D[n]) : n \in X}
<1>1. \A n \in X : IsFiniteSet(Keys \ D[n]) /\ Cardinality(Keys \ D[n]) \in Nat
  <2> SUFFICES ASSUME NEW n \in X PROVE IsFiniteSet(Keys \ D[n]) /\ Cardinality(Keys \ D[n]) \in Nat
    OBVIOUS
  <2>1. Keys \ D[n] \subseteq Keys
    OBVIOUS
  <2> QED
    BY <2>1, KeysAssumption, FS_Subset, FS_CardinalityType
<1>2. PICK n \in X : \A m \in X : Cardinality(Keys \ D[n]) <= Cardinality(Keys \ D[m])
  <2>1. sizes \subseteq Nat /\ sizes # {}
    BY <1>1
  <2>2. PICK c \in sizes : \A d \in sizes : c <= d
    BY <2>1, LeastNumber
  <2> QED
    BY <2>2
<1>3. ASSUME t.parent[n] \in X PROVE FALSE
  <2> DEFINE p == t.parent[n]
  <2>1. p \in Allocated(t) /\ p # NoNode
    BY <1>3, NodeShape
  <2>2. PICK s \in Sides : t[s][p] = n
    BY <2>1, NodeShape
  <2>3. D[n] \subseteq D[p] /\ p \notin D[n] /\ p \in D[p] /\ p \in Keys
    BY <2>1, <2>2, ChildShape, NodeShape
  <2>4. Cardinality(Keys \ D[p]) < Cardinality(Keys \ D[n])
    BY <1>1, <2>3, FewerElements
  <2> QED
    BY <1>1, <1>2, <1>3, <2>4
<1> QED
  BY <1>3

\* What is below n are nodes, with all that is below them.
LEMMA BelowIsClosed ==
  ASSUME NEW t, NEW D, Shape(t, D), NEW n \in Allocated(t)
  PROVE  /\ D[n] \subseteq Allocated(t)
         /\ \A m \in D[n] : D[m] \subseteq D[n]
         /\ \A m \in D[n] : m # n => t.parent[m] \in D[n] /\ t.parent[m] # NoNode
<1> DEFINE Good(k) == /\ D[k] \subseteq Allocated(t)
                      /\ \A m \in D[k] : D[m] \subseteq D[k]
                      /\ \A m \in D[k] : m # k => t.parent[m] \in D[k] /\ t.parent[m] # NoNode
           X == {k \in Allocated(t) : ~Good(k)}
<1>1. SUFFICES ASSUME X # {} PROVE FALSE
  OBVIOUS
<1>2. PICK k \in X : \A s \in Sides : t[s][k] \notin X
  <2>1. X \in SUBSET Allocated(t)
    OBVIOUS
  <2> HIDE DEF X
  <2> QED
    BY <1>1, <2>1, LowestNode
<1>3. k \in Allocated(t) /\ ~Good(k)
  OBVIOUS
<1>4. ASSUME NEW s \in Sides, NEW m \in D[t[s][k]]
      PROVE  m \in Allocated(t) /\ D[m] \subseteq D[k] /\ t.parent[m] \in D[k] /\ t.parent[m] # NoNode
  <2>1. t[s][k] # NoNode /\ t[s][k] \in Allocated(t)
    BY <1>3, <1>4, ChildShape DEF Shape
  <2>2. Good(t[s][k])
    BY <1>2, <2>1
  <2>3. D[t[s][k]] \subseteq D[k] /\ t.parent[t[s][k]] = k /\ k \in D[k] /\ k # NoNode
    BY <1>3, <2>1, ChildShape, NodeShape
  <2> QED
    BY <1>4, <2>2, <2>3
<1>5. \A m \in D[k] : m = k \/ \E s \in Sides : m \in D[t[s][k]]
  BY <1>3, NodeShape DEF Sides
<1>6. Good(k)
  <2> HIDE DEF X
  <2> QED
    BY <1>3, <1>4, <1>5
<1> QED
  BY <1>3, <1>6

\* Every node is below the only one without a parent.
LEMMA OneTop ==
  ASSUME NEW t, NEW D, Shape(t, D), NEW n \in Allocated(t), t.parent[n] = NoNode
  PROVE  D[n] = Allocated(t)
<1>1. PICK top \in Allocated(t) : D[top] = Allocated(t)
  BY DEF Shape
<1>2. n \in D[top]
  BY <1>1
<1>3. n = top
  BY <1>2, BelowIsClosed
<1> QED
  BY <1>1, <1>3

\* A node is on one side of all that is below another.
LEMMA BelowIsConvex ==
  ASSUME NEW t, NEW D, Shape(t, D), NEW n \in Allocated(t), NEW x \in Allocated(t), x \notin D[n]
  PROVE  \E s \in Sides : \A y \in D[n] : Before(s, x, y)
<1> DEFINE X == {k \in Allocated(t) : x \notin D[k] /\ ~ \E s \in Sides : \A y \in D[k] : Before(s, x, y)}
<1>1. SUFFICES ASSUME X # {} PROVE FALSE
  OBVIOUS
<1>2. PICK k \in X : t.parent[k] \notin X
  <2>1. X \in SUBSET Allocated(t)
    OBVIOUS
  <2> HIDE DEF X
  <2> QED
    BY <1>1, <2>1, HighestNode
<1>3. /\ k \in Allocated(t) /\ x \notin D[k]
      /\ ~ \E s \in Sides : \A y \in D[k] : Before(s, x, y)
  OBVIOUS
<1>4. t.parent[k] # NoNode /\ t.parent[k] \in Allocated(t)
  BY <1>3, OneTop, NodeShape
<1>5. PICK s \in Sides : t[s][t.parent[k]] = k
  BY <1>3, <1>4, NodeShape
<1> DEFINE p == t.parent[k]
<1>6. D[k] \subseteq D[p] /\ D[p] = {p} \cup D[k] \cup D[t[Other(s)][p]] /\ p \in Keys /\ x \in Keys
  BY <1>4, <1>5, ChildShape, NodeShape
<1>7. \A y \in D[k] : y \in Keys /\ Before(s, y, p)
  BY <1>4, <1>5, ChildShape
<1>8. CASE x \notin D[p]
  <2>1. \E r \in Sides : \A y \in D[p] : Before(r, x, y)
    BY <1>2, <1>4, <1>8
  <2> QED
    BY <1>3, <1>6, <2>1
<1>9. CASE x \in D[p]
  <2>1. Other(s) \in Sides
    BY SidesOrder DEF Sides, Other
  <2>2. x = p \/ Before(Other(s), x, p)
    BY <1>3, <1>4, <1>6, <1>9, <2>1, ChildShape
  <2>3. ASSUME NEW y \in D[k] PROVE Before(Other(s), x, y)
    <3>1. y \in Keys /\ Before(Other(s), p, y)
      BY <1>6, <1>7, SidesOrder
    <3> QED
      BY <1>6, <2>1, <2>2, <3>1, SidesOrder
  <2> QED
    BY <1>3, <2>1, <2>3
<1> QED
  BY <1>8, <1>9

---------------------------------------------------------------------------
(* Freshness: what a node caches *)

\* The height that n has by what its children cache.
Taller(t, n) == IF ChildHeight(t, t.left[n]) > ChildHeight(t, t.right[n])
                THEN ChildHeight(t, t.left[n]) ELSE ChildHeight(t, t.right[n])

\* The end of the subtree of n on side s, by what its child on that side caches.
Farthest(t, s, n) == IF t[s][n] = NoNode THEN n ELSE t[EndOf(s)][t[s][n]]

Fresh(t, n) == /\ t.height[n] = Taller(t, n)
               /\ \A s \in Sides : t[EndOf(s)][n] = Farthest(t, s, n)

\* Refresh changes what n caches, to what Fresh asks for, and nothing else.
LEMMA RefreshFields ==
  ASSUME NEW t \in Tree, NEW n \in Keys
  PROVE  LET new == Refresh(t, n)
         IN  /\ new \in Tree /\ new.root = t.root /\ new.size = t.size
             /\ new.parent = t.parent /\ new.left = t.left /\ new.right = t.right
             /\ \A s \in Sides : new[s] = t[s]
             /\ new.height[n] = Taller(t, n)
             /\ \A s \in Sides : new[EndOf(s)][n] = Farthest(t, s, n)
             /\ \A m \in Keys : m # n => /\ new.height[m] = t.height[m]
                                         /\ new.leftmost[m] = t.leftmost[m]
                                         /\ new.rightmost[m] = t.rightmost[m]
             /\ \A s \in Sides, m \in Keys : m # n => new[EndOf(s)][m] = t[EndOf(s)][m]
<1>1. t.left[n] \in Node /\ t.right[n] \in Node
  BY FieldTypes
<1>2. ChildHeight(t, t.left[n]) \in Nat /\ ChildHeight(t, t.right[n]) \in Nat
  BY <1>1, ChildHeights
<1>3. t.left[n] # NoNode => t.leftmost[t.left[n]] \in Node
  BY <1>1, FieldTypes, KeysAreNodes
<1>4. t.right[n] # NoNode => t.rightmost[t.right[n]] \in Node
  BY <1>1, FieldTypes, KeysAreNodes
<1>5. n \in Node
  BY KeysAreNodes
<1> QED
  BY <1>1, <1>2, <1>3, <1>4, <1>5
  DEF Refresh, Tree, Links, Sides, EndOf, Taller, Farthest

\* A fresh node is as Refresh would leave it.
LEMMA FreshIsRefreshed ==
  ASSUME NEW t \in Tree, NEW n \in Keys, Fresh(t, n)
  PROVE  Refresh(t, n) = t
<1> DEFINE l == t.left[n]
           r == t.right[n]
           h == Taller(t, n)
           a == IF l = NoNode THEN n ELSE t.leftmost[l]
           b == IF r = NoNode THEN n ELSE t.rightmost[r]
<1>1. t.height[n] = h /\ t.leftmost[n] = a /\ t.rightmost[n] = b
  BY DEF Fresh, Farthest, Sides, EndOf
<1>2. Refresh(t, n) = [t EXCEPT !.height[n] = h, !.leftmost[n] = a, !.rightmost[n] = b]
  BY DEF Refresh, Taller
<1> HIDE DEF h, a, b
<1>3. [t.height EXCEPT ![n] = h] = t.height
  BY <1>1 DEF Tree
<1>4. [t.leftmost EXCEPT ![n] = a] = t.leftmost
  BY <1>1 DEF Tree, Links
<1>5. [t.rightmost EXCEPT ![n] = b] = t.rightmost
  BY <1>1 DEF Tree, Links
<1>6. [t EXCEPT !.height[n] = h, !.leftmost[n] = a, !.rightmost[n] = b] = t
  BY <1>3, <1>4, <1>5 DEF Tree
<1> QED
  BY <1>2, <1>6

AllFresh(t) == \A n \in Allocated(t) : Fresh(t, n)

\* Fresh caches name the ends of a subtree, which have no child on their side.
LEMMA EndsAreEnds ==
  ASSUME NEW t, NEW D, Shape(t, D), AllFresh(t), NEW n \in Allocated(t), NEW s \in Sides
  PROVE  LET e == t[EndOf(s)][n]
         IN  /\ e \in D[n] /\ e \in Allocated(t) /\ t[s][e] = NoNode
             /\ \A m \in D[n] : m = e \/ Before(s, e, m)
<1> DEFINE Good(k) == /\ t[EndOf(s)][k] \in D[k]
                      /\ \A m \in D[k] : m = t[EndOf(s)][k] \/ Before(s, t[EndOf(s)][k], m)
           X == {k \in Allocated(t) : ~Good(k)}
<1>1. ASSUME X # {} PROVE FALSE
  <2>2. PICK k \in X : \A r \in Sides : t[r][k] \notin X
    <3>1. X \in SUBSET Allocated(t)
      OBVIOUS
    <3> HIDE DEF X
    <3> QED
      BY <1>1, <3>1, LowestNode
  <2>3. k \in Allocated(t) /\ ~Good(k)
    OBVIOUS
  <2>4. t[EndOf(s)][k] = IF t[s][k] = NoNode THEN k ELSE t[EndOf(s)][t[s][k]]
    BY <2>3 DEF AllFresh, Fresh, Farthest
  <2>5. D[k] = {k} \cup D[t[s][k]] \cup D[t[Other(s)][k]] /\ k \in Keys /\ k \in D[k]
    BY <2>3, ChildShape, NodeShape
  <2>6. Other(s) \in Sides
    BY DEF Sides, Other
  <2>7. \A m \in D[t[Other(s)][k]] : m \in Keys /\ Before(s, k, m)
    BY <2>3, <2>5, <2>6, ChildShape, SidesOrder
  <2>8. CASE t[s][k] = NoNode
    <3>1. D[t[s][k]] = {}
      BY <2>8 DEF Shape
    <3>2. Good(k)
      BY <2>4, <2>5, <2>7, <2>8, <3>1
    <3> QED
      BY <2>3, <3>2
  <2>9. CASE t[s][k] # NoNode
    <3> DEFINE c == t[s][k]
               e == t[EndOf(s)][c]
    <3>1. c \in Allocated(t)
      BY <2>3, <2>9, ChildShape
    <3>2. e \in D[c] /\ \A m \in D[c] : m = e \/ Before(s, e, m)
      BY <2>2, <3>1
    <3>3. e \in Keys /\ Before(s, e, k)
      BY <2>3, <3>2, ChildShape
    <3>4. \A m \in D[t[Other(s)][k]] : Before(s, e, m)
      BY <2>5, <2>7, <3>3, SidesOrder
    <3>5. t[EndOf(s)][k] = e
      BY <2>4, <2>9
    <3> HIDE DEF c, e
    <3>6. Good(k)
      BY <2>5, <3>2, <3>3, <3>4, <3>5 DEF c
    <3> QED
      BY <2>3, <3>6
  <2> QED
    BY <2>8, <2>9
<1>2. Good(n)
  BY <1>1
<1>3. t[EndOf(s)][n] \in Allocated(t)
  BY <1>2, BelowIsClosed
<1>4. ASSUME t[s][t[EndOf(s)][n]] # NoNode PROVE FALSE
  <2> DEFINE e == t[EndOf(s)][n]
             x == t[s][e]
  <2>1. x \in D[x] /\ x \in Keys /\ e \in Keys /\ Before(s, x, e) /\ D[x] \subseteq D[e]
    BY <1>3, <1>4, ChildShape, NodeShape
  <2>2. x \in D[n] /\ x # e
    BY <1>2, <1>3, <2>1, BelowIsClosed, SidesOrder
  <2>3. Before(s, e, x)
    BY <1>2, <2>2
  <2> QED
    BY <2>1, <2>3, SidesOrder
<1> QED
  BY <1>2, <1>3, <1>4

\* The keys of the subtree of n, as LinksAreSound counts them, are those of D[n].
LEMMA SubtreeIsBelow ==
  ASSUME NEW t, NEW D, Shape(t, D), NEW n \in Allocated(t) \cup {NoNode}
  PROVE  Subtree(t, n) = D[n]
<1> DEFINE sub[m \in Node] == IF m = NoNode THEN {} ELSE {m} \cup sub[t.left[m]] \cup sub[t.right[m]]
<1>1. Subtree(t, n) = sub[n]
  BY DEF Subtree
<1>2. \E f : f = [m \in Node |-> IF m = NoNode THEN {} ELSE {m} \cup f[t.left[m]] \cup f[t.right[m]]]
  <2> DEFINE g == [m \in Node |-> IF m \in Keys \ Allocated(t) THEN {m} ELSE D[m]]
  <2>1. ASSUME NEW m \in Node
        PROVE  g[m] = IF m = NoNode THEN {} ELSE {m} \cup g[t.left[m]] \cup g[t.right[m]]
    <3>0. NoNode \in Node /\ NoNode \notin Keys
      BY KeysAreNodes
    <3>1. CASE m = NoNode
      BY <3>0, <3>1 DEF Shape
    <3>2. CASE m \in Keys \ Allocated(t)
      <4>1. t.left[m] = NoNode /\ t.right[m] = NoNode
        BY <3>2 DEF Shape, NoFields, NoNode
      <4>2. g[NoNode] = {} /\ g[m] = {m} /\ m # NoNode
        BY <3>0, <3>2 DEF Shape
      <4> HIDE DEF g
      <4> QED
        BY <4>1, <4>2
    <3>3. CASE m \in Allocated(t)
      <4>1. /\ t.left[m] \in Allocated(t) \cup {NoNode} /\ t.right[m] \in Allocated(t) \cup {NoNode}
            /\ t.left[m] \in Node /\ t.right[m] \in Node
        BY <3>3, ChildShape DEF Sides
      <4>2. m # NoNode /\ D[m] = {m} \cup D[t.left[m]] \cup D[t.right[m]]
        BY <3>3, NodeShape
      <4>3. g[m] = D[m] /\ g[t.left[m]] = D[t.left[m]] /\ g[t.right[m]] = D[t.right[m]]
        BY <3>0, <3>3, <4>1
      <4> HIDE DEF g
      <4> QED
        BY <4>2, <4>3
    <3> QED
      BY <3>1, <3>2, <3>3 DEF Node
  <2>2. g = [m \in Node |-> g[m]]
    OBVIOUS
  <2> HIDE DEF g
  <2>3. g = [m \in Node |-> IF m = NoNode THEN {} ELSE {m} \cup g[t.left[m]] \cup g[t.right[m]]]
    BY <2>1, <2>2
  <2> QED
    BY <2>3
<1>3. sub = [m \in Node |-> IF m = NoNode THEN {} ELSE {m} \cup sub[t.left[m]] \cup sub[t.right[m]]]
  BY <1>2, Zenon
<1> HIDE DEF sub
<1>4. sub[NoNode] = {} /\ D[NoNode] = {}
  BY <1>3, KeysAreNodes DEF Shape
<1>5. ASSUME NEW m \in Allocated(t)
      PROVE  sub[m] = {m} \cup sub[t.left[m]] \cup sub[t.right[m]]
  <2>1. m \in Node /\ m # NoNode
    BY NodeShape
  <2> QED
    BY <1>3, <2>1
<1> DEFINE X == {m \in Allocated(t) : sub[m] # D[m]}
<1>6. ASSUME X # {} PROVE FALSE
  <2>1. PICK m \in X : \A s \in Sides : t[s][m] \notin X
    <3>1. X \in SUBSET Allocated(t)
      OBVIOUS
    <3> HIDE DEF X
    <3> QED
      BY <1>6, <3>1, LowestNode
  <2>2. m \in Allocated(t) /\ sub[m] # D[m]
    OBVIOUS
  <2>3. t.left[m] \in Allocated(t) \cup {NoNode} /\ t.right[m] \in Allocated(t) \cup {NoNode}
    BY <2>2, ChildShape DEF Sides
  <2>4. t.left[m] \notin X /\ t.right[m] \notin X
    BY <2>1 DEF Sides
  <2>5. sub[t.left[m]] = D[t.left[m]] /\ sub[t.right[m]] = D[t.right[m]]
    BY <1>4, <2>3, <2>4
  <2>6. D[m] = {m} \cup D[t.left[m]] \cup D[t.right[m]]
    BY <2>2, NodeShape
  <2> QED
    BY <1>5, <2>2, <2>5, <2>6
<1> QED
  BY <1>1, <1>4, <1>6

---------------------------------------------------------------------------
(* Search *)

\* The root is the node without a parent.
Rooted(t) == /\ t.root \in Allocated(t) \cup {NoNode}
             /\ t.root = NoNode => Allocated(t) = {}
             /\ t.root # NoNode => t.parent[t.root] = NoNode

\* The side of n that key k belongs on.
Towards(k, n) == IF k < n THEN "left" ELSE "right"

\* Key k is on the right side of every node above n, as n is.
Fits(t, D, k, n) == \A m \in Allocated(t), s \in Sides : n \in D[t[s][m]] => Before(s, k, m)

\* The search for k ends at its node, or where it would be a leaf.
LEMMA SearchFinds ==
  ASSUME NEW t, NEW D, Shape(t, D), Rooted(t), Allocated(t) # {}, NEW k \in Keys
  PROVE  LET e == SearchEnd(t, k)
         IN  /\ e \in Allocated(t) /\ Fits(t, D, k, e)
             /\ k \in Allocated(t) => e = k
             /\ k \notin Allocated(t) => t[Towards(k, e)][e] = NoNode
<1> DEFINE go[n \in Keys] == LET next == IF k < n THEN t.left[n] ELSE t.right[n]
                             IN  IF n = k \/ next = NoNode THEN n ELSE go[next]
           Stops == {n \in Keys : n = k \/ t[Towards(k, n)][n] = NoNode}
           step  == [n \in Keys |-> IF n \in Stops THEN n ELSE t[Towards(k, n)][n]]
           out   == [n \in Keys |-> n]
           I     == {n \in Allocated(t) : Fits(t, D, k, n) /\ (k \in Allocated(t) => k \in D[n])}
<1>1. SearchEnd(t, k) = go[t.root]
  BY DEF SearchEnd, Rooted
<1>2. \A n \in Keys : t[Towards(k, n)][n] = (IF k < n THEN t.left[n] ELSE t.right[n]) /\ Towards(k, n) \in Sides
  BY DEF Towards, Sides
<1>3. step \in [Keys -> Keys] /\ Stops \in SUBSET Keys
  <2> SUFFICES ASSUME NEW n \in Keys, n \notin Stops PROVE t[Towards(k, n)][n] \in Keys
    OBVIOUS
  <2>1. t[Towards(k, n)][n] \in Node
    BY <1>2, FieldTypes DEF Shape
  <2> QED
    BY <2>1, KeysAreNodes
<1>4. \A f : \A n \in Keys : (IF n \in Stops THEN out[n] ELSE f[step[n]])
                              = LET next == IF k < n THEN t.left[n] ELSE t.right[n]
                                IN  IF n = k \/ next = NoNode THEN n ELSE f[next]
  BY <1>2
<1>5. \E f : f = [n \in Keys |-> LET next == IF k < n THEN t.left[n] ELSE t.right[n]
                                 IN  IF n = k \/ next = NoNode THEN n ELSE f[next]]
  <2> HIDE DEF step, Stops, out
  <2>1. PICK f : Solves(f, Keys, step, Stops, out)
    BY <1>3, TailRecursion
  <2>2. f = [n \in Keys |-> LET next == IF k < n THEN t.left[n] ELSE t.right[n]
                            IN  IF n = k \/ next = NoNode THEN n ELSE f[next]]
    BY <1>4, <2>1 DEF Solves
  <2> QED
    BY <2>2
<1>6. go = [n \in Keys |-> LET next == IF k < n THEN t.left[n] ELSE t.right[n]
                           IN  IF n = k \/ next = NoNode THEN n ELSE go[next]]
  BY <1>5, Zenon
<1>7. Solves(go, Keys, step, Stops, out)
  <2> HIDE DEF go, step, Stops, out
  <2> QED
    BY <1>4, <1>6 DEF Solves
<1> HIDE DEF go
<1>8. I \in SUBSET Keys
  BY DEF Allocated
<1>9. ASSUME NEW n \in I, n \notin Stops PROVE step[n] \in I
  <2> DEFINE s == Towards(k, n)
             c == t[s][n]
  <2>1. n \in Allocated(t) /\ n \in Keys /\ n # k /\ c # NoNode /\ step[n] = c
    BY <1>8, <1>9
  <2>2. s \in Sides /\ Other(s) \in Sides
    BY DEF Towards, Sides, Other
  <2>3. Before(s, k, n) /\ ~Before(Other(s), k, n)
    BY <2>1, KeysAssumption DEF Towards, Before, Other
  <2>4. c \in Allocated(t) /\ t.parent[c] = n /\ c \in D[c]
    BY <2>1, <2>2, ChildShape
  <2>5. Fits(t, D, k, c)
    <3> SUFFICES ASSUME NEW m \in Allocated(t), NEW r \in Sides, c \in D[t[r][m]]
                 PROVE  Before(r, k, m)
      BY DEF Fits
    <3>1. t[r][m] \in Allocated(t) /\ t.parent[t[r][m]] = m
      BY ChildShape DEF Shape
    <3>2. CASE c = t[r][m]
      <4>1. m = n
        BY <2>4, <3>1, <3>2
      <4>2. r = s
        BY <2>1, <2>2, <3>1, <3>2, <4>1, ChildShape DEF Sides, Other
      <4> QED
        BY <2>3, <4>1, <4>2
    <3>3. CASE c # t[r][m]
      <4>1. n \in D[t[r][m]]
        BY <2>4, <3>1, <3>3, BelowIsClosed
      <4> QED
        BY <4>1 DEF Fits
    <3> QED
      BY <3>2, <3>3
  <2>6. k \in Allocated(t) => k \in D[c]
    <3> SUFFICES ASSUME k \in Allocated(t) PROVE k \in D[c]
      OBVIOUS
    <3>1. k \in D[n] /\ D[n] = {n} \cup D[c] \cup D[t[Other(s)][n]]
      BY <2>1, <2>2, ChildShape
    <3>2. k \notin D[t[Other(s)][n]]
      BY <2>1, <2>2, <2>3, ChildShape
    <3> QED
      BY <2>1, <3>1, <3>2
  <2> QED
    BY <2>1, <2>4, <2>5, <2>6
<1>10. ASSUME NEW X \in SUBSET I, X # {}
       PROVE  \E n \in X : n \in Stops \/ step[n] \notin X
  <2>1. X \in SUBSET Allocated(t)
    OBVIOUS
  <2>2. PICK n \in X : \A s \in Sides : t[s][n] \notin X
    BY <1>10, <2>1, LowestNode
  <2>3. n \in Keys /\ t[Towards(k, n)][n] \notin X
    BY <1>2, <1>8, <2>2
  <2> QED
    BY <2>2, <2>3
<1>11. t.root \in I
  <2>1. t.root \in Allocated(t) /\ t.parent[t.root] = NoNode
    BY DEF Rooted
  <2>2. k \in Allocated(t) => k \in D[t.root]
    BY <2>1, OneTop
  <2>3. ASSUME NEW m \in Allocated(t), NEW r \in Sides, t.root \in D[t[r][m]] PROVE FALSE
    <3>1. t[r][m] \in Allocated(t) /\ t.parent[t[r][m]] = m /\ m # NoNode
      BY <2>3, ChildShape, NodeShape DEF Shape
    <3>2. t.root = t[r][m]
      BY <2>1, <2>3, <3>1, BelowIsClosed
    <3> QED
      BY <2>1, <3>1, <3>2
  <2> QED
    BY <2>1, <2>2, <2>3 DEF Fits
<1>12. PICK e \in I : e \in Stops /\ go[t.root] = out[e]
  <2> HIDE DEF I, step, Stops, out
  <2> QED
    <3>1. Proceeds(I, step, Stops)
      BY <1>9, <1>10 DEF Proceeds
    <3>2. ResultIn(I, Stops, out, go[t.root])
      BY <1>7, <1>8, <1>11, <3>1, LoopEnds
    <3> QED
      BY <3>2 DEF ResultIn
<1>13. SearchEnd(t, k) = e /\ e \in Keys
  BY <1>1, <1>8, <1>12
<1>14. e \in Allocated(t) /\ Fits(t, D, k, e) /\ (k \in Allocated(t) => k \in D[e])
  OBVIOUS
<1>15. ASSUME k \in Allocated(t), e # k PROVE FALSE
  <2> DEFINE s == Towards(k, e)
  <2>1. s \in Sides /\ Other(s) \in Sides /\ t[s][e] = NoNode /\ ~Before(Other(s), k, e)
    BY <1>12, <1>13, <1>15, KeysAssumption DEF Towards, Sides, Other, Before
  <2>2. D[e] = {e} \cup D[t[Other(s)][e]]
    BY <1>14, <2>1, ChildShape DEF Shape
  <2>3. k \notin D[t[Other(s)][e]]
    BY <1>14, <2>1, ChildShape
  <2> QED
    BY <1>14, <1>15, <2>2, <2>3
<1> QED
  BY <1>12, <1>13, <1>14, <1>15

\* What Search finds are the nodes of the tree.
LEMMA SearchIsExact ==
  ASSUME NEW t, NEW D, Shape(t, D), Rooted(t)
  PROVE  /\ \A k \in Keys : Contains(t, k) <=> k \in Allocated(t)
         /\ Contents(t) = Allocated(t)
<1>1. ASSUME NEW k \in Keys PROVE Contains(t, k) <=> k \in Allocated(t)
  <2>1. CASE Allocated(t) = {}
    <3>1. SearchEnd(t, k) = NoNode
      BY <2>1 DEF Rooted, SearchEnd
    <3> QED
      BY <2>1, <3>1, KeysAreNodes DEF Contains
  <2>2. CASE Allocated(t) # {}
    BY <2>2, SearchFinds DEF Contains
  <2> QED
    BY <2>1, <2>2
<1> QED
  BY <1>1 DEF Contents, Allocated

---------------------------------------------------------------------------
(* Iterating *)

\* The side of its parent that a node is on.
LEMMA SideIsExact ==
  ASSUME NEW t, NEW D, Shape(t, D), NEW n \in Allocated(t), NEW s \in Sides
  PROVE  SideOfParent(t, n) = s <=> t.parent[n] # NoNode /\ t[s][t.parent[n]] = n
<1> DEFINE p == t.parent[n]
<1>1. CASE p = NoNode
  BY <1>1 DEF SideOfParent, Sides
<1>2. CASE p # NoNode
  <2>1. p \in Allocated(t) /\ n # NoNode
    BY <1>2, NodeShape
  <2>2. ~(t.left[p] = n /\ t.right[p] = n)
    <3>1. "left" \in Sides /\ Other("left") = "right"
      BY DEF Sides, Other
    <3>2. t["left"][p] # NoNode => t["left"][p] # t[Other("left")][p]
      BY <2>1, <3>1, ChildShape
    <3> QED
      BY <2>1, <3>1, <3>2
  <2>3. CASE s = "left"
    BY <1>2, <2>2, <2>3 DEF SideOfParent
  <2>4. CASE s = "right"
    BY <1>2, <2>2, <2>4 DEF SideOfParent
  <2> QED
    BY <2>3, <2>4 DEF Sides
<1> QED
  BY <1>1, <1>2

\* From a node without a child on the other side the climb passes nodes of which n is the
\* end on that side: it stops below a parent to that side, or above the top.
LEMMA ClimbEnds ==
  ASSUME NEW t, NEW D, Shape(t, D), NEW n \in Allocated(t), NEW s \in Sides,
         t[Other(s)][n] = NoNode
  PROVE  LET j == ClimbTo(t, n, s)
         IN  \/ j = NoNode /\ \A m \in Allocated(t) : m = n \/ Before(s, m, n)
             \/ /\ j \in Allocated(t) /\ n \in D[j] /\ \A m \in D[j] : m = n \/ Before(s, m, n)
                /\ t.parent[j] # NoNode /\ t[s][t.parent[j]] = j
<1> DEFINE up[j \in Node] == IF j = NoNode \/ SideOfParent(t, j) = s THEN j ELSE up[t.parent[j]]
           Stops == {j \in Node : j = NoNode \/ SideOfParent(t, j) = s}
           step  == [j \in Node |-> IF j = NoNode THEN j ELSE t.parent[j]]
           out   == [j \in Node |-> j]
           IsEnd(S) == \A m \in S : m = n \/ Before(s, m, n)
           I     == {j \in Allocated(t) : n \in D[j] /\ IsEnd(D[j])}
                    \cup {j \in {NoNode} : IsEnd(Allocated(t))}
<1>1. ClimbTo(t, n, s) = up[n]
  BY DEF ClimbTo
<1>2. step \in [Node -> Node] /\ Stops \in SUBSET Node
  BY FieldTypes, KeysAreNodes DEF Shape
<1>3. \A f : \A j \in Node : (IF j \in Stops THEN out[j] ELSE f[step[j]])
                              = IF j = NoNode \/ SideOfParent(t, j) = s THEN j ELSE f[t.parent[j]]
  OBVIOUS
<1>4. \E f : f = [j \in Node |-> IF j = NoNode \/ SideOfParent(t, j) = s THEN j ELSE f[t.parent[j]]]
  <2> HIDE DEF step, Stops, out
  <2>1. PICK f : Solves(f, Node, step, Stops, out)
    BY <1>2, TailRecursion
  <2>2. f = [j \in Node |-> IF j = NoNode \/ SideOfParent(t, j) = s THEN j ELSE f[t.parent[j]]]
    BY <1>3, <2>1 DEF Solves
  <2> QED
    BY <2>2
<1>5. up = [j \in Node |-> IF j = NoNode \/ SideOfParent(t, j) = s THEN j ELSE up[t.parent[j]]]
  BY <1>4, Zenon
<1>6. Solves(up, Node, step, Stops, out)
  <2> HIDE DEF up, step, Stops, out
  <2> QED
    BY <1>3, <1>5 DEF Solves
<1> HIDE DEF up
<1>7. I \in SUBSET Node
  BY KeysAreNodes DEF Allocated
<1>8. Other(s) \in Sides /\ Other(Other(s)) = s /\ n \in D[n] /\ n \in Keys
  BY NodeShape DEF Sides, Other
<1>9. n \in I
  <2>1. D[n] = {n} \cup D[t[s][n]]
    BY <1>8, ChildShape DEF Shape
  <2>2. \A m \in D[t[s][n]] : Before(s, m, n)
    BY ChildShape
  <2> QED
    BY <1>8, <2>1, <2>2
<1>10. ASSUME NEW j \in I, j \notin Stops PROVE step[j] \in I
  <2> DEFINE p == t.parent[j]
  <2>1. j \in Allocated(t) /\ n \in D[j] /\ IsEnd(D[j]) /\ step[j] = p
    BY <1>7, <1>10
  <2>2. CASE p = NoNode
    BY <2>1, <2>2, OneTop
  <2>3. CASE p # NoNode
    <3>1. p \in Allocated(t) /\ p \in Keys
      BY <2>1, <2>3, NodeShape
    <3>2. t[Other(s)][p] = j
      <4>1. PICK r \in Sides : t[r][p] = j
        BY <2>1, <2>3, NodeShape
      <4>2. r # s
        BY <1>7, <1>10, <2>1, <2>3, <4>1, SideIsExact
      <4> QED
        BY <4>1, <4>2 DEF Sides, Other
    <3>3. D[p] = {p} \cup D[j] \cup D[t[s][p]]
      BY <1>8, <3>1, <3>2, ChildShape
    <3>4. Before(s, p, n)
      <4>1. Before(Other(s), n, p)
        BY <1>8, <2>1, <3>1, <3>2, ChildShape
      <4> QED
        BY <1>8, <3>1, <4>1, SidesOrder
    <3>5. \A m \in D[t[s][p]] : Before(s, m, n)
      <4> SUFFICES ASSUME NEW m \in D[t[s][p]] PROVE Before(s, m, n)
        OBVIOUS
      <4>1. m \in Keys /\ Before(s, m, p)
        BY <3>1, ChildShape
      <4> QED
        BY <1>8, <3>1, <3>4, <4>1, SidesOrder
    <3> QED
      BY <2>1, <3>1, <3>3, <3>4, <3>5
  <2> QED
    BY <2>2, <2>3
<1>11. ASSUME NEW X \in SUBSET I, X # {}
       PROVE  \E j \in X : j \in Stops \/ step[j] \notin X
  <2>1. CASE NoNode \in X
    BY <2>1, KeysAreNodes
  <2>2. CASE NoNode \notin X
    <3>1. X \in SUBSET Allocated(t)
      BY <2>2
    <3>2. PICK j \in X : t.parent[j] \notin X
      BY <1>11, <3>1, HighestNode
    <3> QED
      BY <1>7, <2>2, <3>2
  <2> QED
    BY <2>1, <2>2
<1>12. PICK j \in I : j \in Stops /\ up[n] = out[j]
  <2> HIDE DEF I, step, Stops, out
  <2>1. Proceeds(I, step, Stops)
    BY <1>10, <1>11 DEF Proceeds
  <2>2. ResultIn(I, Stops, out, up[n])
    BY <1>6, <1>7, <1>9, <2>1, LoopEnds
  <2> QED
    BY <2>2 DEF ResultIn
<1>13. ClimbTo(t, n, s) = j
  BY <1>1, <1>7, <1>12
<1>14. CASE j = NoNode
  BY <1>12, <1>13, <1>14, NodeShape
<1>15. CASE j # NoNode
  <2>1. j \in Allocated(t) /\ n \in D[j] /\ IsEnd(D[j])
    BY <1>15
  <2>2. t.parent[j] # NoNode /\ t[s][t.parent[j]] = j
    BY <1>12, <1>15, <2>1, SideIsExact
  <2> QED
    BY <1>13, <2>1, <2>2
<1> QED
  BY <1>14, <1>15

\* The node that an iterator goes to from n, away from side s, or the null pointer.
Neighbour(t, n, s) ==
  LET c    == t[Other(s)][n]
      jump == ClimbTo(t, n, s)
  IN  IF c # NoNode THEN t[EndOf(s)][c]
      ELSE IF jump # NoNode THEN t.parent[jump] ELSE NoNode

\* It is the next one in order, if there is one.
LEMMA NeighbourIsNext ==
  ASSUME NEW t, NEW D, Shape(t, D), AllFresh(t), NEW n \in Allocated(t), NEW s \in Sides
  PROVE  LET x     == Neighbour(t, n, s)
             Later == {k \in Allocated(t) : Before(s, n, k)}
         IN  /\ Later = {} => x = NoNode
             /\ Later # {} => x \in Later /\ \A k \in Later : k = x \/ Before(s, x, k)
<1> DEFINE o == Other(s)
           c == t[o][n]
           j == ClimbTo(t, n, s)
           Later == {k \in Allocated(t) : Before(s, n, k)}
<1>1. o \in Sides /\ Other(o) = s /\ n \in Keys /\ n \in D[n]
  BY NodeShape DEF Sides, Other
<1>2. \A k \in Later : k \in Keys /\ k \in Allocated(t) /\ Before(s, n, k) /\ k # n /\ ~Before(s, k, n)
  <2> SUFFICES ASSUME NEW k \in Later PROVE k \in Keys /\ k # n /\ ~Before(s, k, n)
    OBVIOUS
  <2> QED
    BY <1>1, NodeShape, SidesOrder
<1>3. ASSUME NEW k \in Later, NEW q \in Allocated(t), n \in D[q], k \notin D[q], NEW y \in D[q]
      PROVE  Before(s, y, k)
  <2>1. PICK r \in Sides : \A z \in D[q] : Before(r, k, z)
    BY <1>2, <1>3, BelowIsConvex
  <2>2. r = o
    BY <1>2, <1>3, <2>1 DEF Sides, Other
  <2>3. Before(o, k, y) /\ y \in Keys
    BY <1>3, <2>1, <2>2, NodeShape
  <2> QED
    BY <1>1, <1>2, <2>3, SidesOrder
<1>4. CASE c # NoNode
  <2> DEFINE e == t[EndOf(s)][c]
  <2>1. c \in Allocated(t) /\ D[c] \subseteq D[n] /\ D[n] = {n} \cup D[c] \cup D[t[s][n]]
    BY <1>1, <1>4, ChildShape
  <2>2. e \in D[c] /\ e \in Allocated(t) /\ \A m \in D[c] : m = e \/ Before(s, e, m)
    BY <2>1, EndsAreEnds
  <2>3. e \in Later
    <3>1. e \in Keys /\ Before(o, e, n)
      BY <1>1, <2>2, ChildShape
    <3> QED
      BY <1>1, <2>2, <3>1, SidesOrder
  <2>4. ASSUME NEW k \in Later PROVE k = e \/ Before(s, e, k)
    <3>1. CASE k \in D[n]
      <4>1. k \notin D[t[s][n]]
        BY <1>2, ChildShape
      <4> QED
        BY <1>2, <2>1, <2>2, <3>1, <4>1
    <3>2. CASE k \notin D[n]
      BY <1>1, <1>3, <2>1, <2>2, <3>2
    <3> QED
      BY <3>1, <3>2
  <2>5. Neighbour(t, n, s) = e
    BY <1>4 DEF Neighbour
  <2> HIDE DEF e, Later
  <2> QED
    BY <2>3, <2>4, <2>5 DEF Later
<1>5. CASE c = NoNode /\ j # NoNode
  <2> DEFINE q == t.parent[j]
  <2>1. /\ j \in Allocated(t) /\ n \in D[j] /\ \A m \in D[j] : m = n \/ Before(s, m, n)
        /\ q # NoNode /\ t[s][q] = j
    BY <1>5, ClimbEnds
  <2>2. q \in Allocated(t) /\ q \in Keys /\ q \in D[q]
    BY <2>1, NodeShape
  <2>3. D[q] = {q} \cup D[j] \cup D[t[o][q]] /\ n \in D[q]
    BY <1>1, <2>1, <2>2, ChildShape
  <2>4. q \in Later
    <3>1. Before(s, n, q)
      BY <2>1, <2>2, ChildShape
    <3> QED
      BY <2>2, <3>1
  <2>5. ASSUME NEW k \in Later PROVE k = q \/ Before(s, q, k)
    <3>1. CASE k \in D[q]
      <4>1. k \notin D[j]
        BY <1>2, <2>1
      <4>2. CASE k \in D[t[o][q]]
        <5>1. Before(o, k, q)
          BY <1>1, <2>2, <4>2, ChildShape
        <5> QED
          BY <1>1, <1>2, <2>2, <5>1, SidesOrder
      <4> QED
        BY <2>3, <3>1, <4>1, <4>2
    <3>2. CASE k \notin D[q]
      BY <1>3, <2>2, <2>3, <3>2
    <3> QED
      BY <3>1, <3>2
  <2>6. Neighbour(t, n, s) = q
    BY <1>5 DEF Neighbour
  <2> HIDE DEF q, Later
  <2> QED
    BY <2>4, <2>5, <2>6 DEF Later
<1>6. CASE c = NoNode /\ j = NoNode
  <2>1. \A m \in Allocated(t) : m = n \/ Before(s, m, n)
    BY <1>6, ClimbEnds, NodeShape
  <2>2. Later = {}
    BY <1>2, <2>1
  <2>3. Neighbour(t, n, s) = NoNode
    BY <1>6 DEF Neighbour
  <2> QED
    BY <2>2, <2>3
<1> QED
  BY <1>4, <1>5, <1>6

\* An iterator at a node goes forwards and backwards to its neighbours; past the last
\* or the first it is invalid, and it comes back from there.
LEMMA IteratorSteps ==
  ASSUME NEW t, NEW D, Shape(t, D), AllFresh(t), NEW n \in Allocated(t)
  PROVE  /\ Neighbour(t, n, "left") # NoNode =>
              Advance(t, Iterator(n)) = Iterator(Neighbour(t, n, "left"))
         /\ Neighbour(t, n, "left") = NoNode =>
              /\ Advance(t, Iterator(n)) = [at |-> NoNode, begin |-> NoNode, end |-> n]
              /\ Retreat(t, Advance(t, Iterator(n))) = Iterator(n)
         /\ Neighbour(t, n, "right") # NoNode =>
              Retreat(t, Iterator(n)) = Iterator(Neighbour(t, n, "right"))
         /\ Neighbour(t, n, "right") = NoNode =>
              /\ Retreat(t, Iterator(n)) = [at |-> NoNode, begin |-> n, end |-> NoNode]
              /\ Advance(t, Retreat(t, Iterator(n))) = Iterator(n)
<1>1. n # NoNode /\ Iterator(n).at = n /\ Iterator(n).begin = NoNode /\ Iterator(n).end = NoNode
  BY NodeShape DEF Iterator
<1>2. Advance(t, Iterator(n)) = IF Neighbour(t, n, "left") # NoNode
                                THEN Iterator(Neighbour(t, n, "left"))
                                ELSE [at |-> NoNode, begin |-> NoNode, end |-> n]
  <2>1. "left" \in Sides /\ Other("left") = "right" /\ EndOf("left") = "leftmost"
    BY DEF Sides, Other, EndOf
  <2>2. CASE t.right[n] # NoNode
    <3>1. t["right"][n] \in Allocated(t)
      BY <2>2, ChildShape DEF Sides
    <3>2. t.leftmost[t.right[n]] # NoNode
      BY <3>1 DEF Allocated
    <3>3. Neighbour(t, n, "left") = t.leftmost[t.right[n]]
      BY <2>1, <2>2 DEF Neighbour
    <3> QED
      BY <1>1, <2>2, <3>2, <3>3 DEF Advance, Iterator
  <2>3. CASE t.right[n] = NoNode
    <3> DEFINE jump == ClimbTo(t, n, "left")
    <3>1. jump # NoNode => t.parent[jump] # NoNode
      BY <2>1, <2>3, ClimbEnds
    <3>2. Neighbour(t, n, "left") = IF jump # NoNode THEN t.parent[jump] ELSE NoNode
      BY <2>1, <2>3 DEF Neighbour
    <3>3. ClimbTo(t, Iterator(n).at, "left") = jump
      BY <1>1
    <3> HIDE DEF jump
    <3>4. Advance(t, Iterator(n)) = IF jump # NoNode THEN [Iterator(n) EXCEPT !.at = t.parent[jump]]
                                ELSE [Iterator(n) EXCEPT !.at = NoNode, !.end = n]
      BY <1>1, <2>3, <3>3 DEF Advance
    <3> QED
      BY <1>1, <3>1, <3>2, <3>4 DEF Iterator
  <2> QED
    BY <2>2, <2>3
<1>3. Retreat(t, Iterator(n)) = IF Neighbour(t, n, "right") # NoNode
                                THEN Iterator(Neighbour(t, n, "right"))
                                ELSE [at |-> NoNode, begin |-> n, end |-> NoNode]
  <2>1. "right" \in Sides /\ Other("right") = "left" /\ EndOf("right") = "rightmost"
    BY DEF Sides, Other, EndOf
  <2>2. CASE t.left[n] # NoNode
    <3>1. t["left"][n] \in Allocated(t)
      BY <2>2, ChildShape DEF Sides
    <3>2. t[EndOf("right")][t["left"][n]] # NoNode
      BY <2>1, <3>1, EndsAreEnds, NodeShape
    <3>3. Neighbour(t, n, "right") = t.rightmost[t.left[n]]
      BY <2>1, <2>2 DEF Neighbour
    <3> QED
      BY <1>1, <2>1, <2>2, <3>2, <3>3 DEF Retreat, Iterator
  <2>3. CASE t.left[n] = NoNode
    <3> DEFINE jump == ClimbTo(t, n, "right")
    <3>1. jump # NoNode => t.parent[jump] # NoNode
      BY <2>1, <2>3, ClimbEnds
    <3>2. Neighbour(t, n, "right") = IF jump # NoNode THEN t.parent[jump] ELSE NoNode
      BY <2>1, <2>3 DEF Neighbour
    <3>3. ClimbTo(t, Iterator(n).at, "right") = jump
      BY <1>1
    <3> HIDE DEF jump
    <3>4. Retreat(t, Iterator(n)) = IF jump # NoNode THEN [Iterator(n) EXCEPT !.at = t.parent[jump]]
                                ELSE [Iterator(n) EXCEPT !.at = NoNode, !.begin = n]
      BY <1>1, <2>3, <3>3 DEF Retreat
    <3> QED
      BY <1>1, <3>1, <3>2, <3>4 DEF Iterator
  <2> QED
    BY <2>2, <2>3
<1>4. Retreat(t, [at |-> NoNode, begin |-> NoNode, end |-> n]) = Iterator(n)
  BY <1>1 DEF Retreat, Iterator
<1>5. Advance(t, [at |-> NoNode, begin |-> n, end |-> NoNode]) = Iterator(n)
  BY <1>1 DEF Advance, Iterator
<1> QED
  BY <1>2, <1>3, <1>4, <1>5

---------------------------------------------------------------------------
(* What a sound tree is *)

\* All that holds of the tree between two operations.
Sound(t, D) == /\ Shape(t, D) /\ AllFresh(t) /\ Rooted(t)
               /\ t.size = Cardinality(Allocated(t))

\* The allocated nodes are finitely many.
LEMMA FewNodes ==
  ASSUME NEW t
  PROVE  /\ IsFiniteSet(Allocated(t)) /\ Cardinality(Allocated(t)) \in Nat
         /\ Cardinality(Allocated(t)) = 0 <=> Allocated(t) = {}
<1>1. Allocated(t) \subseteq Keys
  BY DEF Allocated
<1> QED
  BY <1>1, KeysAssumption, FS_Subset, FS_CardinalityType, FS_EmptySet

\* The first and the last node are the least and the greatest.
LEMMA FirstAndLast ==
  ASSUME NEW t, NEW D, Sound(t, D), Allocated(t) # {}
  PROVE  /\ First(t) \in Allocated(t) /\ \A k \in Allocated(t) : First(t) <= k
         /\ Last(t) \in Allocated(t) /\ \A k \in Allocated(t) : Last(t) >= k
         /\ Neighbour(t, First(t), "right") = NoNode /\ Neighbour(t, Last(t), "left") = NoNode
<1>1. Shape(t, D) /\ AllFresh(t) /\ t.root # NoNode /\ t.root \in Allocated(t) /\ D[t.root] = Allocated(t)
  BY OneTop DEF Sound, Rooted
<1>2. "left" \in Sides /\ "right" \in Sides /\ EndOf("left") = "leftmost" /\ EndOf("right") = "rightmost"
  BY DEF Sides, EndOf
<1>3. First(t) = t[EndOf("left")][t.root] /\ Last(t) = t[EndOf("right")][t.root]
  BY <1>1, <1>2 DEF First, Last
<1>4. First(t) \in Allocated(t) /\ \A k \in Allocated(t) : k = First(t) \/ First(t) < k
  BY <1>1, <1>2, <1>3, EndsAreEnds DEF Before
<1>5. Last(t) \in Allocated(t) /\ \A k \in Allocated(t) : k = Last(t) \/ Last(t) > k
  BY <1>1, <1>2, <1>3, EndsAreEnds DEF Before
<1>6. \A k \in Allocated(t) : k \in Nat
  BY KeysAssumption DEF Allocated
<1>7. {k \in Allocated(t) : Before("right", First(t), k)} = {}
  BY <1>4, <1>6 DEF Before
<1>8. {k \in Allocated(t) : Before("left", Last(t), k)} = {}
  BY <1>5, <1>6 DEF Before
<1>9. Neighbour(t, First(t), "right") = NoNode /\ Neighbour(t, Last(t), "left") = NoNode
  BY <1>1, <1>2, <1>4, <1>5, <1>7, <1>8, NeighbourIsNext
<1> QED
  BY <1>4, <1>5, <1>6, <1>9

\* Iterators go through a sound tree in order.
LEMMA OrderIsFollowed ==
  ASSUME NEW t, NEW D, Sound(t, D)
  PROVE  FollowsOrder(t, Allocated(t))
<1> DEFINE A == Allocated(t)
           After(n) == {k \in A : k > n}
           Sooner(n) == {k \in A : k < n}
           IsLeast(n, s)    == n \in s /\ \A k \in s : n <= k
           IsGreatest(n, s) == n \in s /\ \A k \in s : n >= k
<1>0. Shape(t, D) /\ AllFresh(t) /\ t.size = Cardinality(A) /\ t.size \in Nat
  BY FewNodes DEF Sound
<1>1. ASSUME A = {} PROVE {Begin(t), End(t), RBegin(t), REnd(t)} = {Iterator(NoNode)}
  <2>1. t.size = 0 /\ t.root = NoNode
    BY <1>0, <1>1, FewNodes DEF Sound, Rooted, Allocated
  <2> QED
    BY <2>1 DEF Begin, End, RBegin, REnd, First, Last
<1>2. ASSUME A # {}
      PROVE  /\ IsLeast(Begin(t).at, A) /\ Advance(t, REnd(t)) = Begin(t)
             /\ IsGreatest(RBegin(t).at, A) /\ Retreat(t, End(t)) = RBegin(t)
             /\ End(t) = Advance(t, Iterator(Last(t))) /\ REnd(t) = Retreat(t, Iterator(First(t)))
  <2>1. t.size > 0
    BY <1>0, <1>2, FewNodes
  <2>2. /\ Begin(t) = Iterator(First(t)) /\ RBegin(t) = Iterator(Last(t))
        /\ End(t) = Advance(t, Iterator(Last(t))) /\ REnd(t) = Retreat(t, Iterator(First(t)))
    BY <2>1 DEF Begin, RBegin, End, REnd
  <2>3. Begin(t).at = First(t) /\ RBegin(t).at = Last(t)
    BY <2>2 DEF Iterator
  <2>4. Advance(t, REnd(t)) = Begin(t)
    BY <1>0, <1>2, <2>2, FirstAndLast, IteratorSteps
  <2>5. Retreat(t, End(t)) = RBegin(t)
    BY <1>0, <1>2, <2>2, FirstAndLast, IteratorSteps
  <2> QED
    BY <1>2, <2>2, <2>3, <2>4, <2>5, FirstAndLast
<1>3. \A k \in A : k \in Nat /\ k # NoNode
  BY KeysAssumption DEF Allocated, NoNode
<1>4. ASSUME NEW n \in A
      PROVE  IF After(n) = {} THEN Advance(t, Iterator(n)) = End(t)
                              ELSE IsLeast(Advance(t, Iterator(n)).at, After(n))
  <2> DEFINE x == Neighbour(t, n, "left")
  <2>1. After(n) = {k \in A : Before("left", n, k)}
    BY <1>3 DEF Before
  <2>2. "left" \in Sides
    BY DEF Sides
  <2>3. /\ After(n) = {} => x = NoNode
        /\ After(n) # {} => x \in After(n) /\ \A k \in After(n) : k = x \/ Before("left", x, k)
    BY <1>0, <2>1, <2>2, NeighbourIsNext
  <2>4. CASE After(n) = {}
    <3>1. n = Last(t)
      BY <1>2, <1>3, <2>4, FirstAndLast
    <3> QED
      BY <1>2, <2>4, <3>1
  <2>5. CASE After(n) # {}
    <3>1. x \in After(n) /\ x \in A /\ x # NoNode
      BY <1>3, <2>3, <2>5
    <3>2. Advance(t, Iterator(n)).at = x
      <4>1. Advance(t, Iterator(n)) = Iterator(x)
        BY <1>0, <3>1, IteratorSteps
      <4> QED
        BY <4>1 DEF Iterator
    <3>3. \A k \in After(n) : x <= k
      BY <1>3, <2>3, <2>5, <3>1 DEF Before
    <3> QED
      BY <2>5, <3>1, <3>2, <3>3
  <2> QED
    BY <2>4, <2>5
<1>5. ASSUME NEW n \in A
      PROVE  IF Sooner(n) = {} THEN Retreat(t, Iterator(n)) = REnd(t)
                               ELSE IsGreatest(Retreat(t, Iterator(n)).at, Sooner(n))
  <2> DEFINE x == Neighbour(t, n, "right")
  <2>1. Sooner(n) = {k \in A : Before("right", n, k)}
    BY <1>3 DEF Before
  <2>2. "right" \in Sides
    BY DEF Sides
  <2>3. /\ Sooner(n) = {} => x = NoNode
        /\ Sooner(n) # {} => x \in Sooner(n) /\ \A k \in Sooner(n) : k = x \/ Before("right", x, k)
    BY <1>0, <2>1, <2>2, NeighbourIsNext
  <2>4. CASE Sooner(n) = {}
    <3>1. n = First(t)
      BY <1>2, <1>3, <2>4, FirstAndLast
    <3> QED
      BY <1>2, <2>4, <3>1
  <2>5. CASE Sooner(n) # {}
    <3>1. x \in Sooner(n) /\ x \in A /\ x # NoNode
      BY <1>3, <2>3, <2>5
    <3>2. Retreat(t, Iterator(n)).at = x
      <4>1. Retreat(t, Iterator(n)) = Iterator(x)
        BY <1>0, <3>1, IteratorSteps
      <4> QED
        BY <4>1 DEF Iterator
    <3>3. \A k \in Sooner(n) : x >= k
      BY <1>3, <2>3, <2>5, <3>1 DEF Before
    <3> QED
      BY <2>5, <3>1, <3>2, <3>3
  <2> QED
    BY <2>4, <2>5
<1> QED
  BY <1>1, <1>2, <1>4, <1>5 DEF FollowsOrder

\* A sound tree has what TreeIsSound asks for.
LEMMA SoundTreeIsSound ==
  ASSUME NEW D, Sound(tree, D)
  PROVE  TreeIsSound
<1>1. Shape(tree, D) /\ AllFresh(tree) /\ Rooted(tree) /\ tree \in Tree
  BY DEF Sound, Shape
<1>2. tree.root # NoNode => tree.parent[tree.root] = NoNode
  BY <1>1 DEF Rooted
<1>3. Subtree(tree, tree.root) = Allocated(tree)
  <2>1. Subtree(tree, tree.root) = D[tree.root]
    BY <1>1, SubtreeIsBelow DEF Rooted
  <2> QED
    BY <1>1, <2>1, OneTop DEF Rooted, Shape
<1>4. ASSUME NEW n \in Allocated(tree)
      PROVE  LET l == tree.left[n]
                 r == tree.right[n]
             IN  /\ l # NoNode => tree.parent[l] = n /\ \A m \in Subtree(tree, l) : m < n
                 /\ r # NoNode => tree.parent[r] = n /\ \A m \in Subtree(tree, r) : m > n
                 /\ Refresh(tree, n) = tree
  <2>1. tree["left"][n] # NoNode => /\ tree["left"][n] \in Allocated(tree)
                                    /\ tree.parent[tree["left"][n]] = n
                                    /\ \A m \in D[tree["left"][n]] : Before("left", m, n)
    BY <1>1, ChildShape DEF Sides
  <2>2. tree["right"][n] # NoNode => /\ tree["right"][n] \in Allocated(tree)
                                     /\ tree.parent[tree["right"][n]] = n
                                     /\ \A m \in D[tree["right"][n]] : Before("right", m, n)
    BY <1>1, ChildShape DEF Sides
  <2>3. Refresh(tree, n) = tree
    BY <1>1, FreshIsRefreshed DEF AllFresh, Allocated
  <2>4. tree.left[n] # NoNode => \A m \in Subtree(tree, tree.left[n]) : m < n
    BY <1>1, <2>1, SubtreeIsBelow DEF Before
  <2>5. tree.right[n] # NoNode => \A m \in Subtree(tree, tree.right[n]) : m > n
    BY <1>1, <2>2, SubtreeIsBelow DEF Before
  <2> QED
    BY <2>1, <2>2, <2>3, <2>4, <2>5
<1>5. LinksAreSound
  BY <1>2, <1>3, <1>4 DEF LinksAreSound, Sound
<1>6. Contents(tree) = Allocated(tree)
  BY <1>1, SearchIsExact
<1> QED
  BY <1>5, <1>6, OrderIsFollowed DEF TreeIsSound

---------------------------------------------------------------------------
(* Links that are changed *)

\* u has the root, the size and the caches of t.
SameCaches(u, t) == /\ u.root = t.root /\ u.size = t.size /\ u.height = t.height
                    /\ u.leftmost = t.leftmost /\ u.rightmost = t.rightmost

\* SetParent changes the parent of n.
LEMMA SetParentFields ==
  ASSUME NEW t \in Tree, NEW n \in Node, NEW p \in Node
  PROVE  LET u == SetParent(t, n, p)
         IN  /\ u \in Tree /\ SameCaches(u, t)
             /\ \A s \in Sides : u[s] = t[s]
             /\ \A m \in Keys : u.parent[m] = IF m = n THEN p ELSE t.parent[m]
<1>1. CASE n = NoNode
  BY <1>1, KeysAreNodes DEF SetParent, SameCaches
<1>2. CASE n # NoNode
  BY <1>2, KeysAreNodes DEF SetParent, SameCaches, Tree, Links, Sides
<1> QED
  BY <1>1, <1>2

\* ReplaceChild changes the side of p that n is on.
LEMMA ReplaceChildFields ==
  ASSUME NEW t \in Tree, NEW p \in Node, NEW n \in Node, NEW c \in Node
  PROVE  LET u == ReplaceChild(t, p, n, c)
         IN  /\ u \in Tree /\ SameCaches(u, t) /\ u.parent = t.parent
             /\ \A s \in Sides, m \in Keys : u[s][m] = IF m = p /\ t[s][m] = n THEN c ELSE t[s][m]
<1>1. CASE p = NoNode
  BY <1>1, KeysAreNodes DEF ReplaceChild, SameCaches
<1>2. CASE p # NoNode
  <2>1. p \in Keys
    BY <1>2, KeysAreNodes
  <2> DEFINE u == ReplaceChild(t, p, n, c)
  <2>2. u = [t EXCEPT !.left[p]  = IF @ = n THEN c ELSE @,
                      !.right[p] = IF @ = n THEN c ELSE @]
    BY <1>2 DEF ReplaceChild
  <2> HIDE DEF u
  <2>3. u \in Tree /\ SameCaches(u, t) /\ u.parent = t.parent
    BY <2>1, <2>2 DEF SameCaches, Tree, Links
  <2>4. \A m \in Keys : u.left[m] = IF m = p /\ t.left[m] = n THEN c ELSE t.left[m]
    BY <2>1, <2>2 DEF Tree, Links
  <2>5. \A m \in Keys : u.right[m] = IF m = p /\ t.right[m] = n THEN c ELSE t.right[m]
    BY <2>1, <2>2 DEF Tree, Links
  <2> QED
    BY <2>3, <2>4, <2>5 DEF Sides, u
<1> QED
  BY <1>1, <1>2

\* Rotate, field by field.
LEMMA RotateFields ==
  ASSUME NEW t, NEW D, Shape(t, D), NEW n \in Allocated(t), NEW heavy \in Sides,
         t[heavy][n] # NoNode
  PROVE  LET light == Other(heavy)
             up    == t[heavy][n]
             mid   == t[light][up]
             p     == t.parent[n]
             new   == Rotate(t, n, heavy, light)
         IN  /\ new \in Tree /\ new.root = t.root /\ new.size = t.size
             /\ \A m \in Keys : new.parent[m] = IF m = up THEN p ELSE IF m = n THEN up
                                                ELSE IF m = mid THEN n ELSE t.parent[m]
             /\ \A m \in Keys : new[heavy][m] = IF m = n THEN mid
                                                ELSE IF m = p /\ t[heavy][m] = n THEN up ELSE t[heavy][m]
             /\ \A m \in Keys : new[light][m] = IF m = up THEN n
                                                ELSE IF m = p /\ t[light][m] = n THEN up ELSE t[light][m]
             /\ \A m \in Keys : m # n => /\ new.height[m] = t.height[m]
                                         /\ new.leftmost[m] = t.leftmost[m]
                                         /\ new.rightmost[m] = t.rightmost[m]
             /\ Fresh(new, n)
<1> DEFINE light == Other(heavy)
           up    == t[heavy][n]
           mid   == t[light][up]
           p     == t.parent[n]
           t1    == ReplaceChild(t, p, n, up)
           t2    == SetParent(t1, up, p)
           t3    == [t2 EXCEPT !.parent[n] = up, ![light][up] = n, ![heavy][n] = mid]
           t4    == SetParent(t3, mid, n)
           new   == Rotate(t, n, heavy, light)
<1>1. light \in Sides /\ light # heavy /\ \A s \in Sides : s = light \/ s = heavy
  BY DEF Sides, Other
<1>2. up \in Allocated(t) /\ up \in Keys /\ up # n /\ t.parent[up] = n /\ up \in Node /\ up \in D[n]
  BY ChildShape, NodeShape
<1>3. n \in Keys /\ n \in Node /\ p \in Node /\ t \in Tree /\ n # NoNode
  BY NodeShape DEF Shape
<1>4. mid \in Node /\ mid # up /\ mid # n /\ mid \in Allocated(t) \cup {NoNode}
  <2>1. mid \in Node /\ mid # up /\ mid \in Allocated(t) \cup {NoNode}
    BY <1>1, <1>2, ChildShape, NodeShape
  <2>2. mid # NoNode => mid \in D[up]
    BY <1>1, <1>2, ChildShape
  <2>3. n \notin D[up]
    BY ChildShape
  <2> QED
    BY <1>3, <2>1, <2>2, <2>3
<1>5. p # n /\ p # up
  <2>1. CASE p = NoNode
    BY <1>2, <1>3, <2>1, KeysAreNodes
  <2>2. CASE p # NoNode
    <3>1. p \in Allocated(t)
      BY <2>2, NodeShape
    <3>2. PICK r \in Sides : t[r][p] = n
      BY <2>2, NodeShape
    <3>3. p \notin D[n] /\ n # p
      BY <1>3, <3>1, <3>2, ChildShape
    <3> QED
      BY <1>2, <3>3
  <2> QED
    BY <2>1, <2>2
<1>6. new = Refresh(t4, n)
  BY <1>2, KeysAreNodes DEF Rotate
<1> HIDE DEF up, mid, p, light, new
<1>7. /\ t1 \in Tree /\ SameCaches(t1, t) /\ t1.parent = t.parent
      /\ \A s \in Sides, m \in Keys : t1[s][m] = IF m = p /\ t[s][m] = n THEN up ELSE t[s][m]
  BY <1>2, <1>3, ReplaceChildFields
<1> HIDE DEF t1
<1>8. /\ t2 \in Tree /\ SameCaches(t2, t1) /\ \A s \in Sides : t2[s] = t1[s]
      /\ \A m \in Keys : t2.parent[m] = IF m = up THEN p ELSE t1.parent[m]
  <2>1. t1 \in Tree /\ up \in Node /\ p \in Node
    BY <1>2, <1>3, <1>7
  <2> QED
    BY <2>1, SetParentFields
<1> HIDE DEF t2
<1>9. /\ t3 \in Tree /\ SameCaches(t3, t2)
      /\ \A m \in Keys : t3.parent[m] = IF m = n THEN up ELSE t2.parent[m]
      /\ \A m \in Keys : t3[light][m] = IF m = up THEN n ELSE t2[light][m]
      /\ \A m \in Keys : t3[heavy][m] = IF m = n THEN mid ELSE t2[heavy][m]
  <2>1. CASE heavy = "left" /\ light = "right"
    BY <1>2, <1>3, <1>4, <1>8, <2>1 DEF SameCaches, Tree, Links
  <2>2. CASE heavy = "right" /\ light = "left"
    BY <1>2, <1>3, <1>4, <1>8, <2>2 DEF SameCaches, Tree, Links
  <2> QED
    BY <1>1, <2>1, <2>2 DEF Sides
<1> HIDE DEF t3
<1>10. /\ t4 \in Tree /\ SameCaches(t4, t3) /\ \A s \in Sides : t4[s] = t3[s]
       /\ \A m \in Keys : t4.parent[m] = IF m = mid THEN n ELSE t3.parent[m]
  <2>1. t3 \in Tree /\ mid \in Node /\ n \in Node
    BY <1>3, <1>4, <1>9
  <2> QED
    BY <2>1, SetParentFields
<1> HIDE DEF t4
<1>11. /\ new \in Tree /\ new.root = t4.root /\ new.size = t4.size /\ new.parent = t4.parent
       /\ \A s \in Sides : new[s] = t4[s]
       /\ new.left = t4.left /\ new.right = t4.right
       /\ new.height[n] = Taller(t4, n)
       /\ \A s \in Sides : new[EndOf(s)][n] = Farthest(t4, s, n)
       /\ \A m \in Keys : m # n => /\ new.height[m] = t4.height[m]
                                   /\ new.leftmost[m] = t4.leftmost[m]
                                   /\ new.rightmost[m] = t4.rightmost[m]
       /\ \A s \in Sides, m \in Keys : m # n => new[EndOf(s)][m] = t4[EndOf(s)][m]
  BY <1>3, <1>6, <1>10, RefreshFields
<1>12. new.root = t.root /\ new.size = t.size
  BY <1>7, <1>8, <1>9, <1>10, <1>11 DEF SameCaches
<1>13. \A m \in Keys : new.parent[m] = IF m = up THEN p ELSE IF m = n THEN up
                                       ELSE IF m = mid THEN n ELSE t.parent[m]
  BY <1>2, <1>4, <1>7, <1>8, <1>9, <1>10, <1>11
<1>14. \A m \in Keys : new[heavy][m] = IF m = n THEN mid
                                       ELSE IF m = p /\ t[heavy][m] = n THEN up ELSE t[heavy][m]
  BY <1>7, <1>8, <1>9, <1>10, <1>11
<1>15. \A m \in Keys : new[light][m] = IF m = up THEN n
                                       ELSE IF m = p /\ t[light][m] = n THEN up ELSE t[light][m]
  BY <1>1, <1>7, <1>8, <1>9, <1>10, <1>11
<1>16. \A m \in Keys : m # n => /\ new.height[m] = t.height[m]
                                /\ new.leftmost[m] = t.leftmost[m]
                                /\ new.rightmost[m] = t.rightmost[m]
  BY <1>7, <1>8, <1>9, <1>10, <1>11 DEF SameCaches
<1>17. Fresh(new, n)
  <2>1. \A s \in Sides : new[s][n] # n /\ new[s][n] \in Node
    <3>1. new[heavy][n] # n
      BY <1>3, <1>4, <1>14
    <3>2. new[light][n] # n
      <4>1. t[light][n] # n
        BY <1>1, <1>3, ChildShape
      <4> QED
        BY <1>2, <1>3, <1>5, <1>15, <4>1
    <3> QED
      BY <1>1, <1>3, <1>11, <3>1, <3>2, FieldTypes
  <2>2. \A s \in Sides : ChildHeight(new, new[s][n]) = ChildHeight(t4, t4[s][n])
    BY <1>11, <2>1, KeysAreNodes DEF ChildHeight
  <2>3. Taller(new, n) = Taller(t4, n)
    BY <2>2 DEF Taller, Sides
  <2>4. ASSUME NEW s \in Sides PROVE Farthest(new, s, n) = Farthest(t4, s, n)
    <3>1. new[s] = t4[s] /\ (new[s][n] # NoNode => new[s][n] \in Keys /\ new[s][n] # n)
      BY <1>11, <2>1, KeysAreNodes
    <3>2. new[s][n] # NoNode => new[EndOf(s)][new[s][n]] = t4[EndOf(s)][new[s][n]]
      BY <1>11, <3>1
    <3> QED
      BY <3>1, <3>2 DEF Farthest
  <2> QED
    BY <1>11, <2>3, <2>4 DEF Fresh
<1> QED
  BY <1>11, <1>12, <1>13, <1>14, <1>15, <1>16, <1>17 DEF new, up, mid, p, light

---------------------------------------------------------------------------
(* Rotations *)

\* The keys below the nodes when n has been turned down and up has taken its place.
Turned(D, n, up, below) == [D EXCEPT ![n] = below, ![up] = D[n]]

\* new is t with n turned down to its side light; E is D after that.
Rotation(t, D, n, heavy, light, up, mid, p, E, new) ==
  /\ Shape(t, D) /\ n \in Allocated(t) /\ heavy \in Sides /\ light = Other(heavy)
  /\ up = t[heavy][n] /\ up # NoNode /\ mid = t[light][up] /\ p = t.parent[n]
  /\ E = Turned(D, n, up, {n} \cup D[mid] \cup D[t[light][n]])
  /\ new = Rotate(t, n, heavy, light)

\* A rotation keeps the shape; the parent of n and its new parent become stale.
LEMMA RotateKeepsShape ==
  ASSUME NEW t, NEW D, NEW n, NEW heavy, NEW light, NEW up, NEW mid, NEW p, NEW E, NEW new,
         Rotation(t, D, n, heavy, light, up, mid, p, E, new)
  PROVE  /\ Shape(new, E) /\ Allocated(new) = Allocated(t)
         /\ new.root = t.root /\ new.size = t.size
         /\ Fresh(new, n)
         /\ \A m \in Allocated(t) : m \notin {n, up, p} /\ Fresh(t, m) => Fresh(new, m)
<1> USE DEF Rotation
<1> DEFINE A == Allocated(t)
           ln == t[light][n]
           hh == t[heavy][up]
<1>1. /\ light \in Sides /\ light # heavy /\ \A s \in Sides : s = light \/ s = heavy
      /\ Other(light) = heavy
  BY DEF Sides, Other
<1>2. /\ up \in A /\ up \in Keys /\ up # n /\ up # NoNode /\ t.parent[up] = n /\ up \in D[up]
      /\ D[up] \subseteq D[n] /\ n \notin D[up] /\ Before(heavy, up, n)
  BY ChildShape, NodeShape
<1>3. /\ n \in Keys /\ n \in A /\ p \in A \cup {NoNode} /\ p \in Node /\ t \in Tree /\ n # NoNode
      /\ n \in D[n] /\ D \in [Node -> SUBSET Keys] /\ D[NoNode] = {} /\ NoNode \notin Keys
  BY NodeShape, KeysAreNodes DEF Shape
<1>4. /\ mid \in A \cup {NoNode} /\ mid # up /\ mid # n
      /\ mid # NoNode => t.parent[mid] = up /\ mid \in D[up] /\ mid \in A
      /\ \A x \in D[mid] : x \in Keys /\ Before(light, x, up)
      /\ D[mid] \subseteq D[up]
  <2>1. /\ mid \in A \cup {NoNode} /\ mid # up
        /\ mid # NoNode => t.parent[mid] = up /\ mid \in D[mid]
        /\ \A x \in D[mid] : x \in Keys /\ Before(light, x, up)
        /\ D[mid] \subseteq D[up]
    BY <1>1, <1>2, ChildShape
  <2> QED
    BY <1>2, <1>3, <2>1
<1>5. /\ hh \in A \cup {NoNode} /\ hh # up /\ hh # n /\ (hh # NoNode => hh # mid)
      /\ hh # NoNode => t.parent[hh] = up
      /\ \A x \in D[hh] : x \in Keys /\ Before(heavy, x, up)
      /\ D[up] = {up} \cup D[hh] \cup D[mid]
  <2>1. /\ hh \in A \cup {NoNode} /\ hh # up /\ (hh # NoNode => hh # mid)
        /\ hh # NoNode => t.parent[hh] = up /\ hh \in D[hh]
        /\ \A x \in D[hh] : x \in Keys /\ Before(heavy, x, up)
        /\ D[up] = {up} \cup D[hh] \cup D[mid]
    BY <1>2, ChildShape
  <2> QED
    BY <1>2, <1>3, <2>1
<1>6. /\ ln \in A \cup {NoNode} /\ ln # up /\ ln # n
      /\ ln # NoNode => t.parent[ln] = n /\ ln # mid
      /\ \A x \in D[ln] : x \in Keys /\ Before(light, x, n)
      /\ D[n] = {n} \cup D[up] \cup D[ln]
  <2>1. /\ ln \in A \cup {NoNode} /\ ln # n
        /\ ln # NoNode => t.parent[ln] = n /\ ln # up /\ ln \in D[ln]
        /\ \A x \in D[ln] : x \in Keys /\ Before(light, x, n)
    BY <1>1, ChildShape, NodeShape
  <2>2. D[n] = {n} \cup D[up] \cup D[ln] /\ D[up] \cap D[ln] = {}
    BY ChildShape
  <2> QED
    BY <1>2, <1>4, <2>1, <2>2
<1>7. /\ p # n /\ p # up /\ (p # NoNode => p # mid)
      /\ p # NoNode => p \in A /\ p \in Keys /\ D[n] \subseteq D[p] /\ p \notin D[n]
  <2>1. CASE p = NoNode
    BY <1>2, <1>3, <2>1
  <2>2. CASE p # NoNode
    <3>1. p \in A /\ p \in Keys
      BY <1>3, <2>2, NodeShape
    <3>2. PICK r \in Sides : t[r][p] = n
      BY <2>2, NodeShape
    <3>3. p \notin D[n] /\ n # p /\ D[n] \subseteq D[p]
      BY <1>3, <3>1, <3>2, ChildShape
    <3> QED
      BY <1>2, <1>4, <3>1, <3>3
  <2> QED
    BY <2>1, <2>2
<1>8. /\ new \in Tree /\ new.root = t.root /\ new.size = t.size /\ Fresh(new, n)
      /\ \A m \in Keys : m # n => /\ new.height[m] = t.height[m]
                                  /\ new.leftmost[m] = t.leftmost[m]
                                  /\ new.rightmost[m] = t.rightmost[m]
  BY RotateFields
<1>9. \A m \in Keys : new.parent[m] = IF m = up THEN p ELSE IF m = n THEN up
                                      ELSE IF m = mid THEN n ELSE t.parent[m]
  BY RotateFields
<1>10. \A m \in Keys : new[heavy][m] = IF m = n THEN mid
                                       ELSE IF m = p /\ t[heavy][m] = n THEN up ELSE t[heavy][m]
  BY RotateFields
<1>11. \A m \in Keys : new[light][m] = IF m = up THEN n
                                       ELSE IF m = p /\ t[light][m] = n THEN up ELSE t[light][m]
  BY RotateFields
<1>12. /\ E \in [Node -> SUBSET Keys] /\ E[NoNode] = {}
       /\ E[n] = {n} \cup D[mid] \cup D[ln] /\ E[up] = D[n]
       /\ \A x \in Node : x # n /\ x # up => E[x] = D[x]
  <2>1. n \in Node /\ up \in Node /\ {n} \cup D[mid] \cup D[ln] \in SUBSET Keys /\ D[n] \in SUBSET Keys
    BY <1>2, <1>3, <1>4, <1>6, KeysAreNodes
  <2> QED
    BY <1>2, <1>3, <2>1, KeysAreNodes DEF Turned
<1> HIDE DEF ln, hh, A
<1>13. Allocated(new) = A
  <2>1. new.leftmost[n] # NoNode
    <3>1. new.leftmost[n] = IF new.left[n] = NoNode THEN n ELSE new.leftmost[new.left[n]]
      BY <1>8 DEF Fresh, Farthest, Sides, EndOf
    <3>2. new.left[n] # n /\ new.left[n] \in A \cup {NoNode}
      <4>1. new[heavy][n] = mid /\ new[light][n] = ln
        BY <1>1, <1>2, <1>3, <1>7, <1>10, <1>11 DEF ln
      <4>2. new["left"][n] \in {mid, ln}
        BY <1>1, <4>1 DEF Sides
      <4> QED
        BY <1>4, <1>6, <4>2
    <3>3. new.left[n] # NoNode => new.leftmost[new.left[n]] # NoNode
      BY <1>8, <3>2 DEF A, Allocated
    <3> QED
      BY <1>3, <3>1, <3>3
  <2> QED
    BY <1>3, <1>8, <2>1 DEF Allocated, A
<1>14. \A m \in A : m \in Keys /\ m # NoNode /\ m \in Node
  BY NodeShape DEF A
<1>15. ASSUME NEW m \in A
       PROVE  /\ t.parent[m] \in A \cup {NoNode}
              /\ \A s \in Sides : t[s][m] \in A \cup {NoNode} /\ t[s][m] \in Node
              /\ \A s \in Sides : t[s][m] # NoNode => t.parent[t[s][m]] = m
              /\ \A s \in Sides : \A x \in D[t[s][m]] : Before(s, x, m)
              /\ t.parent[m] # NoNode => \E s \in Sides : t[s][t.parent[m]] = m
              /\ D[m] = {m} \cup D[t[heavy][m]] \cup D[t[light][m]]
              /\ t[heavy][m] # NoNode => t[heavy][m] # t[light][m]
  BY <1>1, NodeShape, ChildShape DEF A
<1>16. ASSUME NEW m \in A
       PROVE  new.parent[m] \in A \cup {NoNode} /\ \A s \in Sides : new[s][m] \in A \cup {NoNode}
  BY <1>1, <1>2, <1>3, <1>4, <1>9, <1>10, <1>11, <1>14, <1>15
<1>17. Linked(new, E, n)
  <2>1. new[heavy][n] = mid /\ new[light][n] = ln /\ new.parent[n] = up
    BY <1>1, <1>2, <1>3, <1>7, <1>9, <1>10, <1>11 DEF ln
  <2>2. E[mid] = D[mid] /\ E[ln] = D[ln]
    <3>1. mid \in Node /\ ln \in Node
      BY <1>4, <1>6, <1>14, KeysAreNodes
    <3> QED
      BY <1>4, <1>6, <1>12, <3>1
  <2>3. E[n] = {n} \cup E[mid] \cup E[ln]
    BY <1>12, <2>2
  <2>4. (mid # NoNode => new.parent[mid] = n) /\ (ln # NoNode => new.parent[ln] = n)
    BY <1>2, <1>4, <1>6, <1>9, <1>14
  <2>5. \A x \in E[mid] : Before(heavy, x, n)
    <3>1. \A x \in D[up] : Before(heavy, x, n)
      BY ChildShape
    <3> QED
      BY <1>4, <2>2, <3>1
  <2>6. \A x \in E[ln] : Before(light, x, n)
    BY <1>6, <2>2
  <2>7. new[light][up] = n
    BY <1>2, <1>11
  <2>8. new.parent[n] # NoNode => \E q \in Sides : new[q][new.parent[n]] = n
    BY <1>1, <2>1, <2>7
  <2> QED
    <3>1. ChildOK(new, E, n, heavy, mid) /\ ChildOK(new, E, n, light, ln)
      BY <1>4, <1>6, <1>13, <2>1, <2>4, <2>5, <2>6 DEF ChildOK
    <3>2. ParentOK(new, n)
      BY <1>2, <1>13, <2>1, <2>8 DEF ParentOK
    <3> QED
      BY <2>3, <3>1, <3>2, LinkedBySides
<1>18. Linked(new, E, up)
  <2>1. new[heavy][up] = hh /\ new[light][up] = n /\ new.parent[up] = p
    BY <1>1, <1>2, <1>7, <1>9, <1>10, <1>11 DEF hh
  <2>2. E[hh] = D[hh]
    <3>1. hh \in Node
      BY <1>5, <1>14, KeysAreNodes
    <3> QED
      BY <1>5, <1>12, <3>1
  <2>3. E[up] = {up} \cup E[hh] \cup E[n]
    BY <1>5, <1>6, <1>12, <2>2
  <2>4. (hh # NoNode => new.parent[hh] = up) /\ new.parent[n] = up
    BY <1>2, <1>3, <1>5, <1>9, <1>14
  <2>5. \A x \in E[n] : Before(light, x, up)
    <3>1. Before(light, n, up)
      BY <1>1, <1>2, <1>3, SidesOrder
    <3>2. \A x \in D[ln] : Before(light, x, up)
      BY <1>1, <1>2, <1>3, <1>6, <3>1, SidesOrder
    <3> QED
      BY <1>4, <1>12, <3>1, <3>2
  <2>6. \A x \in E[hh] : Before(heavy, x, up)
    BY <1>5, <2>2
  <2>7. p # NoNode => \E s \in Sides : new[s][p] = up
    <3> SUFFICES ASSUME p # NoNode PROVE \E s \in Sides : new[s][p] = up
      OBVIOUS
    <3>1. PICK s \in Sides : t[s][p] = n
      BY <1>3, <1>15
    <3>2. new[s][p] = up
      BY <1>1, <1>7, <1>10, <1>11, <3>1
    <3> QED
      BY <3>2
  <2> QED
    <3>1. ChildOK(new, E, up, heavy, hh) /\ ChildOK(new, E, up, light, n)
      BY <1>3, <1>5, <1>13, <2>1, <2>4, <2>5, <2>6 DEF ChildOK
    <3>2. ParentOK(new, up)
      BY <1>3, <1>13, <2>1, <2>7 DEF ParentOK
    <3> QED
      BY <2>3, <3>1, <3>2, LinkedBySides
<1>19. ASSUME p # NoNode PROVE Linked(new, E, p)
  <2>0. p \in A /\ p \in Keys
    BY <1>7, <1>19
  <2>1. PICK r \in Sides : t[r][p] = n
    BY <1>3, <1>15, <1>19
  <2> DEFINE q == Other(r)
             x == t[q][p]
  <2>2. q \in Sides /\ q # r /\ \A s \in Sides : s = q \/ s = r
    BY DEF Sides, Other
  <2>3. /\ x \in A \cup {NoNode} /\ x # n /\ (x # NoNode => t.parent[x] = p)
        /\ D[p] = {p} \cup D[n] \cup D[x]
    BY <1>3, <2>0, <2>1, <2>2, ChildShape DEF A
  <2>4. x # up /\ (x # NoNode => x # mid)
    BY <1>2, <1>4, <1>7, <2>3
  <2>5. new[r][p] = up /\ new[q][p] = x
    <3>1. CASE r = heavy
      BY <1>1, <1>7, <1>10, <1>11, <2>0, <2>1, <2>2, <2>3, <3>1
    <3>2. CASE r = light
      BY <1>1, <1>7, <1>10, <1>11, <2>0, <2>1, <2>2, <2>3, <3>2
    <3> QED
      BY <1>1, <3>1, <3>2
  <2>6. \A y \in D[x] : Before(q, y, p)
    BY <1>15, <2>0, <2>2
  <2> HIDE DEF x
  <2>7. E[x] = D[x] /\ E[p] = D[p]
    <3>1. x \in Node /\ p \in Node
      BY <1>3, <1>14, <2>3, KeysAreNodes
    <3> QED
      BY <1>7, <1>12, <2>3, <2>4, <3>1
  <2>8. E[p] = {p} \cup E[up] \cup E[x]
    BY <1>12, <2>3, <2>7
  <2>9. new.parent[up] = p /\ (x # NoNode => new.parent[x] = p)
    BY <1>2, <1>9, <1>14, <2>3, <2>4
  <2>10. \A y \in E[up] : Before(r, y, p)
    <3>1. \A y \in D[n] : Before(r, y, p)
      BY <1>15, <2>0, <2>1
    <3> QED
      BY <1>12, <3>1
  <2>11. \A y \in E[x] : Before(q, y, p)
    BY <2>6, <2>7
  <2>12. new.parent[p] = t.parent[p]
    BY <1>7, <1>9, <1>19, <2>0
  <2>13. new.parent[p] # NoNode => \E s \in Sides : new[s][new.parent[p]] = p
    <3> SUFFICES ASSUME t.parent[p] # NoNode PROVE \E s \in Sides : new[s][t.parent[p]] = p
      BY <2>12
    <3>1. PICK s \in Sides : t[s][t.parent[p]] = p
      BY <1>15, <2>0
    <3>2. t.parent[p] \in A /\ t.parent[p] \in Keys
      BY <1>14, <1>15, <2>0
    <3>3. t.parent[p] # n /\ t.parent[p] # up
      <4>1. p \in D[t.parent[p]]
        BY <2>0, <3>1, <3>2, ChildShape, NodeShape DEF A
      <4> QED
        BY <1>2, <1>7, <1>19, <4>1
    <3>4. new[s][t.parent[p]] = p
      BY <1>1, <1>7, <1>10, <1>11, <3>1, <3>2, <3>3
    <3> QED
      BY <3>4
  <2>14. new.parent[p] \in A \cup {NoNode}
    BY <1>15, <2>0, <2>12
  <2> QED
    <3>1. ChildOK(new, E, p, r, up) /\ ChildOK(new, E, p, q, x)
      BY <1>2, <1>13, <2>3, <2>5, <2>9, <2>10, <2>11 DEF ChildOK
    <3>2. ParentOK(new, p)
      BY <1>13, <2>13, <2>14 DEF ParentOK
    <3> QED
      BY <2>8, <3>1, <3>2, LinkedBySides
<1>20. ASSUME NEW m \in A, m \notin {n, up, p}
       PROVE  /\ Linked(new, E, m)
              /\ \A s \in Sides : new[s][m] = t[s][m] /\ t[s][m] # n
  <2>1. m \in Keys /\ m \in Node /\ m # n /\ m # up /\ m # p
    BY <1>14, <1>20
  <2>2. \A s \in Sides : new[s][m] = t[s][m]
    BY <1>1, <1>10, <1>11, <2>1
  <2>3. ASSUME NEW s \in Sides PROVE t[s][m] # n /\ t[s][m] # up
    <3>1. t[s][m] # NoNode => t.parent[t[s][m]] = m
      BY <1>15
    <3> QED
      BY <1>2, <1>3, <2>1, <3>1
  <2>4. E[m] = D[m] /\ \A s \in Sides : E[t[s][m]] = D[t[s][m]]
    BY <1>12, <1>15, <2>1, <2>3
  <2>5. ASSUME NEW s \in Sides, t[s][m] # NoNode PROVE new.parent[t[s][m]] = m
    <3>1. t[s][m] \in Keys /\ t.parent[t[s][m]] = m
      BY <1>14, <1>15, <2>5
    <3>2. t[s][m] # mid
      BY <1>4, <2>1, <2>5, <3>1
    <3> QED
      BY <1>9, <2>3, <3>1, <3>2
  <2>6. new.parent[m] # NoNode => \E s \in Sides : new[s][new.parent[m]] = m
    <3>1. CASE m = mid
      BY <1>1, <1>3, <1>9, <1>10, <2>1, <3>1
    <3>2. CASE m # mid /\ t.parent[m] # NoNode
      <4>1. new.parent[m] = t.parent[m]
        BY <1>9, <2>1, <3>2
      <4>2. PICK s \in Sides : t[s][t.parent[m]] = m
        BY <1>15, <3>2
      <4>3. t.parent[m] \in Keys
        BY <1>14, <1>15, <3>2
      <4>4. new[s][t.parent[m]] = m
        BY <1>1, <1>10, <1>11, <2>1, <3>2, <4>2, <4>3
      <4> QED
        BY <4>1, <4>4
    <3>3. CASE m # mid /\ t.parent[m] = NoNode
      BY <1>9, <2>1, <3>3
    <3> QED
      BY <3>1, <3>2, <3>3
  <2> DEFINE a == t[heavy][m]
             b == t[light][m]
  <2>7. new[heavy][m] = a /\ new[light][m] = b /\ E[a] = D[a] /\ E[b] = D[b]
    BY <1>1, <2>2, <2>4
  <2>8. (a # NoNode => new.parent[a] = m) /\ (b # NoNode => new.parent[b] = m)
    BY <1>1, <2>5
  <2>9. a \in A \cup {NoNode} /\ b \in A \cup {NoNode} /\ new.parent[m] \in A \cup {NoNode}
    BY <1>1, <1>15, <1>16
  <2>10. (\A x \in D[a] : Before(heavy, x, m)) /\ (\A x \in D[b] : Before(light, x, m))
    BY <1>1, <1>15
  <2>11. D[m] = {m} \cup D[a] \cup D[b]
    BY <1>15
  <2> HIDE DEF a, b
  <2>12. E[m] = {m} \cup E[a] \cup E[b]
    BY <2>4, <2>7, <2>11
  <2>13. (\A x \in E[a] : Before(heavy, x, m)) /\ (\A x \in E[b] : Before(light, x, m))
    BY <2>7, <2>10
  <2>14. Linked(new, E, m)
    <3>1. ChildOK(new, E, m, heavy, a) /\ ChildOK(new, E, m, light, b)
      BY <1>13, <2>7, <2>8, <2>9, <2>13 DEF ChildOK
    <3>2. ParentOK(new, m)
      BY <1>13, <2>6, <2>9 DEF ParentOK
    <3> QED
      BY <2>12, <3>1, <3>2, LinkedBySides
  <2> QED
    BY <2>2, <2>3, <2>14
<1>21. \A m \in Allocated(new) : Linked(new, E, m)
  <2> SUFFICES ASSUME NEW m \in A PROVE Linked(new, E, m)
    BY <1>13
  <2>1. CASE m = p
    BY <1>14, <1>19, <2>1
  <2> QED
    BY <1>17, <1>18, <1>20, <2>1
<1>22. ASSUME NEW m \in Keys \ A PROVE NoFields(new, m) /\ E[m] = {}
  <2>1. NoFields(t, m) /\ D[m] = {}
    BY DEF Shape, A
  <2>2. m # n /\ m # up /\ m # mid /\ m # p /\ m \in Node
    BY <1>2, <1>3, <1>4, <1>7, KeysAreNodes
  <2>3. new[heavy][m] = t[heavy][m] /\ new[light][m] = t[light][m]
    BY <1>10, <1>11, <2>2
  <2>4. new.left[m] = t.left[m] /\ new.right[m] = t.right[m]
    BY <1>1, <2>3 DEF Sides
  <2>5. new.parent[m] = t.parent[m]
    BY <1>9, <2>2
  <2> QED
    BY <1>8, <1>12, <2>1, <2>2, <2>4, <2>5 DEF NoFields
<1>23. \E top \in A : new.parent[top] = NoNode /\ E[top] = A
  <2>1. PICK top \in A : t.parent[top] = NoNode /\ D[top] = A
    BY <1>3 DEF Shape, A
  <2>2. CASE top = n
    BY <1>2, <1>9, <1>12, <2>1, <2>2
  <2>3. CASE top # n
    <3>1. top # up /\ top # mid
      BY <1>2, <1>3, <1>4, <2>1
    <3> QED
      BY <1>9, <1>12, <1>14, <2>1, <2>3, <3>1
  <2> QED
    BY <2>2, <2>3
<1>24. Shape(new, E)
  <2>1. \A m \in Keys \ Allocated(new) : NoFields(new, m) /\ E[m] = {}
    BY <1>13, <1>22
  <2>2. \E top \in Allocated(new) : new.parent[top] = NoNode /\ E[top] = Allocated(new)
    BY <1>13, <1>23
  <2> QED
    BY <1>8, <1>12, <1>21, <2>1, <2>2 DEF Shape
<1>25. ASSUME NEW m \in A, m \notin {n, up, p}, Fresh(t, m) PROVE Fresh(new, m)
  <2>1. m \in Keys /\ m # n
    BY <1>14, <1>25
  <2>2. \A s \in Sides : new[s][m] = t[s][m] /\ t[s][m] # n /\ t[s][m] \in Node
    BY <1>15, <1>20, <1>25
  <2>3. \A s \in Sides : ChildHeight(new, new[s][m]) = ChildHeight(t, t[s][m])
    BY <1>8, <2>2, KeysAreNodes DEF ChildHeight
  <2>4. Taller(new, m) = Taller(t, m)
    BY <2>3 DEF Taller, Sides
  <2>5. ASSUME NEW s \in Sides PROVE new[EndOf(s)][m] = Farthest(new, s, m)
    <3>1. \A x \in Keys : x # n => new[EndOf(s)][x] = t[EndOf(s)][x]
      BY <1>8 DEF Sides, EndOf
    <3>2. t[EndOf(s)][m] = Farthest(t, s, m)
      BY <1>25 DEF Fresh
    <3> QED
      BY <2>1, <2>2, <3>1, <3>2, KeysAreNodes DEF Farthest
  <2> QED
    BY <1>8, <1>25, <2>1, <2>4, <2>5 DEF Fresh
<1> QED
  BY <1>8, <1>13, <1>24, <1>25 DEF A

\* Where a rotation leaves n, and which nodes are not above its new parent.
LEMMA RotateReach ==
  ASSUME NEW t, NEW D, NEW n, NEW heavy, NEW light, NEW up, NEW mid, NEW p, NEW E, NEW new,
         Rotation(t, D, n, heavy, light, up, mid, p, E, new)
  PROVE  /\ up \in Allocated(t) /\ E[up] = D[n] /\ up \in E[up] /\ new.parent[n] = up
         /\ \A m \in Allocated(t) : m \notin {n, up} => E[m] = D[m]
         /\ \A m \in Allocated(t) : up \notin E[m] => m = n \/ (m \notin {n, up, p} /\ n \notin D[m])
<1> USE DEF Rotation
<1>1. /\ up \in Allocated(t) /\ up \in Keys /\ up # n /\ up \in D[n] /\ n \notin D[up]
      /\ n \in Keys /\ n \in Node /\ up \in Node
  BY ChildShape, NodeShape
<1>2. D \in [Node -> SUBSET Keys] /\ \A m \in Allocated(t) : m \in Node
  BY NodeShape DEF Shape
<1>3. E[up] = D[n] /\ \A m \in Allocated(t) : m \notin {n, up} => E[m] = D[m]
  BY <1>1, <1>2 DEF Turned
<1>4. new.parent[n] = up
  BY <1>1, RotateFields
<1>5. ASSUME NEW m \in Allocated(t), n \in D[m], m # n PROVE up \in E[m]
  <2>1. up \in D[m]
    BY <1>1, <1>5, BelowIsClosed
  <2> QED
    BY <1>1, <1>3, <1>5, <2>1
<1>6. ASSUME p \in Allocated(t) PROVE n \in D[p] /\ n # p
  <2>1. p # NoNode
    BY <1>6, NodeShape
  <2>2. PICK r \in Sides : t[r][p] = n
    BY <2>1, NodeShape
  <2> QED
    BY <1>1, <1>6, <2>2, ChildShape, NodeShape
<1> QED
  BY <1>1, <1>3, <1>4, <1>5, <1>6

\* Refresh keeps the shape and makes its node fresh; only the parent may become stale.
LEMMA RefreshKeepsShape ==
  ASSUME NEW t, NEW D, Shape(t, D), NEW n \in Allocated(t), NEW new, new = Refresh(t, n)
  PROVE  /\ Shape(new, D) /\ Allocated(new) = Allocated(t)
         /\ new.root = t.root /\ new.size = t.size /\ new.parent = t.parent
         /\ Fresh(new, n)
         /\ \A m \in Allocated(t) : m \notin {n, t.parent[n]} /\ Fresh(t, m) => Fresh(new, m)
<1>1. t \in Tree /\ n \in Keys
  BY NodeShape DEF Shape
<1>2. /\ new \in Tree /\ new.root = t.root /\ new.size = t.size
      /\ new.parent = t.parent /\ new.left = t.left /\ new.right = t.right
      /\ \A s \in Sides : new[s] = t[s]
      /\ new.height[n] = Taller(t, n)
      /\ \A s \in Sides : new[EndOf(s)][n] = Farthest(t, s, n)
      /\ \A m \in Keys : m # n => /\ new.height[m] = t.height[m]
                                  /\ new.leftmost[m] = t.leftmost[m]
                                  /\ new.rightmost[m] = t.rightmost[m]
      /\ \A s \in Sides, m \in Keys : m # n => new[EndOf(s)][m] = t[EndOf(s)][m]
  BY <1>1, RefreshFields
<1>3. Allocated(new) = Allocated(t)
  <2>1. new.leftmost[n] # NoNode
    <3>1. "left" \in Sides /\ EndOf("left") = "leftmost"
      BY DEF Sides, EndOf
    <3>2. new.leftmost[n] = IF t.left[n] = NoNode THEN n ELSE t.leftmost[t.left[n]]
      BY <1>2, <3>1 DEF Farthest
    <3>3. t["left"][n] # NoNode => t["left"][n] \in Allocated(t)
      BY <3>1, ChildShape
    <3> QED
      BY <3>2, <3>3, NodeShape DEF Allocated
  <2> QED
    BY <1>2, <2>1 DEF Allocated
<1>4. \A m \in Keys \ Allocated(new) : NoFields(new, m) /\ D[m] = {}
  <2> SUFFICES ASSUME NEW m \in Keys \ Allocated(t) PROVE NoFields(new, m) /\ D[m] = {}
    BY <1>3
  <2>1. NoFields(t, m) /\ D[m] = {} /\ m # n
    BY DEF Shape
  <2> QED
    BY <1>2, <2>1 DEF NoFields
<1>5. \A m \in Allocated(new) : Linked(new, D, m)
  <2> SUFFICES ASSUME NEW m \in Allocated(t) PROVE Linked(new, D, m)
    BY <1>3
  <2>1. Linked(t, D, m)
    BY DEF Shape
  <2> QED
    BY <1>2, <1>3, <2>1 DEF Linked
<1>6. Shape(new, D)
  <2>1. Allocated(new) # {} =>
          \E top \in Allocated(new) : new.parent[top] = NoNode /\ D[top] = Allocated(new)
    BY <1>2, <1>3 DEF Shape
  <2> QED
    BY <1>2, <1>4, <1>5, <2>1 DEF Shape
<1>7. ASSUME NEW m \in Allocated(t), m = n \/ (m # t.parent[n] /\ Fresh(t, m))
      PROVE  Fresh(new, m)
  <2>1. m \in Keys /\ \A s \in Sides : t[s][m] \in Node
    BY NodeShape, ChildShape
  <2>2. ASSUME NEW s \in Sides PROVE t[s][m] # n
    <3>1. t[s][m] # NoNode => t.parent[t[s][m]] = m /\ t[s][m] # m
      BY ChildShape
    <3> QED
      BY <1>1, <1>7, <3>1, KeysAreNodes
  <2>3. ASSUME NEW s \in Sides PROVE ChildHeight(new, new[s][m]) = ChildHeight(t, t[s][m])
    BY <1>2, <2>1, <2>2, KeysAreNodes DEF ChildHeight
  <2>4. Taller(new, m) = Taller(t, m)
    BY <2>3 DEF Taller, Sides
  <2>5. ASSUME NEW s \in Sides PROVE Farthest(new, s, m) = Farthest(t, s, m)
    <3>1. new[s] = t[s] /\ (new[s][m] # NoNode => new[s][m] \in Keys /\ new[s][m] # n)
      BY <1>2, <2>1, <2>2, KeysAreNodes
    <3>2. new[s][m] # NoNode => new[EndOf(s)][new[s][m]] = t[EndOf(s)][new[s][m]]
      BY <1>2, <3>1
    <3> QED
      BY <3>1, <3>2 DEF Farthest
  <2>6. new.height[m] = Taller(t, m)
    BY <1>2, <1>7, <2>1 DEF Fresh
  <2>7. ASSUME NEW s \in Sides PROVE new[EndOf(s)][m] = Farthest(t, s, m)
    BY <1>2, <1>7, <2>1 DEF Fresh
  <2> QED
    BY <2>4, <2>5, <2>6, <2>7 DEF Fresh
<1> QED
  BY <1>2, <1>3, <1>6, <1>7

---------------------------------------------------------------------------
(* Rebalancing *)

\* A heavy side of n: its child there is at least two higher than the other.
Heavy(t, n, s) == ChildHeight(t, t[s][n]) > ChildHeight(t, t[Other(s)][n]) + 1

\* The child c leans away from side s.
LeansAway(t, c, s) == ChildHeight(t, t[Other(s)][c]) > ChildHeight(t, t[s][c])

\* Rebalance turns an unbalanced node away from its heavy side, after its child there if
\* that one leans the other way.
LEMMA RebalanceTurns ==
  ASSUME NEW t \in Tree, NEW n \in Keys, ~Balanced(t, n)
  PROVE  \E s \in Sides :
           LET o == Other(s)
               c == t[s][n]
           IN  /\ Heavy(t, n, s) /\ c \in Keys
               /\ LeansAway(t, c, s) => t[o][c] # NoNode
               /\ Rebalance(t, n) = Rotate(IF LeansAway(t, c, s) THEN Rotate(t, c, o, s) ELSE t, n, s, o)
<1>1. \A m \in Keys : t.left[m] \in Node /\ t.right[m] \in Node
  BY FieldTypes
<1>2. \A c \in Node : ChildHeight(t, c) \in Nat /\ (c = NoNode => ChildHeight(t, c) = 0)
  BY ChildHeights
<1>3. \A m \in Keys : ChildHeight(t, t.left[m]) \in Nat /\ ChildHeight(t, t.right[m]) \in Nat
  BY <1>1, <1>2
<1>4. CASE HeightDifference(t, n) > 1
  <2>1. ChildHeight(t, t.left[n]) > ChildHeight(t, t.right[n]) + 1
    BY <1>3, <1>4 DEF HeightDifference
  <2>2. t.left[n] # NoNode /\ t.left[n] \in Keys
    <3>1. ChildHeight(t, t.left[n]) # 0
      BY <1>3, <2>1
    <3> QED
      BY <1>1, <1>2, <3>1, KeysAreNodes
  <2>3. "left" \in Sides /\ Other("left") = "right"
    BY DEF Sides, Other
  <2>4. HeightDifference(t, t.left[n]) < 0 <=> LeansAway(t, t.left[n], "left")
    BY <1>3, <2>2, <2>3 DEF HeightDifference, LeansAway
  <2>5. LeansAway(t, t.left[n], "left") => t.right[t.left[n]] # NoNode
    BY <1>1, <1>2, <1>3, <2>2, <2>3 DEF LeansAway
  <2>6. Rebalance(t, n) = RotateRight(IF HeightDifference(t, t.left[n]) < 0
                                      THEN RotateLeft(t, t.left[n]) ELSE t, n)
    BY <1>4 DEF Rebalance
  <2>7. Rebalance(t, n) = Rotate(IF LeansAway(t, t.left[n], "left")
                                 THEN Rotate(t, t.left[n], "right", "left") ELSE t, n, "left", "right")
    BY <2>4, <2>6 DEF RotateRight, RotateLeft
  <2> QED
    BY <2>1, <2>2, <2>3, <2>5, <2>7 DEF Heavy
<1>5. CASE HeightDifference(t, n) < -1
  <2>1. ChildHeight(t, t.right[n]) > ChildHeight(t, t.left[n]) + 1 /\ ~(HeightDifference(t, n) > 1)
    BY <1>3, <1>5 DEF HeightDifference
  <2>2. t.right[n] # NoNode /\ t.right[n] \in Keys
    <3>1. ChildHeight(t, t.right[n]) # 0
      BY <1>3, <2>1
    <3> QED
      BY <1>1, <1>2, <3>1, KeysAreNodes
  <2>3. "right" \in Sides /\ Other("right") = "left"
    BY DEF Sides, Other
  <2>4. HeightDifference(t, t.right[n]) > 0 <=> LeansAway(t, t.right[n], "right")
    BY <1>3, <2>2, <2>3 DEF HeightDifference, LeansAway
  <2>5. LeansAway(t, t.right[n], "right") => t.left[t.right[n]] # NoNode
    BY <1>1, <1>2, <1>3, <2>2, <2>3 DEF LeansAway
  <2>6. Rebalance(t, n) = RotateLeft(IF HeightDifference(t, t.right[n]) > 0
                                     THEN RotateRight(t, t.right[n]) ELSE t, n)
    BY <1>5, <2>1 DEF Rebalance
  <2>7. Rebalance(t, n) = Rotate(IF LeansAway(t, t.right[n], "right")
                                 THEN Rotate(t, t.right[n], "left", "right") ELSE t, n, "right", "left")
    BY <2>4, <2>6 DEF RotateRight, RotateLeft
  <2> QED
    BY <2>1, <2>2, <2>3, <2>5, <2>7 DEF Heavy
<1> QED
  <2>1. HeightDifference(t, n) \in Int
    BY <1>3 DEF HeightDifference
  <2> QED
    BY <1>4, <1>5, <2>1 DEF Balanced

\* Every node that is not above a is fresh.
FreshBut(t, D, a) == \A m \in Allocated(t) : a \notin D[m] => Fresh(t, m)

\* Rebalance keeps the shape, and what is stale is above the new parent of n.
LEMMA RebalanceKeepsShape ==
  ASSUME NEW t, NEW D, Shape(t, D), NEW n \in Allocated(t), ~Balanced(t, n),
         Fresh(t, n), FreshBut(t, D, n), NEW new, new = Rebalance(t, n)
  PROVE  \E E : /\ Shape(new, E) /\ Allocated(new) = Allocated(t)
                /\ new.root = t.root /\ new.size = t.size
                /\ new.parent[n] \in Allocated(t) /\ E[new.parent[n]] = D[n]
                /\ FreshBut(new, E, new.parent[n])
<1>1. t \in Tree /\ n \in Keys
  BY NodeShape DEF Shape
<1>2. PICK s \in Sides :
        LET o == Other(s)
            c == t[s][n]
        IN  /\ Heavy(t, n, s) /\ c \in Keys
            /\ LeansAway(t, c, s) => t[o][c] # NoNode
            /\ Rebalance(t, n) = Rotate(IF LeansAway(t, c, s) THEN Rotate(t, c, o, s) ELSE t, n, s, o)
  BY <1>1, RebalanceTurns
<1> DEFINE o == Other(s)
           c == t[s][n]
<1>3. /\ o \in Sides /\ Other(o) = s /\ c # NoNode /\ c \in Allocated(t) /\ c # n
      /\ t.parent[c] = n /\ c \in D[c] /\ n \notin D[c] /\ D[c] \subseteq D[n]
  BY <1>2, ChildShape, KeysAreNodes DEF Sides, Other
<1>0. /\ o = Other(s) /\ c = t[s][n] /\ (LeansAway(t, c, s) => t[o][c] # NoNode)
      /\ new = Rotate(IF LeansAway(t, c, s) THEN Rotate(t, c, o, s) ELSE t, n, s, o)
  BY <1>2
<1> HIDE DEF o, c
<1>4. CASE ~LeansAway(t, c, s)
  <2>1. new = Rotate(t, n, s, o)
    BY <1>0, <1>4
  <2> DEFINE E == Turned(D, n, c, {n} \cup D[t[o][c]] \cup D[t[o][n]])
  <2>0. Rotation(t, D, n, s, o, c, t[o][c], t.parent[n], E, new)
    BY <1>0, <1>3, <2>1 DEF Rotation
  <2> HIDE DEF E
  <2>2. /\ Shape(new, E) /\ Allocated(new) = Allocated(t) /\ new.root = t.root /\ new.size = t.size
        /\ Fresh(new, n)
        /\ \A m \in Allocated(t) : m \notin {n, c, t.parent[n]} /\ Fresh(t, m) => Fresh(new, m)
    BY <2>0, RotateKeepsShape
  <2>3. /\ c \in Allocated(t) /\ E[c] = D[n] /\ c \in E[c] /\ new.parent[n] = c
        /\ \A m \in Allocated(t) : c \notin E[m] => m = n \/ (m \notin {n, c, t.parent[n]} /\ n \notin D[m])
    BY <2>0, RotateReach
  <2>4. FreshBut(new, E, new.parent[n])
    BY <2>2, <2>3 DEF FreshBut
  <2> QED
    BY <2>2, <2>3, <2>4
<1>5. CASE LeansAway(t, c, s)
  <2> DEFINE g == t[o][c]
             t1 == Rotate(t, c, o, s)
             D1 == Turned(D, c, g, {c} \cup D[t[s][g]] \cup D[t[s][c]])
             A == Allocated(t)
  <2>1. new = Rotate(t1, n, s, o) /\ g # NoNode
    BY <1>0, <1>5
  <2>0. Rotation(t, D, c, o, s, g, t[s][g], n, D1, t1)
    BY <1>0, <1>3, <2>1 DEF Rotation
  <2>2. /\ Shape(t1, D1) /\ Allocated(t1) = A /\ t1.root = t.root /\ t1.size = t.size
        /\ Fresh(t1, c)
        /\ \A m \in A : m \notin {c, g, n} /\ Fresh(t, m) => Fresh(t1, m)
    BY <2>0, RotateKeepsShape
  <2>3. g \in A /\ g \in D[c] /\ \A m \in A : m \notin {c, g} => D1[m] = D[m]
    <3>1. g \in A /\ \A m \in A : m \notin {c, g} => D1[m] = D[m]
      BY <2>0, RotateReach
    <3>2. g \in D[g] /\ D[g] \subseteq D[c]
      BY <1>3, <2>1, ChildShape
    <3> QED
      BY <3>1, <3>2
  <2>4. n # g /\ D1[n] = D[n] /\ n \in A
    BY <1>3, <2>3
  <2>5. t1[s][n] = g
    <3>1. \A m \in Keys : t1[s][m] = IF m = g THEN c
                                     ELSE IF m = n /\ t[s][m] = c THEN g ELSE t[s][m]
      BY <1>3, <2>1, RotateFields
    <3> QED
      BY <1>0, <1>1, <2>4, <3>1
  <2> HIDE DEF t1, D1, A, g
  <2> DEFINE q  == t1.parent[n]
             D2 == Turned(D1, n, g, {n} \cup D1[t1[o][g]] \cup D1[t1[o][n]])
  <2>6. n \in Allocated(t1) /\ t1[s][n] # NoNode
    BY <2>1, <2>2, <2>4, <2>5
  <2>11. Rotation(t1, D1, n, s, o, g, t1[o][g], q, D2, new)
    BY <1>0, <2>1, <2>2, <2>5, <2>6 DEF Rotation
  <2> HIDE DEF D2, q
  <2>7. /\ Shape(new, D2) /\ Allocated(new) = Allocated(t1) /\ new.root = t1.root /\ new.size = t1.size
        /\ Fresh(new, n)
        /\ \A m \in Allocated(t1) : m \notin {n, g, q} /\ Fresh(t1, m) => Fresh(new, m)
    BY <2>11, RotateKeepsShape
  <2>8. /\ D2[g] = D1[n] /\ new.parent[n] = g
        /\ \A m \in Allocated(t1) : g \notin D2[m] => m = n \/ (m \notin {n, g, q} /\ n \notin D1[m])
    BY <2>11, RotateReach
  <2>9. ASSUME NEW m \in A, g \notin D2[m] PROVE Fresh(new, m)
    <3>1. CASE m = n
      BY <2>7, <3>1
    <3>2. CASE m # n
      <4>1. m \notin {n, g, q} /\ n \notin D1[m]
        BY <2>2, <2>8, <2>9, <3>2
      <4>2. Fresh(t1, m)
        <5>1. CASE m = c
          BY <2>2, <5>1
        <5>2. CASE m # c
          <6>1. n \notin D[m]
            BY <2>3, <4>1, <5>2
          <6>2. Fresh(t, m)
            BY <6>1 DEF FreshBut, A
          <6> QED
            BY <2>2, <4>1, <5>2, <6>2
        <5> QED
          BY <5>1, <5>2
      <4> QED
        BY <2>2, <2>7, <4>1, <4>2
    <3> QED
      BY <3>1, <3>2
  <2>10. FreshBut(new, D2, new.parent[n])
    BY <2>2, <2>7, <2>8, <2>9 DEF FreshBut
  <2> QED
    BY <2>2, <2>3, <2>4, <2>7, <2>8, <2>10 DEF A
<1> QED
  BY <1>4, <1>5

---------------------------------------------------------------------------
(* The walk to the root *)

\* What the walk is at: the tree so far, the node it is at, and whether it has rebalanced.
Walks == [tree : Tree, at : Node, balanced : BOOLEAN]

\* One step of the walk.
NextWalk(w) ==
  LET fresh == Refresh(w.tree, w.at)
      turn  == ~w.balanced /\ ~Balanced(fresh, w.at)
      next  == IF turn THEN Rebalance(fresh, w.at) ELSE fresh
  IN  [tree |-> next, at |-> next.parent[w.at], balanced |-> w.balanced \/ turn]

\* A rotation makes a tree record of any tree record.
LEMMA RotateType ==
  ASSUME NEW t \in Tree, NEW n \in Keys, NEW heavy \in Sides, NEW light, light = Other(heavy)
  PROVE  Rotate(t, n, heavy, light) \in Tree
<1> DEFINE up  == t[heavy][n]
           mid == IF up = NoNode THEN NoNode ELSE t[light][up]
           t1  == ReplaceChild(t, t.parent[n], n, up)
           t2  == SetParent(t1, up, t.parent[n])
           t3  == [t2 EXCEPT !.parent[n] = up, ![light][up] = n, ![heavy][n] = mid]
           t4  == SetParent(t3, mid, n)
<1>1. /\ light \in Sides /\ light # heavy /\ n \in Node /\ t.parent[n] \in Node
      /\ up \in Node
  BY KeysAreNodes, FieldTypes DEF Sides, Other
<1>2. mid \in Node
  BY <1>1, KeysAreNodes, FieldTypes
<1>3. Rotate(t, n, heavy, light) = Refresh(t4, n)
  BY DEF Rotate
<1> HIDE DEF up, mid
<1>4. t1 \in Tree
  BY <1>1, ReplaceChildFields
<1> HIDE DEF t1
<1>5. t2 \in Tree
  BY <1>1, <1>4, SetParentFields
<1> HIDE DEF t2
<1>6. t3 \in Tree
  <2>1. CASE heavy = "left" /\ light = "right"
    BY <1>1, <1>2, <1>5, <2>1 DEF Tree, Links
  <2>2. CASE heavy = "right" /\ light = "left"
    BY <1>1, <1>2, <1>5, <2>2 DEF Tree, Links
  <2> QED
    BY <1>1, <2>1, <2>2 DEF Sides
<1> HIDE DEF t3
<1>7. t4 \in Tree
  BY <1>1, <1>2, <1>6, SetParentFields
<1> HIDE DEF t4
<1> QED
  BY <1>3, <1>7, RefreshFields

\* So does Rebalance.
LEMMA RebalanceType ==
  ASSUME NEW t \in Tree, NEW n \in Keys
  PROVE  Rebalance(t, n) \in Tree
<1>1. CASE Balanced(t, n)
  <2>1. ~(HeightDifference(t, n) > 1) /\ ~(HeightDifference(t, n) < -1)
    BY <1>1 DEF Balanced
  <2> QED
    BY <2>1 DEF Rebalance
<1>2. CASE ~Balanced(t, n)
  <2>1. PICK s \in Sides :
          LET o == Other(s)
              c == t[s][n]
          IN  /\ Heavy(t, n, s) /\ c \in Keys
              /\ LeansAway(t, c, s) => t[o][c] # NoNode
              /\ Rebalance(t, n) = Rotate(IF LeansAway(t, c, s) THEN Rotate(t, c, o, s) ELSE t, n, s, o)
    BY <1>2, RebalanceTurns
  <2>2. Other(s) \in Sides /\ Other(Other(s)) = s
    BY DEF Sides, Other
  <2>3. Rotate(t, t[s][n], Other(s), s) \in Tree
    BY <2>1, <2>2, RotateType
  <2> QED
    BY <2>1, <2>3, RotateType
<1> QED
  BY <1>1, <1>2

\* The steps of the walk as a loop.
WalkStep == [w \in Walks |-> IF w.at = NoNode THEN w ELSE NextWalk(w)]
WalkDone == {w \in Walks : w.at = NoNode}
WalkOut  == [w \in Walks |-> w.tree]

\* A step of the walk goes to a state of the walk.
LEMMA NextWalkType ==
  ASSUME NEW w \in Walks, w.at # NoNode
  PROVE  NextWalk(w) \in Walks
<1>1. w.tree \in Tree /\ w.at \in Keys
  BY KeysAreNodes DEF Walks
<1> DEFINE fresh == Refresh(w.tree, w.at)
           turn  == ~w.balanced /\ ~Balanced(fresh, w.at)
           next  == IF turn THEN Rebalance(fresh, w.at) ELSE fresh
<1>2. fresh \in Tree
  BY <1>1, RefreshFields
<1> HIDE DEF fresh
<1>3. next \in Tree
  BY <1>1, <1>2, RebalanceType
<1>4. (w.balanced \/ turn) \in BOOLEAN
  BY Zenon
<1>5. NextWalk(w) = [tree |-> next, at |-> next.parent[w.at], balanced |-> w.balanced \/ turn]
  BY DEF NextWalk, fresh
<1> HIDE DEF next, turn
<1>6. next.parent[w.at] \in Node
  BY <1>1, <1>3, FieldTypes
<1> QED
  BY <1>3, <1>4, <1>5, <1>6 DEF Walks

\* WalkUp is the result of this loop.
LEMMA WalkIsLoop ==
  ASSUME NEW t, NEW n
  PROVE  \E f : /\ Solves(f, Walks, WalkStep, WalkDone, WalkOut)
                /\ WalkUp(t, n) = f[[tree |-> t, at |-> n, balanced |-> FALSE]]
<1> DEFINE walk[w \in [tree : Tree, at : Node, balanced : BOOLEAN]] ==
             IF w.at = NoNode THEN w.tree
             ELSE LET fresh == Refresh(w.tree, w.at)
                      turn  == ~w.balanced /\ ~Balanced(fresh, w.at)
                      next  == IF turn THEN Rebalance(fresh, w.at) ELSE fresh
                  IN  walk[[tree |-> next, at |-> next.parent[w.at],
                            balanced |-> w.balanced \/ turn]]
<1>1. WalkUp(t, n) = walk[[tree |-> t, at |-> n, balanced |-> FALSE]]
  BY DEF WalkUp
<1>3. WalkStep \in [Walks -> Walks] /\ WalkDone \in SUBSET Walks
  BY NextWalkType DEF WalkStep, WalkDone
<1>4. PICK f : Solves(f, Walks, WalkStep, WalkDone, WalkOut)
  BY <1>3, TailRecursion
<1>5. \A h : \A w \in Walks :
        (IF w \in WalkDone THEN WalkOut[w] ELSE h[WalkStep[w]])
        = IF w.at = NoNode THEN w.tree
          ELSE LET fresh == Refresh(w.tree, w.at)
                   turn  == ~w.balanced /\ ~Balanced(fresh, w.at)
                   next  == IF turn THEN Rebalance(fresh, w.at) ELSE fresh
               IN  h[[tree |-> next, at |-> next.parent[w.at], balanced |-> w.balanced \/ turn]]
  BY DEF WalkDone, WalkOut, WalkStep, NextWalk
<1>6. f = [w \in [tree : Tree, at : Node, balanced : BOOLEAN] |->
             IF w.at = NoNode THEN w.tree
             ELSE LET fresh == Refresh(w.tree, w.at)
                      turn  == ~w.balanced /\ ~Balanced(fresh, w.at)
                      next  == IF turn THEN Rebalance(fresh, w.at) ELSE fresh
                  IN  f[[tree |-> next, at |-> next.parent[w.at], balanced |-> w.balanced \/ turn]]]
  BY <1>4, <1>5 DEF Solves, Walks
<1>7. walk = [w \in [tree : Tree, at : Node, balanced : BOOLEAN] |->
                IF w.at = NoNode THEN w.tree
                ELSE LET fresh == Refresh(w.tree, w.at)
                         turn  == ~w.balanced /\ ~Balanced(fresh, w.at)
                         next  == IF turn THEN Rebalance(fresh, w.at) ELSE fresh
                     IN  walk[[tree |-> next, at |-> next.parent[w.at], balanced |-> w.balanced \/ turn]]]
  BY <1>6, Zenon
<1> HIDE DEF walk
<1>8. Solves(walk, Walks, WalkStep, WalkDone, WalkOut)
  <2>1. walk = [w \in Walks |-> walk[w]]
    BY <1>7 DEF Walks
  <2>2. ASSUME NEW w \in Walks
        PROVE  walk[w] = IF w.at = NoNode THEN w.tree
                         ELSE LET fresh == Refresh(w.tree, w.at)
                                  turn  == ~w.balanced /\ ~Balanced(fresh, w.at)
                                  next  == IF turn THEN Rebalance(fresh, w.at) ELSE fresh
                              IN  walk[[tree |-> next, at |-> next.parent[w.at],
                                        balanced |-> w.balanced \/ turn]]
    BY <1>7 DEF Walks
  <2>3. \A w \in Walks : walk[w] = IF w \in WalkDone THEN WalkOut[w] ELSE walk[WalkStep[w]]
    BY <1>5, <2>2
  <2> QED
    BY <2>1, <2>3 DEF Solves
<1> QED
  BY <1>1, <1>8

\* The walk that started in t is at w: the links are those of E, and what is stale is
\* above the node that it is at.
WalkOK(w, E, t) ==
  /\ w \in Walks /\ Shape(w.tree, E) /\ FreshBut(w.tree, E, w.at)
  /\ w.at \in Allocated(t) \cup {NoNode} /\ Allocated(w.tree) = Allocated(t)
  /\ w.tree.root = t.root /\ w.tree.size = t.size

\* What the walk still has to do.
Rank(w, E) == IF w.at = NoNode THEN 0
              ELSE 2 * Cardinality(Keys \ E[w.at]) + (IF w.balanced THEN 1 ELSE 2)

\* The rest of the keys, when the keys below grow.
LEMMA RestShrinks ==
  ASSUME NEW S \in SUBSET Keys, NEW T \in SUBSET Keys
  PROVE  /\ Cardinality(Keys \ S) \in Nat
         /\ S \subseteq T /\ S # T => Cardinality(Keys \ T) < Cardinality(Keys \ S)
<1>1. IsFiniteSet(Keys \ S) /\ Keys \ S \subseteq Keys
  BY KeysAssumption, FS_Subset
<1>2. Cardinality(Keys \ S) \in Nat
  BY <1>1, FS_CardinalityType
<1>3. ASSUME S \subseteq T, S # T PROVE Cardinality(Keys \ T) < Cardinality(Keys \ S)
  <2>1. Keys \ T \subseteq Keys \ S /\ Keys \ T # Keys \ S
    BY <1>3
  <2> QED
    BY <1>1, <2>1, FewerElements
<1> QED
  BY <1>2, <1>3

\* A step of the walk keeps WalkOK and leaves less to do.
LEMMA NextWalkKeeps ==
  ASSUME NEW w, NEW D, NEW t, WalkOK(w, D, t), w.at # NoNode
  PROVE  \E E : /\ WalkOK(NextWalk(w), E, t) /\ Rank(w, D) \in Nat
                /\ Rank(NextWalk(w), E) \in Nat /\ Rank(NextWalk(w), E) < Rank(w, D)
<1> DEFINE n     == w.at
           fresh == Refresh(w.tree, n)
           turn  == ~w.balanced /\ ~Balanced(fresh, n)
           next  == IF turn THEN Rebalance(fresh, n) ELSE fresh
           v     == NextWalk(w)
           A     == Allocated(t)
           q     == w.tree.parent[n]
<1>1. /\ v = [tree |-> next, at |-> next.parent[n], balanced |-> w.balanced \/ turn]
      /\ w \in Walks /\ n \in A /\ A = Allocated(w.tree) /\ n \in Allocated(w.tree)
      /\ w.tree.root = t.root /\ w.tree.size = t.size
  BY DEF NextWalk, WalkOK
<1>2. v \in Walks
  BY <1>1, NextWalkType
<1>3. v.tree = next /\ v.at = next.parent[n] /\ v.balanced = (w.balanced \/ turn)
  BY <1>1
<1>4. /\ Shape(fresh, D) /\ Allocated(fresh) = A /\ Fresh(fresh, n)
      /\ fresh.root = t.root /\ fresh.size = t.size /\ fresh.parent = w.tree.parent
      /\ \A m \in A : m \notin {n, q} /\ Fresh(w.tree, m) => Fresh(fresh, m)
  BY <1>1, RefreshKeepsShape DEF WalkOK
<1>5. D \in [Node -> SUBSET Keys] /\ n \in Node /\ n \in D[n] /\ D[n] \subseteq Keys /\ n \in Keys
  BY <1>1, NodeShape DEF WalkOK, Shape
<1>6. Cardinality(Keys \ D[n]) \in Nat
  BY <1>5, RestShrinks
<1>7. Rank(w, D) \in Nat /\ Rank(w, D) = 2 * Cardinality(Keys \ D[n]) + (IF w.balanced THEN 1 ELSE 2)
  BY <1>6 DEF Rank
<1>8. \A m \in A : n \notin D[m] => Fresh(w.tree, m)
  BY <1>1 DEF WalkOK, FreshBut
<1>9. q # NoNode => /\ q \in A /\ q \in Keys /\ D[n] \subseteq D[q] /\ q \in D[q] /\ q \notin D[n]
                    /\ n \in D[q] /\ D[q] \subseteq Keys
  <2> SUFFICES ASSUME q # NoNode
               PROVE  /\ q \in A /\ q \in Keys /\ D[n] \subseteq D[q] /\ q \in D[q] /\ q \notin D[n]
                      /\ n \in D[q] /\ D[q] \subseteq Keys
    OBVIOUS
  <2>0. Shape(w.tree, D)
    BY DEF WalkOK
  <2>1. q \in A
    BY <1>1, <2>0, NodeShape
  <2>2. PICK s \in Sides : w.tree[s][q] = n
    BY <1>1, <2>0, NodeShape
  <2> QED
    BY <1>1, <1>5, <2>0, <2>1, <2>2, ChildShape, NodeShape
<1> HIDE DEF fresh, n, q, v, A
<1>10. CASE ~turn
  <2>1. next = fresh /\ v.tree = fresh /\ v.at = q
    BY <1>3, <1>4, <1>10 DEF q
  <2>2. ASSUME NEW m \in A, q \notin D[m] PROVE Fresh(fresh, m)
    <3>1. CASE m = n
      BY <1>4, <3>1
    <3>2. CASE m # n
      <4>1. n \notin D[m]
        <5>1. Shape(w.tree, D) /\ m \in Allocated(w.tree)
          BY <1>1 DEF WalkOK
        <5> QED
          BY <2>2, <3>2, <5>1, BelowIsClosed DEF q
      <4>2. m # q
        BY <1>4, <1>9, <2>2, <3>2, NodeShape
      <4> QED
        BY <1>4, <1>8, <3>2, <4>1, <4>2
    <3> QED
      BY <3>1, <3>2
  <2>3. q \in A \cup {NoNode}
    BY <1>9
  <2>4. WalkOK(v, D, t)
    BY <1>2, <1>4, <2>1, <2>2, <2>3 DEF WalkOK, FreshBut, A
  <2>5. Rank(v, D) \in Nat /\ Rank(v, D) < Rank(w, D)
    <3>1. CASE q = NoNode
      BY <1>6, <1>7, <2>1, <3>1 DEF Rank
    <3>2. CASE q # NoNode
      <4>1. /\ Cardinality(Keys \ D[q]) \in Nat
            /\ Cardinality(Keys \ D[q]) < Cardinality(Keys \ D[n])
        BY <1>5, <1>9, <3>2, RestShrinks
      <4>2. Rank(v, D) = 2 * Cardinality(Keys \ D[q]) + (IF v.balanced THEN 1 ELSE 2)
        BY <2>1, <3>2 DEF Rank
      <4> QED
        BY <1>6, <1>7, <4>1, <4>2
    <3> QED
      BY <3>1, <3>2
  <2> QED
    BY <1>7, <2>4, <2>5 DEF v
<1>11. CASE turn
  <2>1. next = Rebalance(fresh, n) /\ ~Balanced(fresh, n) /\ ~w.balanced /\ v.balanced
    BY <1>3, <1>11
  <2>2. FreshBut(fresh, D, n)
    <3> SUFFICES ASSUME NEW m \in A, n \notin D[m] PROVE Fresh(fresh, m)
      BY <1>4 DEF FreshBut
    <3>1. m # n /\ m # q
      <4>1. m # NoNode
        BY <1>4, NodeShape
      <4> QED
        BY <1>5, <1>9, <4>1
    <3> QED
      BY <1>4, <1>8, <3>1
  <2>3. PICK E : /\ Shape(next, E) /\ Allocated(next) = Allocated(fresh)
                 /\ next.root = fresh.root /\ next.size = fresh.size
                 /\ next.parent[n] \in Allocated(fresh) /\ E[next.parent[n]] = D[n]
                 /\ FreshBut(next, E, next.parent[n])
    BY <1>1, <1>4, <2>1, <2>2, RebalanceKeepsShape
  <2> HIDE DEF next
  <2>4. v.at \in A /\ v.at # NoNode
    BY <1>3, <1>4, <2>3, NodeShape
  <2>5. WalkOK(v, E, t)
    BY <1>2, <1>3, <1>4, <2>3, <2>4 DEF WalkOK, A
  <2>6. Rank(v, E) = 2 * Cardinality(Keys \ D[n]) + 1
    BY <1>3, <2>1, <2>3, <2>4 DEF Rank
  <2>7. Rank(w, D) = 2 * Cardinality(Keys \ D[n]) + 2
    BY <1>7, <2>1
  <2> QED
    BY <1>6, <1>7, <2>5, <2>6, <2>7 DEF v
<1> QED
  BY <1>10, <1>11

\* The walk ends, in a tree of that shape where everything is fresh; what every step of
\* it keeps holds there.
LEMMA WalkEnds ==
  ASSUME NEW t, NEW D, Shape(t, D), NEW n \in Allocated(t) \cup {NoNode}, FreshBut(t, D, n),
         NEW J, [tree |-> t, at |-> n, balanced |-> FALSE] \in J,
         \A w \in J : \A E : WalkOK(w, E, t) /\ w.at # NoNode => NextWalk(w) \in J
  PROVE  \E E : \E w \in J : /\ w.at = NoNode /\ WalkUp(t, n) = w.tree
                               /\ WalkOK(w, E, t) /\ AllFresh(w.tree)
<1> DEFINE w0 == [tree |-> t, at |-> n, balanced |-> FALSE]
           I  == {w \in Walks : w \in J /\ \E E : WalkOK(w, E, t)}
<1>1. PICK f : Solves(f, Walks, WalkStep, WalkDone, WalkOut) /\ WalkUp(t, n) = f[w0]
  BY WalkIsLoop
<1>2. WalkOK(w0, D, t) /\ w0 \in Walks
  <2>1. w0 \in Walks
    BY NodeShape, KeysAreNodes DEF Walks, Shape
  <2> QED
    BY <2>1 DEF WalkOK
<1>3. w0 \in I
  BY <1>2
<1>4. ASSUME NEW w \in I, w \notin WalkDone PROVE WalkStep[w] \in I
  <2>1. w \in Walks /\ w \in J /\ w.at # NoNode
    BY <1>4 DEF WalkDone
  <2>2. PICK D1 : WalkOK(w, D1, t)
    OBVIOUS
  <2>3. PICK D2 : WalkOK(NextWalk(w), D2, t)
    BY <2>1, <2>2, NextWalkKeeps
  <2>4. NextWalk(w) \in J /\ NextWalk(w) \in Walks
    BY <2>1, <2>2, <2>3 DEF WalkOK
  <2> QED
    BY <2>1, <2>3, <2>4 DEF WalkStep
<1>5. ASSUME NEW X \in SUBSET I, X # {} PROVE \E w \in X : w \in WalkDone \/ WalkStep[w] \notin X
  <2> DEFINE ranks == {r \in Nat : \E w \in X : \E D1 : WalkOK(w, D1, t) /\ r = Rank(w, D1)}
  <2>1. CASE \E w \in X : w.at = NoNode
    BY <2>1 DEF WalkDone
  <2>2. CASE \A w \in X : w.at # NoNode
    <3>1. ranks # {}
      <4>1. PICK w \in X : TRUE
        BY <1>5
      <4>2. PICK D1 : WalkOK(w, D1, t)
        OBVIOUS
      <4>3. Rank(w, D1) \in Nat
        BY <2>2, <4>2, NextWalkKeeps
      <4> QED
        BY <4>2, <4>3
    <3>2. PICK r \in ranks : \A k \in ranks : r <= k
      <4>1. ranks \subseteq Nat
        OBVIOUS
      <4> HIDE DEF ranks
      <4> QED
        BY <3>1, <4>1, LeastNumber
    <3>3. PICK w \in X : \E D1 : WalkOK(w, D1, t) /\ r = Rank(w, D1)
      OBVIOUS
    <3>7. PICK D1 : WalkOK(w, D1, t) /\ r = Rank(w, D1)
      BY <3>3
    <3>4. PICK D2 : /\ WalkOK(NextWalk(w), D2, t) /\ Rank(NextWalk(w), D2) \in Nat
                    /\ Rank(NextWalk(w), D2) < Rank(w, D1) /\ Rank(w, D1) \in Nat
      BY <2>2, <3>7, NextWalkKeeps
    <3>5. NextWalk(w) \notin X
      <4> SUFFICES ASSUME NextWalk(w) \in X PROVE FALSE
        OBVIOUS
      <4>1. Rank(NextWalk(w), D2) \in ranks
        BY <3>4
      <4> HIDE DEF ranks
      <4> QED
        BY <3>2, <3>4, <3>7, <4>1
    <3>6. WalkStep[w] = NextWalk(w)
      <4>1. w \in Walks /\ w.at # NoNode
        BY <2>2
      <4> QED
        BY <4>1 DEF WalkStep
    <3> QED
      BY <3>5, <3>6
  <2> QED
    BY <2>1, <2>2
<1>6. PICK w \in I : w \in WalkDone /\ f[w0] = WalkOut[w]
  <2> HIDE DEF I, w0
  <2>1. Proceeds(I, WalkStep, WalkDone)
    BY <1>4, <1>5 DEF Proceeds
  <2>2. I \in SUBSET Walks
    BY DEF I
  <2>3. ResultIn(I, WalkDone, WalkOut, f[w0])
    BY <1>1, <1>3, <2>1, <2>2, LoopEnds
  <2> QED
    BY <2>3 DEF ResultIn
<1>7. w \in J /\ w \in Walks /\ w.at = NoNode /\ WalkUp(t, n) = w.tree
  BY <1>1, <1>6 DEF WalkDone, WalkOut
<1>8. PICK E : WalkOK(w, E, t)
  OBVIOUS
<1>9. AllFresh(w.tree)
  <2>1. \A m \in Allocated(w.tree) : NoNode \notin E[m]
    <3>1. \A m \in Allocated(w.tree) : E[m] \subseteq Keys
      BY <1>8, NodeShape DEF WalkOK
    <3> QED
      BY <3>1, KeysAreNodes
  <2> QED
    BY <1>7, <1>8, <2>1 DEF WalkOK, FreshBut, AllFresh
<1> HIDE DEF I
<1> QED
  BY <1>7, <1>8, <1>9, Zenon

---------------------------------------------------------------------------
(* The root *)

\* u differs from t in the root and the size at most.
SameNodes(u, t) == /\ u.parent = t.parent /\ u.left = t.left /\ u.right = t.right
                   /\ u.height = t.height /\ u.leftmost = t.leftmost /\ u.rightmost = t.rightmost

\* Such a change keeps the shape and what is fresh and balanced.
LEMMA SameNodesKeep ==
  ASSUME NEW t, NEW u \in Tree, SameNodes(u, t)
  PROVE  /\ Allocated(u) = Allocated(t)
         /\ \A D : Shape(t, D) => Shape(u, D)
         /\ \A m : Fresh(t, m) => Fresh(u, m)
         /\ \A m : Balanced(u, m) <=> Balanced(t, m)
<1>1. Allocated(u) = Allocated(t)
  BY DEF Allocated, SameNodes
<1>2. \A s \in Sides : u[s] = t[s] /\ u[EndOf(s)] = t[EndOf(s)]
  BY DEF Sides, EndOf, SameNodes
<1>3. ASSUME NEW D, Shape(t, D) PROVE Shape(u, D)
  <2>1. \A m \in Keys \ Allocated(u) : NoFields(u, m) /\ D[m] = {}
    BY <1>1, <1>3 DEF Shape, NoFields, SameNodes
  <2>2. ASSUME NEW m \in Allocated(u) PROVE Linked(u, D, m)
    <3>1. Linked(t, D, m)
      BY <1>1, <1>3 DEF Shape
    <3> QED
      BY <1>1, <1>2, <3>1 DEF Linked, SameNodes
  <2>3. Allocated(u) # {} => \E top \in Allocated(u) : u.parent[top] = NoNode /\ D[top] = Allocated(u)
    BY <1>1, <1>3 DEF Shape, SameNodes
  <2> QED
    BY <1>3, <2>1, <2>2, <2>3 DEF Shape
<1>4. \A c : ChildHeight(u, c) = ChildHeight(t, c)
  BY DEF ChildHeight, SameNodes
<1>5. \A m : Taller(u, m) = Taller(t, m)
  BY <1>4 DEF Taller, SameNodes
<1>6. ASSUME NEW m, Fresh(t, m) PROVE Fresh(u, m)
  <2>1. \A s \in Sides : Farthest(u, s, m) = Farthest(t, s, m)
    BY <1>2 DEF Farthest
  <2> QED
    BY <1>2, <1>5, <1>6, <2>1 DEF Fresh, SameNodes
<1>7. ASSUME NEW m PROVE Balanced(u, m) <=> Balanced(t, m)
  <2>1. HeightDifference(u, m) = HeightDifference(t, m)
    BY <1>4 DEF HeightDifference, SameNodes
  <2> QED
    BY <2>1 DEF Balanced
<1> QED
  BY <1>1, <1>3, <1>6, <1>7

\* Going up to the root as a loop.
UpStep(t) == [n \in Node |-> IF n = NoNode THEN n ELSE t.parent[n]]
UpDone(t) == {n \in Node : n = NoNode \/ t.parent[n] = NoNode}
UpOut     == [n \in Node |-> n]

\* UpdateRoot takes the result of this loop for the root.
LEMMA UpdateRootIsLoop ==
  ASSUME NEW t \in Tree
  PROVE  \E f : Solves(f, Node, UpStep(t), UpDone(t), UpOut) /\ UpdateRoot(t) = [t EXCEPT !.root = f[t.root]]
<1> DEFINE top[n \in Node] == IF n = NoNode \/ t.parent[n] = NoNode THEN n ELSE top[t.parent[n]]
<1>1. UpdateRoot(t) = [t EXCEPT !.root = top[t.root]]
  BY DEF UpdateRoot
<1>2. UpStep(t) \in [Node -> Node] /\ UpDone(t) \in SUBSET Node
  BY FieldTypes, KeysAreNodes DEF UpStep, UpDone
<1>3. \A f : \A n \in Node : (IF n \in UpDone(t) THEN UpOut[n] ELSE f[UpStep(t)[n]])
                              = IF n = NoNode \/ t.parent[n] = NoNode THEN n ELSE f[t.parent[n]]
  BY DEF UpStep, UpDone, UpOut
<1>4. \E f : f = [n \in Node |-> IF n = NoNode \/ t.parent[n] = NoNode THEN n ELSE f[t.parent[n]]]
  <2>1. PICK f : Solves(f, Node, UpStep(t), UpDone(t), UpOut)
    BY <1>2, TailRecursion
  <2>2. f = [n \in Node |-> IF n = NoNode \/ t.parent[n] = NoNode THEN n ELSE f[t.parent[n]]]
    BY <1>3, <2>1 DEF Solves
  <2> QED
    BY <2>2
<1>5. top = [n \in Node |-> IF n = NoNode \/ t.parent[n] = NoNode THEN n ELSE top[t.parent[n]]]
  BY <1>4, Zenon
<1>6. Solves(top, Node, UpStep(t), UpDone(t), UpOut)
  <2> HIDE DEF top
  <2> QED
    BY <1>3, <1>5 DEF Solves
<1> QED
  BY <1>1, <1>6

\* UpdateRoot finds the node without a parent from any node of the tree.
LEMMA UpdateRootFinds ==
  ASSUME NEW t, NEW D, Shape(t, D), t.root \in Allocated(t)
  PROVE  LET u == UpdateRoot(t)
         IN  /\ u \in Tree /\ SameNodes(u, t) /\ u.size = t.size
             /\ u.root \in Allocated(t) /\ t.parent[u.root] = NoNode
<1> DEFINE A == Allocated(t)
<1>1. t \in Tree
  BY DEF Shape
<1>2. PICK top : Solves(top, Node, UpStep(t), UpDone(t), UpOut) /\ UpdateRoot(t) = [t EXCEPT !.root = top[t.root]]
  BY <1>1, UpdateRootIsLoop
<1>3. A \in SUBSET Node
  BY KeysAreNodes DEF Allocated
<1>4. ASSUME NEW n \in A, n \notin UpDone(t) PROVE UpStep(t)[n] \in A
  <2>1. n \in Node /\ n # NoNode /\ t.parent[n] # NoNode
    BY <1>3, <1>4, NodeShape DEF UpDone
  <2>2. t.parent[n] \in A
    BY <2>1, NodeShape
  <2> QED
    BY <2>1, <2>2 DEF UpStep
<1>5. ASSUME NEW X \in SUBSET A, X # {} PROVE \E n \in X : n \in UpDone(t) \/ UpStep(t)[n] \notin X
  <2>1. PICK n \in X : t.parent[n] \notin X
    BY <1>5, HighestNode
  <2>2. n \in Node
    BY <1>3
  <2> QED
    BY <2>1, <2>2 DEF UpStep, UpDone
<1>6. PICK n \in A : n \in UpDone(t) /\ top[t.root] = UpOut[n]
  <2> HIDE DEF A
  <2>1. Proceeds(A, UpStep(t), UpDone(t)) /\ t.root \in A
    BY <1>4, <1>5 DEF Proceeds, A
  <2>2. ResultIn(A, UpDone(t), UpOut, top[t.root])
    BY <1>2, <1>3, <2>1, LoopEnds
  <2> QED
    BY <2>2 DEF ResultIn
<1>7. top[t.root] = n /\ n \in A /\ n \in Node /\ t.parent[n] = NoNode
  BY <1>3, <1>6, NodeShape DEF UpDone, UpOut
<1>8. UpdateRoot(t) = [t EXCEPT !.root = n]
  BY <1>2, <1>7
<1> QED
  BY <1>7, <1>8 DEF Shape, Tree, SameNodes

\* The walk and UpdateRoot make a tree of the right shape sound, if its root is one of its
\* nodes and its size is right; what every step of the walk keeps holds of the result.
LEMMA WalkAndRoot ==
  ASSUME NEW t, NEW D, Shape(t, D), NEW n \in Allocated(t) \cup {NoNode}, FreshBut(t, D, n),
         t.root \in Allocated(t),
         NEW J, [tree |-> t, at |-> n, balanced |-> FALSE] \in J,
         \A w \in J : \A E : WalkOK(w, E, t) /\ w.at # NoNode => NextWalk(w) \in J
  PROVE  LET u == UpdateRoot(WalkUp(t, n))
         IN  \E E : /\ Shape(u, E) /\ AllFresh(u) /\ Rooted(u)
                    /\ Allocated(u) = Allocated(t) /\ u.size = t.size
                    /\ \E w \in J : /\ w.at = NoNode /\ SameNodes(u, w.tree)
                                    /\ Allocated(w.tree) = Allocated(t)
<1>1. PICK E : \E w \in J : /\ w.at = NoNode /\ WalkUp(t, n) = w.tree
                            /\ WalkOK(w, E, t) /\ AllFresh(w.tree)
  BY WalkEnds
<1>2. PICK w \in J : /\ w.at = NoNode /\ WalkUp(t, n) = w.tree
                     /\ WalkOK(w, E, t) /\ AllFresh(w.tree)
  BY <1>1
<1> DEFINE u == UpdateRoot(w.tree)
<1>3. /\ Shape(w.tree, E) /\ Allocated(w.tree) = Allocated(t)
      /\ w.tree.root \in Allocated(w.tree) /\ w.tree.size = t.size
  BY <1>2 DEF WalkOK
<1>4. /\ u \in Tree /\ SameNodes(u, w.tree) /\ u.size = t.size
      /\ u.root \in Allocated(w.tree) /\ w.tree.parent[u.root] = NoNode
  BY <1>3, UpdateRootFinds
<1> HIDE DEF u
<1>5. Allocated(u) = Allocated(t) /\ Shape(u, E) /\ \A m : Fresh(w.tree, m) => Fresh(u, m)
  BY <1>3, <1>4, SameNodesKeep
<1>6. AllFresh(u)
  BY <1>2, <1>3, <1>5 DEF AllFresh
<1>7. Rooted(u)
  <2>1. u.root # NoNode /\ u.parent[u.root] = NoNode
    BY <1>3, <1>4, NodeShape DEF SameNodes
  <2> QED
    BY <1>3, <1>4, <1>5, <2>1 DEF Rooted
<1> QED
  BY <1>2, <1>3, <1>4, <1>5, <1>6, <1>7 DEF u

---------------------------------------------------------------------------
(* Adding a leaf *)

\* Node m and what its children cache are the same in u as in t.
SameAround(u, t, m) ==
  /\ u.height[m] = t.height[m]
  /\ \A s \in Sides : u[s][m] = t[s][m] /\ u[EndOf(s)][m] = t[EndOf(s)][m]
  /\ \A s \in Sides : t[s][m] # NoNode => /\ u.height[t[s][m]] = t.height[t[s][m]]
                                          /\ u[EndOf(s)][t[s][m]] = t[EndOf(s)][t[s][m]]

\* A node stays fresh when nothing changes around it.
LEMMA SameAroundKeeps ==
  ASSUME NEW t, NEW u, NEW m, SameAround(u, t, m)
  PROVE  /\ Taller(u, m) = Taller(t, m) /\ (Balanced(u, m) <=> Balanced(t, m))
         /\ \A s \in Sides : ChildHeight(u, u[s][m]) = ChildHeight(t, t[s][m])
         /\ Fresh(t, m) => Fresh(u, m)
<1>1. \A s \in Sides : ChildHeight(u, u[s][m]) = ChildHeight(t, t[s][m])
  BY DEF SameAround, ChildHeight
<1>2. /\ u.left[m] = t.left[m] /\ u.right[m] = t.right[m]
      /\ ChildHeight(u, u.left[m]) = ChildHeight(t, t.left[m])
      /\ ChildHeight(u, u.right[m]) = ChildHeight(t, t.right[m])
  BY <1>1 DEF SameAround, Sides
<1>3. Taller(u, m) = Taller(t, m)
  BY <1>2 DEF Taller
<1>4. HeightDifference(u, m) = HeightDifference(t, m)
  BY <1>2 DEF HeightDifference
<1>5. \A s \in Sides : Farthest(u, s, m) = Farthest(t, s, m)
  BY DEF SameAround, Farthest
<1>6. Fresh(t, m) => Fresh(u, m)
  BY <1>3, <1>5 DEF Fresh, SameAround
<1>7. Balanced(u, m) <=> Balanced(t, m)
  BY <1>4 DEF Balanced
<1> QED
  BY <1>1, <1>3, <1>6, <1>7

\* The tree with a new leaf k below e.
Grown(t, k, e) == [Leaf(t, k, e) EXCEPT !.size = @ + 1]

\* The keys below the nodes after that.
Above(D, k, e) == [m \in Node |-> IF m = k THEN {k} ELSE IF e \in D[m] THEN D[m] \cup {k} ELSE D[m]]

\* g is t with a new leaf k on side s of e, field by field.
WithLeaf(g, t, k, e, s) ==
  /\ g \in Tree /\ g.root = t.root /\ g.size = t.size + 1 /\ g.height = t.height
  /\ \A m \in Keys : g.parent[m] = IF m = k THEN e ELSE t.parent[m]
  /\ \A r \in Sides, m \in Keys : g[r][m] = IF r = s /\ m = e THEN k ELSE t[r][m]
  /\ \A r \in Sides, m \in Keys : g[EndOf(r)][m] = IF m = k THEN k ELSE t[EndOf(r)][m]

\* That is what Leaf makes.
LEMMA LeafFields ==
  ASSUME NEW t \in Tree, NEW k \in Keys, NEW e \in Keys, NEW g, g = Grown(t, k, e),
         NEW s, s = Towards(k, e)
  PROVE  WithLeaf(g, t, k, e, s)
<1> DEFINE new == [t EXCEPT !.parent[k] = e, !.leftmost[k] = k, !.rightmost[k] = k]
<1>1. k \in Node /\ e \in Node /\ e # NoNode /\ s \in Sides
  BY KeysAreNodes DEF Towards, Sides
<1>2. /\ new \in Tree /\ new.root = t.root /\ new.size = t.size /\ new.height = t.height
      /\ new.left = t.left /\ new.right = t.right
      /\ \A m \in Keys : /\ new.parent[m] = IF m = k THEN e ELSE t.parent[m]
                         /\ new.leftmost[m] = IF m = k THEN k ELSE t.leftmost[m]
                         /\ new.rightmost[m] = IF m = k THEN k ELSE t.rightmost[m]
  BY <1>1 DEF Tree, Links
<1>3. g = [[new EXCEPT ![s][e] = k] EXCEPT !.size = @ + 1]
  BY <1>1 DEF Grown, Leaf, Towards
<1> HIDE DEF new
<1>4. CASE s = "left"
  <2>1. g = [[new EXCEPT !.left[e] = k] EXCEPT !.size = @ + 1]
    BY <1>3, <1>4
  <2> DEFINE more == [new EXCEPT !.left[e] = k]
  <2>3. /\ more \in Tree /\ more.root = t.root /\ more.size = t.size /\ more.height = t.height
        /\ more.parent = new.parent /\ more.leftmost = new.leftmost
        /\ more.rightmost = new.rightmost /\ more.right = t.right
        /\ more.left = [t.left EXCEPT ![e] = k]
    BY <1>1, <1>2 DEF Tree, Links
  <2>4. \A m \in Keys : more.left[m] = IF m = e THEN k ELSE t.left[m]
    BY <2>3 DEF Tree, Links
  <2>5. g = [more EXCEPT !.size = @ + 1]
    BY <2>1
  <2> HIDE DEF more
  <2>2. /\ g \in Tree /\ g.root = t.root /\ g.size = t.size + 1 /\ g.height = t.height
        /\ g.parent = new.parent /\ g.leftmost = new.leftmost /\ g.rightmost = new.rightmost
        /\ g.right = t.right
        /\ \A m \in Keys : g.left[m] = IF m = e THEN k ELSE t.left[m]
    <3>1. g \in Tree
      BY <2>3, <2>5 DEF Tree
    <3>2. /\ g.root = more.root /\ g.size = more.size + 1 /\ g.height = more.height
          /\ g.parent = more.parent /\ g.leftmost = more.leftmost
          /\ g.rightmost = more.rightmost /\ g.left = more.left /\ g.right = more.right
      BY <2>3, <2>5 DEF Tree
    <3> QED
      BY <2>3, <2>4, <3>1, <3>2
  <2> QED
    BY <1>2, <1>4, <2>2 DEF WithLeaf, Sides, EndOf
<1>5. CASE s = "right"
  <2>1. g = [[new EXCEPT !.right[e] = k] EXCEPT !.size = @ + 1]
    BY <1>3, <1>5
  <2> DEFINE more == [new EXCEPT !.right[e] = k]
  <2>3. /\ more \in Tree /\ more.root = t.root /\ more.size = t.size /\ more.height = t.height
        /\ more.parent = new.parent /\ more.leftmost = new.leftmost
        /\ more.rightmost = new.rightmost /\ more.left = t.left
        /\ more.right = [t.right EXCEPT ![e] = k]
    BY <1>1, <1>2 DEF Tree, Links
  <2>4. \A m \in Keys : more.right[m] = IF m = e THEN k ELSE t.right[m]
    BY <2>3 DEF Tree, Links
  <2>5. g = [more EXCEPT !.size = @ + 1]
    BY <2>1
  <2> HIDE DEF more
  <2>2. /\ g \in Tree /\ g.root = t.root /\ g.size = t.size + 1 /\ g.height = t.height
        /\ g.parent = new.parent /\ g.leftmost = new.leftmost /\ g.rightmost = new.rightmost
        /\ g.left = t.left
        /\ \A m \in Keys : g.right[m] = IF m = e THEN k ELSE t.right[m]
    <3>1. g \in Tree
      BY <2>3, <2>5 DEF Tree
    <3>2. /\ g.root = more.root /\ g.size = more.size + 1 /\ g.height = more.height
          /\ g.parent = more.parent /\ g.leftmost = more.leftmost
          /\ g.rightmost = more.rightmost /\ g.left = more.left /\ g.right = more.right
      BY <2>3, <2>5 DEF Tree
    <3> QED
      BY <2>3, <2>4, <3>1, <3>2
  <2> QED
    BY <1>2, <1>5, <2>2 DEF WithLeaf, Sides, EndOf
<1> QED
  BY <1>1, <1>4, <1>5 DEF Sides

\* A leaf where the search ends keeps the shape; its parent alone becomes stale.
LEMMA LeafKeepsShape ==
  ASSUME NEW t, NEW D, Shape(t, D), NEW k \in Keys, k \notin Allocated(t),
         NEW e \in Allocated(t), Fits(t, D, k, e), t[Towards(k, e)][e] = NoNode,
         NEW g, g = Grown(t, k, e), NEW E, E = Above(D, k, e)
  PROVE  /\ Shape(g, E) /\ Allocated(g) = Allocated(t) \cup {k}
         /\ g.root = t.root /\ g.size = t.size + 1 /\ g.height = t.height
         /\ g[Towards(k, e)][e] = k /\ g[Other(Towards(k, e))][e] = t[Other(Towards(k, e))][e]
         /\ Fresh(g, k) /\ g.height[k] = 0 /\ \A s \in Sides : g[s][k] = NoNode
         /\ \A m \in Allocated(t) : m # e => SameAround(g, t, m)
<1>0. e \in Keys /\ t \in Tree
  BY DEF Allocated, Shape
<1>15. WithLeaf(g, t, k, e, Towards(k, e))
  BY <1>0, LeafFields
<1> DEFINE A == Allocated(t)
           s == Towards(k, e)
           o == Other(s)
<1>1. /\ e \in A /\ e \in Keys /\ e # k /\ Fits(t, D, k, e) /\ t[s][e] = NoNode
      /\ e \in Node /\ e # NoNode /\ t \in Tree
  BY KeysAreNodes DEF Allocated, Shape
<1>2. s \in Sides /\ o \in Sides /\ Before(s, k, e) /\ s # o
  <2>1. s \in Sides
    BY DEF Towards, Sides
  <2> QED
    BY <1>1, <2>1, KeysAssumption DEF Towards, Sides, Other, Before
<1>3. /\ g \in Tree /\ g.root = t.root /\ g.size = t.size + 1 /\ g.height = t.height
      /\ \A m \in Keys : g.parent[m] = IF m = k THEN e ELSE t.parent[m]
      /\ \A r \in Sides, m \in Keys : g[r][m] = IF r = s /\ m = e THEN k ELSE t[r][m]
      /\ \A r \in Sides, m \in Keys : g[EndOf(r)][m] = IF m = k THEN k ELSE t[EndOf(r)][m]
  BY <1>15 DEF WithLeaf
<1>4. /\ NoFields(t, k) /\ D[k] = {} /\ D \in [Node -> SUBSET Keys] /\ D[NoNode] = {}
      /\ k \in Node /\ k # NoNode /\ k \notin A /\ NoNode \in Node
  BY KeysAreNodes DEF Shape
<1> HIDE DEF o, s
<1>5. Allocated(g) = A \cup {k}
  <2>1. \A m \in Keys : g.leftmost[m] = IF m = k THEN k ELSE t.leftmost[m]
    BY <1>3 DEF Sides, EndOf
  <2> QED
    BY <1>4, <2>1 DEF Allocated
<1>6. /\ E[k] = {k} /\ E[NoNode] = {}
      /\ \A m \in A : E[m] = IF e \in D[m] THEN D[m] \cup {k} ELSE D[m]
      /\ E \in [Node -> SUBSET Keys]
  <2>1. \A m \in A : m \in Node /\ m # k
    BY <1>4, KeysAreNodes DEF Allocated
  <2> QED
    BY <1>4, <2>1 DEF Above
<1>7. ASSUME NEW m \in A, NEW r \in Sides
      PROVE  /\ t[r][m] \in A \cup {NoNode} /\ t[r][m] # k /\ m \in Keys /\ m # k
             /\ \A x \in D[t[r][m]] : Before(r, x, m)
             /\ t[r][m] # NoNode => t.parent[t[r][m]] = m /\ t[r][m] \in Keys
             /\ E[t[r][m]] = IF e \in D[t[r][m]] THEN D[t[r][m]] \cup {k} ELSE D[t[r][m]]
  <2>1. /\ t[r][m] \in A \cup {NoNode} /\ m \in Keys /\ m # k
        /\ \A x \in D[t[r][m]] : Before(r, x, m)
        /\ t[r][m] # NoNode => t.parent[t[r][m]] = m
    BY <1>4, ChildShape, NodeShape
  <2> QED
    BY <1>4, <1>6, <2>1, KeysAreNodes DEF Allocated
<1>8. ASSUME NEW m \in Keys \ Allocated(g) PROVE NoFields(g, m) /\ E[m] = {}
  <2>1. m \notin A /\ m # k /\ m # e /\ m \in Keys
    BY <1>1, <1>5
  <2>2. NoFields(t, m) /\ D[m] = {} /\ m \in Node
    BY <2>1, KeysAreNodes DEF Shape
  <2>3. g.left[m] = t.left[m] /\ g.right[m] = t.right[m] /\ g.leftmost[m] = t.leftmost[m] /\ g.rightmost[m] = t.rightmost[m]
    BY <1>3, <2>1 DEF Sides, EndOf
  <2> QED
    BY <1>3, <2>1, <2>2, <2>3 DEF NoFields, Above
<1>9. ASSUME NEW m \in A, m # e, NEW r \in Sides PROVE ChildOK(g, E, m, r, t[r][m])
  <2> DEFINE c == t[r][m]
  <2>0. /\ c \in A \cup {NoNode} /\ c # k /\ m \in Keys /\ m # k
        /\ \A x \in D[c] : Before(r, x, m)
        /\ c # NoNode => t.parent[c] = m /\ c \in Keys
        /\ E[c] = IF e \in D[c] THEN D[c] \cup {k} ELSE D[c]
    BY <1>7, <1>9
  <2>1. g[r][m] = c
    BY <1>3, <1>9, <2>0
  <2>3. e \in D[c] => Before(r, k, m)
    BY <1>1, <1>9 DEF Fits
  <2> HIDE DEF c
  <2>2. c # NoNode => g.parent[c] = m
    BY <1>3, <2>0
  <2>4. \A x \in E[c] : Before(r, x, m)
    BY <2>0, <2>3
  <2> QED
    BY <1>5, <2>0, <2>1, <2>2, <2>4 DEF ChildOK, c
<1>10. ASSUME NEW m \in A PROVE ParentOK(g, m)
  <2>1. m # k /\ m \in Keys /\ m # NoNode
    BY <1>4, KeysAreNodes DEF Allocated
  <2>2. g.parent[m] = t.parent[m] /\ t.parent[m] \in A \cup {NoNode}
    BY <1>3, <2>1, NodeShape
  <2>3. ASSUME t.parent[m] # NoNode PROVE \E q \in Sides : g[q][t.parent[m]] = m
    <3>1. PICK q \in Sides : t[q][t.parent[m]] = m
      BY <2>3, NodeShape
    <3>2. t.parent[m] \in Keys /\ ~(q = s /\ t.parent[m] = e)
      BY <1>1, <2>1, <2>2, <2>3, <3>1 DEF Allocated, s
    <3> QED
      BY <1>3, <3>1, <3>2
  <2> QED
    BY <1>5, <2>2, <2>3 DEF ParentOK
<1>11. ASSUME NEW m \in Allocated(g) PROVE Linked(g, E, m)
  <2>1. CASE m = k
    <3>1. g[s][k] = NoNode /\ g[o][k] = NoNode
      BY <1>1, <1>2, <1>3, <1>4 DEF NoFields, Sides, NoNode
    <3>2. ChildOK(g, E, k, s, NoNode) /\ ChildOK(g, E, k, o, NoNode)
      BY <1>6, <3>1 DEF ChildOK
    <3>3. ParentOK(g, k)
      BY <1>1, <1>2, <1>3, <1>5 DEF ParentOK
    <3>4. E[k] = {k} \cup E[NoNode] \cup E[NoNode]
      BY <1>6
    <3> QED
      BY <1>2, <2>1, <3>2, <3>3, <3>4, LinkedBySides DEF o
  <2>2. CASE m = e
    <3> DEFINE c == t[o][e]
    <3>1. ChildOK(g, E, e, s, k)
      BY <1>1, <1>2, <1>3, <1>5, <1>6 DEF ChildOK
    <3>2. /\ D[e] = {e} \cup D[t[s][e]] \cup D[t[o][e]] /\ e \notin D[c] /\ e \in D[e]
      BY <1>1, <1>2, ChildShape, NodeShape DEF o
    <3>3. E[c] = D[c]
      BY <1>1, <1>2, <1>7, <3>2
    <3>7. /\ c \in A \cup {NoNode} /\ c # k /\ \A x \in D[c] : Before(o, x, e)
          /\ c # NoNode => t.parent[c] = e /\ c \in Keys
      BY <1>1, <1>2, <1>7
    <3>8. g[o][e] = c
      BY <1>1, <1>2, <1>3
    <3>4. ChildOK(g, E, e, o, c)
      <4> HIDE DEF c
      <4>1. c # NoNode => g.parent[c] = e
        BY <1>3, <3>7
      <4> QED
        BY <1>5, <3>3, <3>7, <3>8, <4>1 DEF ChildOK
    <3>5. E[e] = {e} \cup E[k] \cup E[c]
      BY <1>1, <1>4, <1>6, <3>2, <3>3
    <3>6. ParentOK(g, e)
      BY <1>1, <1>10
    <3> HIDE DEF c
    <3> QED
      BY <1>2, <2>2, <3>1, <3>4, <3>5, <3>6, LinkedBySides DEF o
  <2>3. CASE m \in A /\ m # e
    <3> DEFINE a == t[s][m]
               b == t[o][m]
    <3>1. ChildOK(g, E, m, s, a) /\ ChildOK(g, E, m, o, b) /\ ParentOK(g, m)
      BY <1>2, <1>9, <1>10, <2>3
    <3>2. D[m] = {m} \cup D[a] \cup D[b]
      BY <1>2, <2>3, ChildShape DEF o
    <3>3. /\ E[a] = IF e \in D[a] THEN D[a] \cup {k} ELSE D[a]
          /\ E[b] = IF e \in D[b] THEN D[b] \cup {k} ELSE D[b]
          /\ E[m] = IF e \in D[m] THEN D[m] \cup {k} ELSE D[m]
      BY <1>2, <1>6, <1>7, <2>3
    <3> HIDE DEF a, b
    <3>4. E[m] = {m} \cup E[a] \cup E[b]
      BY <2>3, <3>2, <3>3
    <3> QED
      BY <1>2, <3>1, <3>4, LinkedBySides DEF o
  <2> QED
    BY <1>5, <2>1, <2>2, <2>3
<1>12. \E top \in Allocated(g) : g.parent[top] = NoNode /\ E[top] = Allocated(g)
  <2>1. PICK top \in A : t.parent[top] = NoNode /\ D[top] = A
    BY DEF Shape
  <2>2. top # k /\ top \in Keys
    BY <1>4 DEF Allocated
  <2> QED
    BY <1>1, <1>3, <1>5, <1>6, <2>1, <2>2
<1>13. Fresh(g, k) /\ g.height[k] = 0 /\ \A r \in Sides : g[r][k] = NoNode
  <2>1. \A r \in Sides : g[r][k] = NoNode /\ g[EndOf(r)][k] = k
    BY <1>1, <1>3, <1>4 DEF NoFields, Sides, NoNode
  <2>2. g.height[k] = 0
    BY <1>3, <1>4 DEF NoFields
  <2>3. Taller(g, k) = 0
    BY <2>1 DEF Taller, ChildHeight, Sides
  <2> QED
    BY <2>1, <2>2, <2>3 DEF Fresh, Farthest
<1>14. ASSUME NEW m \in A, m # e PROVE SameAround(g, t, m)
  <2>1. m \in Keys /\ m # k
    BY <1>4 DEF Allocated
  <2>2. \A r \in Sides : t[r][m] # NoNode => t[r][m] \in Keys /\ t[r][m] # k
    BY <1>7
  <2> QED
    BY <1>3, <1>14, <2>1, <2>2 DEF SameAround
<1>17. g[s][e] = k /\ g[o][e] = t[o][e]
  BY <1>1, <1>2, <1>3
<1>16. Shape(g, E)
  BY <1>3, <1>6, <1>8, <1>11, <1>12 DEF Shape
<1> HIDE DEF A
<1> QED
  BY <1>1, <1>2, <1>3, <1>5, <1>13, <1>14, <1>16, <1>17 DEF A, s, o

---------------------------------------------------------------------------
(* Heights and balance *)

\* The height of m is what it would be, and m would be balanced, if its child on side s
\* contributed d.
OKWith(t, m, s, d) ==
  LET b == ChildHeight(t, t[Other(s)][m])
  IN  t.height[m] = (IF d > b THEN d ELSE b) /\ d <= b + 1 /\ b <= d + 1

HeightOK(t, m) == t.height[m] = Taller(t, m) /\ Balanced(t, m)

\* The height of m and what its children contribute are the same in u as in t.
SameHeights(u, t, m) ==
  /\ u.height[m] = t.height[m]
  /\ \A s \in Sides : ChildHeight(u, u[s][m]) = ChildHeight(t, t[s][m])

\* Both sides of a node contribute to its height and balance in the same way.
LEMMA HeightsBySides ==
  ASSUME NEW t \in Tree, NEW m \in Keys, NEW s \in Sides,
         NEW a, a = ChildHeight(t, t[s][m]), NEW b, b = ChildHeight(t, t[Other(s)][m])
  PROVE  /\ a \in Nat /\ b \in Nat
         /\ Taller(t, m) = IF a > b THEN a ELSE b
         /\ Balanced(t, m) <=> a <= b + 1 /\ b <= a + 1
         /\ HeightOK(t, m) <=> OKWith(t, m, s, a)
<1>1. a \in Nat /\ b \in Nat
  <2>1. t[s][m] \in Node /\ t[Other(s)][m] \in Node
    BY FieldTypes DEF Sides, Other
  <2> QED
    BY <2>1, ChildHeights
<1>2. CASE s = "left"
  <2>1. a = ChildHeight(t, t.left[m]) /\ b = ChildHeight(t, t.right[m])
    BY <1>2 DEF Other
  <2>2. Taller(t, m) = IF a > b THEN a ELSE b
    BY <1>1, <2>1 DEF Taller
  <2>3. Balanced(t, m) <=> a <= b + 1 /\ b <= a + 1
    BY <1>1, <2>1 DEF Balanced, HeightDifference
  <2>4. HeightOK(t, m) <=> OKWith(t, m, s, a)
    BY <2>2, <2>3 DEF HeightOK, OKWith
  <2> QED
    BY <1>1, <2>2, <2>3, <2>4
<1>3. CASE s = "right"
  <2>1. a = ChildHeight(t, t.right[m]) /\ b = ChildHeight(t, t.left[m])
    BY <1>3 DEF Other
  <2>2. Taller(t, m) = IF a > b THEN a ELSE b
    BY <1>1, <2>1 DEF Taller
  <2>3. Balanced(t, m) <=> a <= b + 1 /\ b <= a + 1
    BY <1>1, <2>1 DEF Balanced, HeightDifference
  <2>4. HeightOK(t, m) <=> OKWith(t, m, s, a)
    BY <2>2, <2>3 DEF HeightOK, OKWith
  <2> QED
    BY <1>1, <2>2, <2>3, <2>4
<1> QED
  BY <1>2, <1>3 DEF Sides

\* A node's height stays right when it sees the same heights.
LEMMA SameHeightsKeep ==
  ASSUME NEW t, NEW u, NEW m, SameHeights(u, t, m)
  PROVE  /\ HeightOK(t, m) <=> HeightOK(u, m)
         /\ Taller(t, m) = Taller(u, m)
<1>1. /\ ChildHeight(u, u.left[m]) = ChildHeight(t, t.left[m])
      /\ ChildHeight(u, u.right[m]) = ChildHeight(t, t.right[m])
      /\ u.height[m] = t.height[m]
  BY DEF SameHeights, Sides
<1> QED
  BY <1>1 DEF HeightOK, Taller, Balanced, HeightDifference

\* Refresh gives n its height; no other node but the parent of n sees it.
LEMMA RefreshHeights ==
  ASSUME NEW t, NEW D, Shape(t, D), NEW n \in Allocated(t), NEW new, new = Refresh(t, n)
  PROVE  /\ new.height[n] = Taller(t, n) /\ Taller(new, n) = Taller(t, n)
         /\ HeightOK(new, n) <=> Balanced(t, n)
         /\ \A s \in Sides : /\ new[s] = t[s]
                             /\ ChildHeight(new, new[s][n]) = ChildHeight(t, t[s][n])
         /\ \A m \in Keys : m # n => new.height[m] = t.height[m]
         /\ \A m \in Allocated(t) : m \notin {n, t.parent[n]} => SameHeights(new, t, m)
         /\ \A s \in Sides : \A d : t.parent[n] # NoNode /\ t[s][t.parent[n]] = n
                                    => (OKWith(new, t.parent[n], s, d) <=> OKWith(t, t.parent[n], s, d))
<1>1. t \in Tree /\ n \in Keys
  BY NodeShape DEF Shape
<1>2. /\ new.parent = t.parent /\ new.left = t.left /\ new.right = t.right
      /\ new.height[n] = Taller(t, n)
      /\ \A m \in Keys : m # n => new.height[m] = t.height[m]
  BY <1>1, RefreshFields
<1>3. \A s \in Sides : new[s] = t[s]
  BY <1>2 DEF Sides
<1>4. \A m \in Node : m # n => ChildHeight(new, m) = ChildHeight(t, m)
  BY <1>2, KeysAreNodes DEF ChildHeight
<1>5. ASSUME NEW m \in Allocated(t), NEW s \in Sides
      PROVE  /\ t[s][m] \in Node /\ (t[s][m] = n => m = t.parent[n]) /\ t[s][m] # m
             /\ t[s][m] # NoNode => t[s][m] # t[Other(s)][m]
  <2>1. n # NoNode /\ m # NoNode
    BY NodeShape
  <2> QED
    BY <2>1, ChildShape
<1>6. \A s \in Sides : ChildHeight(new, new[s][n]) = ChildHeight(t, t[s][n])
  BY <1>3, <1>4, <1>5
<1>7. /\ ChildHeight(new, new.left[n]) = ChildHeight(t, t.left[n])
      /\ ChildHeight(new, new.right[n]) = ChildHeight(t, t.right[n])
  BY <1>6 DEF Sides
<1>8. Taller(new, n) = Taller(t, n) /\ (Balanced(new, n) <=> Balanced(t, n))
  BY <1>7 DEF Taller, Balanced, HeightDifference
<1>9. ASSUME NEW m \in Allocated(t), m \notin {n, t.parent[n]} PROVE SameHeights(new, t, m)
  <2>1. m \in Keys /\ \A s \in Sides : t[s][m] \in Node /\ t[s][m] # n
    BY <1>5, <1>9, NodeShape
  <2> QED
    BY <1>2, <1>3, <1>4, <1>9, <2>1 DEF SameHeights
<1>10. ASSUME NEW s \in Sides, t.parent[n] # NoNode, t[s][t.parent[n]] = n
       PROVE  \A d : OKWith(new, t.parent[n], s, d) <=> OKWith(t, t.parent[n], s, d)
  <2> DEFINE p == t.parent[n]
             b == t[Other(s)][p]
  <2>1. p \in Allocated(t) /\ Other(s) \in Sides /\ n # NoNode
    BY <1>10, NodeShape DEF Sides, Other
  <2>2. b \in Node /\ b # n /\ p # n /\ p \in Keys
    BY <1>5, <1>10, <2>1, NodeShape
  <2>3. ChildHeight(new, new[Other(s)][p]) = ChildHeight(t, t[Other(s)][p]) /\ new.height[p] = t.height[p]
    BY <1>2, <1>3, <1>4, <2>1, <2>2
  <2> QED
    BY <2>3 DEF OKWith
<1> QED
  BY <1>2, <1>3, <1>6, <1>8, <1>9, <1>10 DEF HeightOK

AllHeightsOK(t) == \A m \in Allocated(t) : HeightOK(t, m)

\* Refresh keeps heights that are right.
LEMMA RefreshKeepsHeights ==
  ASSUME NEW t, NEW D, Shape(t, D), NEW n \in Allocated(t), AllHeightsOK(t)
  PROVE  AllHeightsOK(Refresh(t, n))
<1> DEFINE new == Refresh(t, n)
<1>1. /\ new.height[n] = Taller(t, n)
      /\ HeightOK(new, n) <=> Balanced(t, n)
      /\ \A s \in Sides : new[s] = t[s]
      /\ \A m \in Keys : m # n => new.height[m] = t.height[m]
  BY RefreshHeights
<1>2. Allocated(new) = Allocated(t)
  BY RefreshKeepsShape
<1> HIDE DEF new
<1>3. t.height[n] = Taller(t, n) /\ Balanced(t, n)
  BY DEF AllHeightsOK, HeightOK
<1>4. \A m \in Keys : new.height[m] = t.height[m]
  BY <1>1, <1>3
<1>5. ASSUME NEW m \in Allocated(t) PROVE HeightOK(new, m)
  <2>1. m \in Keys /\ \A s \in Sides : t[s][m] \in Node
    BY ChildShape, NodeShape
  <2>2. SameHeights(new, t, m)
    BY <1>1, <1>4, <2>1, KeysAreNodes DEF SameHeights, ChildHeight
  <2> QED
    BY <2>2, SameHeightsKeep DEF AllHeightsOK
<1> QED
  BY <1>2, <1>5 DEF AllHeightsOK, new

\* What the nodes see of each other's heights when n is turned down.
LEMMA RotateHeights ==
  ASSUME NEW t, NEW D, NEW n, NEW heavy, NEW light, NEW up, NEW mid, NEW p, NEW E, NEW new,
         Rotation(t, D, n, heavy, light, up, mid, p, E, new)
  PROVE  /\ \A x \in Node : x # n => ChildHeight(new, x) = ChildHeight(t, x)
         /\ new[heavy][n] = mid /\ new[light][n] = t[light][n]
         /\ new[heavy][up] = t[heavy][up] /\ new[light][up] = n
         /\ mid # n /\ t[light][n] # n /\ t[heavy][up] # n /\ up # n /\ up \in Allocated(t)
         /\ new.height[n] = Taller(new, n) /\ new.parent[up] = p
         /\ \A m \in Allocated(t) : m \notin {n, up, p} =>
              SameHeights(new, t, m) /\ \A s \in Sides : new[s][m] = t[s][m]
         /\ p # NoNode => new.parent[p] = t.parent[p]
         /\ \A q \in Sides : \A d : p # NoNode /\ t[q][p] = n
               => /\ new[q][p] = up /\ (OKWith(new, p, q, d) <=> OKWith(t, p, q, d))
                  /\ new[Other(q)][p] = t[Other(q)][p]
                  /\ t[Other(q)][p] # n /\ t[Other(q)][p] \in Node
<1> USE DEF Rotation
<1> DEFINE A == Allocated(t)
<1>1. /\ light \in Sides /\ light # heavy /\ \A s \in Sides : s = light \/ s = heavy
      /\ Other(light) = heavy
  BY DEF Sides, Other
<1>2. /\ up \in A /\ up \in Keys /\ up # n /\ n \in A /\ n \in Keys /\ n # NoNode /\ t.parent[up] = n
      /\ p \in A \cup {NoNode} /\ n \in D[n] /\ up \in D[n]
  BY ChildShape, NodeShape
<1>3. ASSUME NEW m \in A, NEW s \in Sides
      PROVE  /\ t[s][m] \in Node /\ t[s][m] # m /\ (t[s][m] # NoNode => t.parent[t[s][m]] = m)
             /\ (t[s][m] = n => m = p) /\ m \in Keys
             /\ t[s][m] # NoNode => t[s][m] # t[Other(s)][m]
  <2>1. m # NoNode /\ m \in Keys
    BY NodeShape
  <2> QED
    BY <1>2, <2>1, ChildShape
<1>4. p # up /\ p # n
  <2>1. CASE p = NoNode
    BY <1>2, <2>1, KeysAreNodes
  <2>2. CASE p # NoNode
    <3>1. p \in A
      BY <1>2, <2>2
    <3>2. PICK r \in Sides : t[r][p] = n
      BY <2>2, NodeShape
    <3>3. p \notin D[n]
      BY <3>1, <3>2, ChildShape
    <3> QED
      BY <1>2, <3>3
  <2> QED
    BY <2>1, <2>2
<1>5. /\ \A m \in Keys : m # n => new.height[m] = t.height[m]
      /\ Fresh(new, n)
  BY RotateFields
<1>6. \A m \in Keys : new.parent[m] = IF m = up THEN p ELSE IF m = n THEN up
                                      ELSE IF m = mid THEN n ELSE t.parent[m]
  BY RotateFields
<1>7. \A m \in Keys : new[heavy][m] = IF m = n THEN mid
                                      ELSE IF m = p /\ t[heavy][m] = n THEN up ELSE t[heavy][m]
  BY RotateFields
<1>8. \A m \in Keys : new[light][m] = IF m = up THEN n
                                      ELSE IF m = p /\ t[light][m] = n THEN up ELSE t[light][m]
  BY RotateFields
<1>9. \A x \in Node : x # n => ChildHeight(new, x) = ChildHeight(t, x)
  BY <1>5, KeysAreNodes DEF ChildHeight
<1>10. /\ new[heavy][n] = mid /\ new[light][n] = t[light][n]
       /\ new[heavy][up] = t[heavy][up] /\ new[light][up] = n /\ new.parent[up] = p
  BY <1>2, <1>4, <1>6, <1>7, <1>8
<1>11. mid # n /\ t[light][n] # n /\ t[heavy][up] # n
  BY <1>1, <1>2, <1>3, <1>4
<1>12. new.height[n] = Taller(new, n)
  BY <1>5 DEF Fresh
<1>13. ASSUME NEW m \in A, m \notin {n, up, p} PROVE SameHeights(new, t, m) /\ \A s \in Sides : new[s][m] = t[s][m]
  <2>1. m \in Keys /\ new[heavy][m] = t[heavy][m] /\ new[light][m] = t[light][m] /\ new.height[m] = t.height[m]
    BY <1>3, <1>5, <1>7, <1>8, <1>13
  <2>2. \A s \in Sides : t[s][m] \in Node /\ t[s][m] # n /\ new[s][m] = t[s][m]
    BY <1>1, <1>3, <1>13, <2>1
  <2> QED
    BY <1>9, <2>1, <2>2 DEF SameHeights
<1>14. ASSUME NEW q \in Sides, p # NoNode, t[q][p] = n
       PROVE  /\ new[q][p] = up /\ \A d : OKWith(new, p, q, d) <=> OKWith(t, p, q, d)
              /\ new[Other(q)][p] = t[Other(q)][p]
              /\ t[Other(q)][p] # n /\ t[Other(q)][p] \in Node
  <2>1. p \in A /\ p \in Keys /\ Other(q) \in Sides /\ Other(q) # q
    BY <1>2, <1>3, <1>14 DEF Sides, Other
  <2>2. t[Other(q)][p] # n /\ t[Other(q)][p] \in Node
    BY <1>2, <1>3, <1>14, <2>1
  <2>3. new[q][p] = up /\ new[Other(q)][p] = t[Other(q)][p]
    <3>1. CASE q = heavy
      <4>1. Other(q) = light
        BY <3>1
      <4> QED
        BY <1>4, <1>7, <1>8, <1>14, <2>1, <2>2, <3>1, <4>1
    <3>2. CASE q = light
      <4>1. Other(q) = heavy
        BY <1>1, <3>2
      <4> QED
        BY <1>4, <1>7, <1>8, <1>14, <2>1, <2>2, <3>2, <4>1
    <3> QED
      BY <1>1, <3>1, <3>2
  <2>4. ChildHeight(new, new[Other(q)][p]) = ChildHeight(t, t[Other(q)][p]) /\ new.height[p] = t.height[p]
    BY <1>4, <1>5, <1>9, <2>1, <2>2, <2>3
  <2> QED
    BY <2>2, <2>3, <2>4 DEF OKWith
<1>15. p # NoNode => new.parent[p] = t.parent[p]
  <2> SUFFICES ASSUME p # NoNode PROVE new.parent[p] = t.parent[p]
    OBVIOUS
  <2>1. p \in A /\ p \in Keys
    BY <1>2, NodeShape
  <2>2. PICK r \in Sides : t[r][p] = n
    BY NodeShape
  <2>3. p \notin D[n]
    BY <2>1, <2>2, ChildShape
  <2>4. mid = NoNode \/ mid \in D[n]
    <3>1. D[mid] \subseteq D[up] /\ D[up] \subseteq D[n] /\ (mid # NoNode => mid \in D[mid])
      BY <1>1, <1>2, ChildShape
    <3> QED
      BY <3>1
  <2> QED
    BY <1>4, <1>6, <2>1, <2>3, <2>4
<1> HIDE DEF A
<1> QED
  BY <1>2, <1>9, <1>10, <1>11, <1>12, <1>13, <1>14, <1>15 DEF A

\* A node that is two too high on one side has the right height once it has been turned
\* down, and so has every other when its new parent is refreshed.
LEMMA TurnedHeights ==
  ASSUME NEW t, NEW D, NEW n, NEW s, NEW o, NEW c, NEW mid, NEW p, NEW E, NEW new,
         Rotation(t, D, n, s, o, c, mid, p, E, new), Shape(new, E), Allocated(new) = Allocated(t),
         NEW h \in Nat, NEW y \in Nat, y <= h, h <= y + 1,
         ChildHeight(t, mid) = y, ChildHeight(t, t[o][n]) = h, ChildHeight(t, t[s][c]) = h + 1,
         \A m \in Allocated(t) : m \notin {n, c, p} => HeightOK(t, m),
         \A q \in Sides : p # NoNode /\ t[q][p] = n => OKWith(t, p, q, h + 2)
  PROVE  AllHeightsOK(Refresh(new, c))
<1> DEFINE v == Refresh(new, c)
           A == Allocated(t)
<1>1. s \in Sides /\ o = Other(s) /\ o \in Sides /\ Other(o) = s /\ n \in A /\ p = t.parent[n] /\ c = t[s][n]
      /\ Shape(t, D) /\ mid = t[o][c] /\ c # NoNode
  BY DEF Rotation, Sides, Other
<1>2. /\ \A x \in Node : x # n => ChildHeight(new, x) = ChildHeight(t, x)
      /\ new[s][n] = mid /\ new[o][n] = t[o][n]
      /\ new[s][c] = t[s][c] /\ new[o][c] = n
      /\ mid # n /\ t[o][n] # n /\ t[s][c] # n /\ c # n /\ c \in A
      /\ new.height[n] = Taller(new, n) /\ new.parent[c] = p
      /\ \A m \in A : m \notin {n, c, p} => SameHeights(new, t, m)
      /\ \A q \in Sides : \A d : p # NoNode /\ t[q][p] = n
            => new[q][p] = c /\ (OKWith(new, p, q, d) <=> OKWith(t, p, q, d))
  BY RotateHeights
<1>3. /\ n \in Keys /\ c \in Keys /\ n # NoNode /\ t \in Tree /\ new \in Tree
      /\ mid \in Node /\ t[o][n] \in Node /\ t[s][c] \in Node /\ p \in A \cup {NoNode}
  BY <1>1, <1>2, NodeShape, ChildShape DEF Shape
<1>4. n # p
  <2>1. p # NoNode => \E q \in Sides : t[q][p] = n
    BY <1>1, NodeShape
  <2>2. p # NoNode => \A q \in Sides : t[q][p] # p
    BY <1>1, <1>3, ChildShape
  <2> QED
    BY <1>3, <2>1, <2>2
<1>5. HeightOK(new, n) /\ new.height[n] = h
  <2>1. ChildHeight(new, new[s][n]) = y /\ ChildHeight(new, new[o][n]) = h
    BY <1>2, <1>3
  <2>2. /\ Taller(new, n) = IF y > h THEN y ELSE h
        /\ Balanced(new, n) <=> y <= h + 1 /\ h <= y + 1
    BY <1>1, <1>3, <2>1, HeightsBySides
  <2> QED
    BY <1>2, <2>2 DEF HeightOK
<1>6. Balanced(new, c) /\ Taller(new, c) = h + 1
  <2>1. ChildHeight(new, new[s][c]) = h + 1 /\ ChildHeight(new, new[o][c]) = h + 1
    BY <1>2, <1>3, <1>5 DEF ChildHeight
  <2>2. /\ Taller(new, c) = IF h + 1 > h + 1 THEN h + 1 ELSE h + 1
        /\ Balanced(new, c) <=> h + 1 <= (h + 1) + 1 /\ h + 1 <= (h + 1) + 1
    BY <1>1, <1>3, <2>1, HeightsBySides
  <2> QED
    BY <2>2
<1>7. /\ v.height[c] = Taller(new, c) /\ (HeightOK(v, c) <=> Balanced(new, c))
      /\ \A r \in Sides : v[r] = new[r]
      /\ \A m \in A : m \notin {c, p} => SameHeights(v, new, m)
      /\ \A r \in Sides : \A d : p # NoNode /\ new[r][p] = c
                                => (OKWith(v, p, r, d) <=> OKWith(new, p, r, d))
  BY <1>2, RefreshHeights
<1>8. Allocated(v) = A /\ v \in Tree
  <2>1. Shape(v, E) /\ Allocated(v) = Allocated(new)
    BY <1>2, RefreshKeepsShape
  <2> QED
    BY <2>1 DEF Shape
<1> HIDE DEF v, A
<1>9. ASSUME NEW m \in A PROVE HeightOK(v, m)
  <2>1. CASE m = c
    BY <1>6, <1>7, <2>1
  <2>2. CASE m = n
    BY <1>1, <1>2, <1>4, <1>5, <1>7, <2>2, SameHeightsKeep
  <2>3. CASE m = p
    <3>1. p # NoNode /\ p \in Keys
      BY <1>1, <2>3, NodeShape DEF A
    <3>2. PICK q \in Sides : t[q][p] = n
      BY <1>1, <3>1, NodeShape DEF A
    <3>3. OKWith(v, p, q, h + 2) /\ new[q][p] = c
      BY <1>2, <1>7, <3>1, <3>2
    <3>4. ChildHeight(v, v[q][p]) = h + 2
      BY <1>3, <1>6, <1>7, <3>3, KeysAreNodes DEF ChildHeight
    <3> QED
      BY <1>8, <2>3, <3>1, <3>3, <3>4, HeightsBySides
  <2>4. CASE m \notin {c, n, p}
    <3>1. HeightOK(t, m) /\ SameHeights(new, t, m) /\ SameHeights(v, new, m)
      BY <1>2, <1>7, <2>4 DEF A
    <3> QED
      BY <3>1, SameHeightsKeep
  <2> QED
    BY <2>1, <2>2, <2>3, <2>4
<1> QED
  BY <1>8, <1>9 DEF AllHeightsOK, v

\* Rebalance of a node that has become two too high on one side.
LEMMA RebalanceHeights ==
  ASSUME NEW t, NEW D, Shape(t, D), NEW n \in Allocated(t), NEW s \in Sides, NEW h \in Nat,
         NEW p, p = t.parent[n], NEW c, c = t[s][n], NEW o, o = Other(s),
         ChildHeight(t, c) = h + 2, ChildHeight(t, t[o][n]) = h,
         ChildHeight(t, t.left[c]) # ChildHeight(t, t.right[c]),
         \A m \in Allocated(t) : m \notin {n, p} => HeightOK(t, m),
         \A q \in Sides : p # NoNode /\ t[q][p] = n => OKWith(t, p, q, h + 2),
         NEW new, new = Rebalance(t, n)
  PROVE  /\ ~Balanced(t, n) /\ new.parent[n] # NoNode
         /\ AllHeightsOK(Refresh(new, new.parent[n]))
<1> DEFINE A == Allocated(t)
<1>1. /\ o \in Sides /\ Other(o) = s /\ o # s /\ t \in Tree /\ n \in Keys /\ n # NoNode
      /\ c \in Node /\ t[o][n] \in Node /\ p \in A \cup {NoNode}
  BY NodeShape, ChildShape DEF Sides, Other, Shape
<1>2. c # NoNode /\ c \in Keys /\ c \in A /\ c # n /\ t.parent[c] = n /\ t.height[c] = h + 1 /\ c # t[o][n]
  <2>1. c # NoNode /\ t.height[c] + 1 = h + 2 /\ t.height[c] \in Nat
    BY <1>1, ChildHeights
  <2> QED
    BY <1>1, <2>1, ChildShape, KeysAreNodes
<1>3. ~Balanced(t, n)
  <2>1. Balanced(t, n) <=> h + 2 <= h + 1 /\ h <= (h + 2) + 1
    BY <1>1, HeightsBySides
  <2> QED
    BY <2>1
<1>4. p # n /\ p # c
  <2>1. p # NoNode => \E q \in Sides : t[q][p] = n
    BY NodeShape
  <2>2. p # NoNode => /\ \A q \in Sides : t[q][p] # p
                      /\ p \in A /\ p \in Keys
    BY <1>1, ChildShape, NodeShape
  <2>3. p # NoNode => p # c
    <3> SUFFICES ASSUME p # NoNode, p = c PROVE FALSE
      OBVIOUS
    <3>1. PICK q \in Sides : t[q][p] = n
      BY <2>1
    <3>2. D[n] \subseteq D[p] /\ p \notin D[n]
      BY <2>2, <3>1, ChildShape
    <3>3. c \in D[c] /\ D[c] \subseteq D[n]
      BY <1>2, ChildShape
    <3> QED
      BY <3>2, <3>3
  <2> QED
    BY <1>1, <1>2, <2>1, <2>2, <2>3
<1> DEFINE a == ChildHeight(t, t[s][c])
           b == ChildHeight(t, t[o][c])
           g == t[o][c]
<1>5. /\ a \in Nat /\ b \in Nat /\ a # b
      /\ LeansAway(t, c, s) => a = h /\ b = h + 1
      /\ ~LeansAway(t, c, s) => a = h + 1 /\ b = h
  <2>1. HeightOK(t, c) /\ a \in Nat /\ b \in Nat /\ (HeightOK(t, c) <=> OKWith(t, c, s, a))
    BY <1>1, <1>2, <1>4, HeightsBySides
  <2>2. h + 1 = (IF a > b THEN a ELSE b) /\ a <= b + 1 /\ b <= a + 1
    BY <1>2, <2>1 DEF OKWith
  <2>3. a # b
    BY <1>1 DEF Sides
  <2>4. LeansAway(t, c, s) <=> b > a
    BY DEF LeansAway
  <2> HIDE DEF a, b
  <2> QED
    BY <2>1, <2>2, <2>3, <2>4
<1>6. /\ LeansAway(t, c, s) => g # NoNode
      /\ new = Rotate(IF LeansAway(t, c, s) THEN Rotate(t, c, o, s) ELSE t, n, s, o)
  <2>1. PICK r \in Sides : /\ Heavy(t, n, r)
                           /\ LeansAway(t, t[r][n], r) => t[Other(r)][t[r][n]] # NoNode
                           /\ new = Rotate(IF LeansAway(t, t[r][n], r)
                                           THEN Rotate(t, t[r][n], Other(r), r) ELSE t, n, r, Other(r))
    BY <1>1, <1>3, RebalanceTurns
  <2>2. r = s
    <3> SUFFICES ASSUME r # s PROVE FALSE
      OBVIOUS
    <3>1. r = o /\ Other(r) = s
      BY <1>1 DEF Sides, Other
    <3>2. h > (h + 2) + 1
      BY <2>1, <3>1 DEF Heavy
    <3> QED
      BY <3>2
  <2> QED
    BY <2>1, <2>2
<1>7. CASE ~LeansAway(t, c, s)
  <2> DEFINE E == Turned(D, n, c, {n} \cup D[g] \cup D[t[o][n]])
  <2>1. Rotation(t, D, n, s, o, c, g, p, E, new)
    BY <1>2, <1>6, <1>7 DEF Rotation
  <2> HIDE DEF E, g, A
  <2>2. Shape(new, E) /\ Allocated(new) = Allocated(t) /\ new.parent[n] = c
    BY <2>1, RotateKeepsShape, RotateReach
  <2>3. ChildHeight(t, g) = h /\ ChildHeight(t, t[s][c]) = h + 1
    BY <1>5, <1>7 DEF g
  <2>4. AllHeightsOK(Refresh(new, c))
    BY <2>1, <2>2, <2>3, TurnedHeights
  <2> QED
    BY <1>2, <1>3, <2>2, <2>4
<1>8. CASE LeansAway(t, c, s)
  <2> DEFINE t1 == Rotate(t, c, o, s)
             D1 == Turned(D, c, g, {c} \cup D[t[s][g]] \cup D[t[s][c]])
             x  == ChildHeight(t, t[s][g])
             y  == ChildHeight(t, t[o][g])
  <2>1. new = Rotate(t1, n, s, o) /\ g # NoNode
    BY <1>6, <1>8
  <2>2. Rotation(t, D, c, o, s, g, t[s][g], n, D1, t1)
    BY <1>1, <1>2, <2>1 DEF Rotation
  <2> HIDE DEF t1, D1
  <2>3. Shape(t1, D1) /\ Allocated(t1) = A /\ t1 \in Tree
    BY <2>2, RotateKeepsShape DEF Shape
  <2>4. /\ \A z \in Node : z # c => ChildHeight(t1, z) = ChildHeight(t, z)
        /\ t1[o][c] = t[s][g] /\ t1[s][c] = t[s][c]
        /\ t1[o][g] = t[o][g] /\ t1[s][g] = c
        /\ t[s][g] # c /\ t[s][c] # c /\ t[o][g] # c /\ g # c /\ g \in A
        /\ t1.height[c] = Taller(t1, c) /\ t1.parent[g] = n
        /\ \A m \in A : m \notin {c, g, n} =>
             SameHeights(t1, t, m) /\ \A r \in Sides : t1[r][m] = t[r][m]
        /\ t1.parent[n] = p
        /\ t1[s][n] = g /\ t1[o][n] = t[o][n] /\ t[o][n] # c
    BY <1>1, <1>2, <2>2, RotateHeights
  <2>5. /\ g \in Keys /\ t[s][g] \in Node /\ t[o][g] \in Node /\ t[s][c] \in Node
        /\ x \in Nat /\ y \in Nat /\ g # n /\ g # p
    <3>1. g \in D[g] /\ D[g] \subseteq D[c] /\ c \in D[c] /\ D[c] \subseteq D[n] /\ n \notin D[c]
      BY <1>1, <1>2, <2>1, ChildShape
    <3>2. p # NoNode => p \notin D[n]
      <4> SUFFICES ASSUME p # NoNode PROVE p \notin D[n]
        OBVIOUS
      <4>1. PICK q \in Sides : t[q][p] = n
        BY NodeShape
      <4> QED
        BY <1>1, <4>1, ChildShape
    <3>3. g \in Keys /\ t[s][g] \in Node /\ t[o][g] \in Node /\ t[s][c] \in Node
      <4>1. g \in Allocated(t) /\ c \in Allocated(t)
        BY <1>2, <2>4
      <4>2. t[s][c] \in Node
        BY <4>1, ChildShape
      <4> HIDE DEF g
      <4>3. g \in Keys /\ t[s][g] \in Node /\ t[o][g] \in Node
        BY <1>1, <4>1, ChildShape, NodeShape
      <4> QED
        BY <4>2, <4>3
    <3> QED
      BY <1>1, <2>1, <3>1, <3>2, <3>3, ChildHeights
  <2>6. x <= h /\ h <= x + 1 /\ y <= h /\ h <= y + 1
    <3>1. t.height[g] = h
      <4>1. ChildHeight(t, g) = t.height[g] + 1 /\ t.height[g] \in Nat
        <5>1. g \in Node /\ t \in Tree /\ g # NoNode
          BY <1>1, <2>5, KeysAreNodes
        <5> HIDE DEF g
        <5> QED
          BY <5>1, ChildHeights
      <4> QED
        BY <1>5, <1>8, <4>1
    <3>2. OKWith(t, g, s, x)
      <4>1. HeightOK(t, g)
        BY <2>4, <2>5
      <4> QED
        BY <1>1, <2>5, <4>1, HeightsBySides
    <3>3. h = (IF x > y THEN x ELSE y) /\ x <= y + 1 /\ y <= x + 1
      BY <1>1, <3>1, <3>2 DEF OKWith
    <3> HIDE DEF x, y
    <3> QED
      BY <2>5, <3>3
  <2>7. HeightOK(t1, c) /\ ChildHeight(t1, c) = h + 1
    <3>1. ChildHeight(t1, t1[s][c]) = h /\ ChildHeight(t1, t1[o][c]) = x
      BY <1>5, <1>8, <2>4, <2>5
    <3>2. /\ Taller(t1, c) = IF h > x THEN h ELSE x
          /\ Balanced(t1, c) <=> h <= x + 1 /\ x <= h + 1
      BY <1>1, <1>2, <2>3, <3>1, HeightsBySides
    <3>3. Taller(t1, c) = h /\ Balanced(t1, c)
      BY <2>5, <2>6, <3>2
    <3> QED
      BY <1>2, <2>4, <3>3 DEF HeightOK, ChildHeight
  <2> DEFINE D2 == Turned(D1, n, g, {n} \cup D1[t1[o][g]] \cup D1[t1[o][n]])
  <2>8. Rotation(t1, D1, n, s, o, g, t1[o][g], p, D2, new)
    BY <2>1, <2>3, <2>4 DEF Rotation
  <2> HIDE DEF D2, g, A, x
  <2>9. Shape(new, D2) /\ Allocated(new) = Allocated(t1) /\ new.parent[n] = g
    BY <2>8, RotateKeepsShape, RotateReach
  <2>10. ChildHeight(t1, t1[o][g]) = y /\ ChildHeight(t1, t1[o][n]) = h /\ ChildHeight(t1, t1[s][g]) = h + 1
    BY <1>1, <2>4, <2>5, <2>7
  <2> HIDE DEF y
  <2>11. ASSUME NEW m \in Allocated(t1), m \notin {n, g, p} PROVE HeightOK(t1, m)
    <3>1. CASE m = c
      BY <2>7, <3>1
    <3>2. CASE m # c
      <4>1. HeightOK(t, m) /\ SameHeights(t1, t, m)
        BY <2>3, <2>4, <2>11, <3>2 DEF A
      <4> QED
        BY <4>1, SameHeightsKeep
    <3> QED
      BY <3>1, <3>2
  <2>12. ASSUME NEW q \in Sides, p # NoNode, t1[q][p] = n PROVE OKWith(t1, p, q, h + 2)
    <3>1. SameHeights(t1, t, p) /\ t1[q][p] = t[q][p] /\ Other(q) \in Sides
      BY <1>1, <1>4, <2>4, <2>5, <2>12 DEF Sides, Other
    <3>2. OKWith(t, p, q, h + 2)
      BY <2>12, <3>1
    <3> QED
      BY <3>1, <3>2 DEF OKWith, SameHeights
  <2>13. AllHeightsOK(Refresh(new, g))
    BY <2>5, <2>6, <2>8, <2>9, <2>10, <2>11, <2>12, TurnedHeights
  <2> QED
    BY <1>3, <2>1, <2>9, <2>13
<1> QED
  BY <1>7, <1>8

\* The child of n on side s has grown by at most one from d; a child that has grown and is
\* no leaf has children of two heights; every other node is as it should be.
GrewBy(t, n, s, d) ==
  LET c == t[s][n]
  IN  /\ c # NoNode /\ ChildHeight(t, c) \in {d, d + 1} /\ OKWith(t, n, s, d)
      /\ ChildHeight(t, c) = d + 1 /\ t.height[c] # 0 =>
           ChildHeight(t, t.left[c]) # ChildHeight(t, t.right[c])
      /\ \A m \in Allocated(t) : m # n => HeightOK(t, m)

\* What the walk after Add keeps in a balanced tree: until it rebalances, all is as it
\* should be but for one more level below; afterwards one Refresh is left to do.
Avl(w) ==
  IF w.balanced THEN AllHeightsOK(IF w.at = NoNode THEN w.tree ELSE Refresh(w.tree, w.at))
  ELSE IF w.at = NoNode THEN AllHeightsOK(w.tree)
  ELSE \E s \in Sides, d \in Nat : GrewBy(w.tree, w.at, s, d)

\* Every step of the walk keeps this.
LEMMA NextWalkAvl ==
  ASSUME NEW w, NEW D, NEW t, WalkOK(w, D, t), w.at # NoNode, Avl(w)
  PROVE  Avl(NextWalk(w))
<1> DEFINE n     == w.at
           u     == w.tree
           p     == u.parent[n]
           fresh == Refresh(u, n)
           turn  == ~w.balanced /\ ~Balanced(fresh, n)
           next  == IF turn THEN Rebalance(fresh, n) ELSE fresh
           v     == NextWalk(w)
           A     == Allocated(u)
<1>1. /\ v = [tree |-> next, at |-> next.parent[n], balanced |-> w.balanced \/ turn]
      /\ n \in A /\ Shape(u, D)
  BY DEF NextWalk, WalkOK
<1>2. v.tree = next /\ v.at = next.parent[n] /\ v.balanced = (w.balanced \/ turn)
  BY <1>1
<1>3. /\ Shape(fresh, D) /\ Allocated(fresh) = A /\ fresh.parent[n] = p
      /\ p \in A \cup {NoNode} /\ n \in Keys /\ n # NoNode /\ u \in Tree /\ fresh \in Tree
  BY <1>1, RefreshKeepsShape, NodeShape DEF Shape
<1>4. CASE w.balanced
  <2>1. ~turn /\ v.tree = fresh /\ v.at = p /\ v.balanced
    BY <1>2, <1>3, <1>4
  <2>2. AllHeightsOK(fresh)
    BY <1>4 DEF Avl
  <2>3. p # NoNode => AllHeightsOK(Refresh(fresh, p))
    <3> HIDE DEF fresh, p, A
    <3> QED
      BY <1>3, <2>2, RefreshKeepsHeights
  <2> HIDE DEF v, fresh, p
  <2> QED
    BY <2>1, <2>2, <2>3 DEF Avl, v
<1>5. CASE ~w.balanced
  <2>1. PICK s \in Sides, d \in Nat : GrewBy(u, n, s, d)
    BY <1>5 DEF Avl
  <2> DEFINE o == Other(s)
             c == u[s][n]
             e == ChildHeight(u, c)
             b == ChildHeight(u, u[o][n])
  <2>2. /\ c # NoNode /\ e \in {d, d + 1} /\ OKWith(u, n, s, d)
        /\ e = d + 1 /\ u.height[c] # 0 => ChildHeight(u, u.left[c]) # ChildHeight(u, u.right[c])
        /\ \A m \in A : m # n => HeightOK(u, m)
    BY <2>1 DEF GrewBy
  <2>3. /\ e \in Nat /\ b \in Nat /\ Taller(u, n) = (IF e > b THEN e ELSE b)
        /\ Balanced(u, n) <=> e <= b + 1 /\ b <= e + 1
        /\ u.height[n] = (IF d > b THEN d ELSE b) /\ d <= b + 1 /\ b <= d + 1
    BY <1>3, <2>2, HeightsBySides DEF OKWith
  <2>4. /\ fresh.height[n] = Taller(u, n) /\ Taller(fresh, n) = Taller(u, n)
        /\ HeightOK(fresh, n) <=> Balanced(u, n)
        /\ \A r \in Sides : /\ fresh[r] = u[r]
                            /\ ChildHeight(fresh, fresh[r][n]) = ChildHeight(u, u[r][n])
        /\ \A m \in A : m \notin {n, p} => SameHeights(fresh, u, m)
        /\ \A r \in Sides : \A x : p # NoNode /\ u[r][p] = n
                                   => (OKWith(fresh, p, r, x) <=> OKWith(u, p, r, x))
    <3>1. fresh = Refresh(u, n) /\ p = u.parent[n] /\ n \in Allocated(u) /\ A = Allocated(u)
      BY <1>1
    <3> HIDE DEF fresh, p, A, n, u
    <3>2. /\ fresh.height[n] = Taller(u, n) /\ Taller(fresh, n) = Taller(u, n)
          /\ HeightOK(fresh, n) <=> Balanced(u, n)
      BY <1>1, <3>1, RefreshHeights
    <3>3. \A r \in Sides : /\ fresh[r] = u[r]
                           /\ ChildHeight(fresh, fresh[r][n]) = ChildHeight(u, u[r][n])
      BY <1>1, <3>1, RefreshHeights
    <3>4. \A m \in A : m \notin {n, p} => SameHeights(fresh, u, m)
      BY <1>1, <3>1, RefreshHeights
    <3>5. \A r \in Sides : \A x : p # NoNode /\ u[r][p] = n
                                  => (OKWith(fresh, p, r, x) <=> OKWith(u, p, r, x))
      BY <1>1, <3>1, RefreshHeights
    <3> QED
      BY <3>2, <3>3, <3>4, <3>5
  <2>5. Balanced(fresh, n) <=> Balanced(u, n)
    BY <2>4 DEF HeightOK
  <2>6. \A m \in A : m \notin {n, p} => HeightOK(fresh, m)
    BY <2>2, <2>4, SameHeightsKeep
  <2>7. ASSUME NEW q \in Sides, p # NoNode, u[q][p] = n
        PROVE  /\ OKWith(fresh, p, q, u.height[n] + 1) /\ p # n /\ fresh[q][p] = n
    <3>1. p \in Keys /\ p # n /\ p \in A
      BY <1>1, <1>3, <2>7, ChildShape, NodeShape
    <3>2. HeightOK(u, p)
      BY <2>2, <3>1
    <3>3. OKWith(u, p, q, u.height[n] + 1)
      <4>1. ChildHeight(u, u[q][p]) = u.height[n] + 1
        <5> HIDE DEF n, p, u
        <5>1. ChildHeight(u, n) = u.height[n] + 1
          BY <1>3, FieldTypes DEF ChildHeight
        <5> QED
          BY <2>7, <5>1
      <4>2. u \in Tree
        BY <1>3
      <4> HIDE DEF n, p, u
      <4> QED
        BY <3>1, <3>2, <4>1, <4>2, HeightsBySides
    <3> QED
      BY <2>4, <2>7, <3>1, <3>3
  <2>8. p # NoNode => \E q \in Sides : u[q][p] = n
    BY <1>1, NodeShape
  <2> HIDE DEF fresh, A, n, u, p, v, o, c, e, b
  <2>9. CASE Balanced(u, n)
    <3>1. ~turn /\ v.tree = fresh /\ v.at = p /\ ~v.balanced
      BY <1>2, <1>3, <1>5, <2>5, <2>9
    <3>2. HeightOK(fresh, n)
      BY <2>4, <2>9
    <3>3. CASE p = NoNode
      <4>1. AllHeightsOK(fresh)
        BY <1>3, <2>6, <3>2, <3>3, NodeShape DEF AllHeightsOK
      <4> QED
        BY <3>1, <3>3, <4>1 DEF Avl, v
    <3>4. CASE p # NoNode
      <4>1. PICK q \in Sides : u[q][p] = n
        BY <2>8, <3>4
      <4>2. /\ OKWith(fresh, p, q, u.height[n] + 1) /\ p # n /\ fresh[q][p] = n
        BY <2>7, <3>4, <4>1
      <4>3. /\ ChildHeight(fresh, n) = Taller(u, n) + 1
            /\ ChildHeight(fresh, n) \in {u.height[n] + 1, (u.height[n] + 1) + 1}
            /\ u.height[n] + 1 \in Nat
        BY <1>3, <2>2, <2>3, <2>4 DEF ChildHeight
      <4>4. ASSUME ChildHeight(fresh, n) = (u.height[n] + 1) + 1
            PROVE  ChildHeight(fresh, fresh.left[n]) # ChildHeight(fresh, fresh.right[n])
        <5>1. e # b
          BY <2>2, <2>3, <4>3, <4>4
        <5>2. ChildHeight(fresh, fresh[s][n]) # ChildHeight(fresh, fresh[o][n])
          BY <2>4, <5>1 DEF e, b, c, o, Sides, Other
        <5> QED
          BY <5>2 DEF o, Sides, Other
      <4>5. \A m \in Allocated(fresh) : m # p => HeightOK(fresh, m)
        BY <1>3, <2>6, <3>2
      <4>6. GrewBy(fresh, p, q, u.height[n] + 1)
        BY <1>3, <4>2, <4>3, <4>4, <4>5 DEF GrewBy
      <4> QED
        BY <3>1, <3>4, <4>3, <4>6 DEF Avl, v
    <3> QED
      BY <3>3, <3>4
  <2>10. CASE ~Balanced(u, n)
    <3>1. next = Rebalance(fresh, n) /\ v.balanced /\ v.tree = next /\ v.at = next.parent[n]
      BY <1>2, <1>5, <2>5, <2>10
    <3>2. e = b + 2 /\ d = b + 1 /\ u.height[n] + 1 = b + 2
      BY <2>2, <2>3, <2>10
    <3>3. c \in A /\ c # n /\ c # p /\ u.height[c] # 0
      <4>1. c \in A /\ c # n /\ c \in D[c] /\ D[c] \subseteq D[n] /\ ChildHeight(u, c) = u.height[c] + 1
        BY <1>1, <1>3, <2>2, ChildShape, ChildHeights DEF c, A
      <4>2. p # NoNode => p \notin D[n]
        BY <1>1, <1>3, <2>8, ChildShape DEF A
      <4>3. c # p
        BY <1>3, <2>2, <4>1, <4>2
      <4>4. u.height[c] + 1 = b + 2 /\ b \in Nat
        BY <2>3, <3>2, <4>1 DEF e
      <4> QED
        BY <4>1, <4>3, <4>4
    <3>4. /\ ChildHeight(fresh, fresh[s][n]) = b + 2
          /\ ChildHeight(fresh, fresh[o][n]) = b /\ fresh[s][n] = c
      BY <2>4, <3>2 DEF e, b, c, o, Sides, Other
    <3>5. ChildHeight(fresh, fresh.left[c]) # ChildHeight(fresh, fresh.right[c])
      <4>1. SameHeights(fresh, u, c)
        BY <2>4, <3>3
      <4>2. ChildHeight(u, u.left[c]) # ChildHeight(u, u.right[c])
        BY <2>2, <2>3, <3>2, <3>3
      <4> QED
        BY <4>1, <4>2 DEF SameHeights, Sides
    <3>6. \A q \in Sides : p # NoNode /\ fresh[q][p] = n => OKWith(fresh, p, q, b + 2)
      BY <2>4, <2>7, <3>2
    <3> HIDE DEF next, turn
    <3>7. next.parent[n] # NoNode /\ AllHeightsOK(Refresh(next, next.parent[n]))
      BY <1>1, <1>3, <2>3, <2>6, <3>1, <3>4, <3>5, <3>6, RebalanceHeights DEF o
    <3> QED
      BY <3>1, <3>7 DEF Avl, v
  <2> QED
    BY <2>9, <2>10
<1> QED
  BY <1>4, <1>5

\* A leaf added to a balanced tree is what the walk keeps.
LEMMA LeafHasGrown ==
  ASSUME NEW t, NEW D, Shape(t, D), AllHeightsOK(t), NEW k \in Keys, k \notin Allocated(t),
         NEW e \in Allocated(t), Fits(t, D, k, e), t[Towards(k, e)][e] = NoNode,
         NEW g, g = Grown(t, k, e)
  PROVE  GrewBy(g, e, Towards(k, e), 0)
<1> DEFINE s == Towards(k, e)
           o == Other(s)
           A == Allocated(t)
<1>1. s \in Sides /\ Other(s) = o /\ e \in Keys /\ t \in Tree /\ k # NoNode
  BY KeysAreNodes DEF Towards, Sides, Other, Shape, Allocated
<1>2. /\ Allocated(g) = A \cup {k} /\ g.height = t.height /\ g[s][e] = k /\ g[o][e] = t[o][e]
      /\ Fresh(g, k) /\ g.height[k] = 0 /\ \A r \in Sides : g[r][k] = NoNode
      /\ \A m \in A : m # e => SameAround(g, t, m)
  BY LeafKeepsShape
<1>3. \A x : ChildHeight(g, x) = ChildHeight(t, x)
  BY <1>2 DEF ChildHeight
<1>4. ChildHeight(g, k) = 1
  BY <1>1, <1>2 DEF ChildHeight
<1>5. OKWith(t, e, s, 0)
  <2>1. ChildHeight(t, t[s][e]) = 0
    BY DEF ChildHeight
  <2>2. HeightOK(t, e)
    BY DEF AllHeightsOK
  <2> HIDE DEF s
  <2> QED
    BY <1>1, <2>1, <2>2, HeightsBySides
<1>6. OKWith(g, e, s, 0)
  BY <1>1, <1>2, <1>3, <1>5 DEF OKWith
<1>7. HeightOK(g, k)
  <2>1. g.left[k] = NoNode /\ g.right[k] = NoNode
    BY <1>2 DEF Sides
  <2> QED
    BY <1>2, <2>1 DEF HeightOK, Fresh, Balanced, HeightDifference, ChildHeight
<1>8. ASSUME NEW m \in Allocated(g), m # e PROVE HeightOK(g, m)
  <2>1. CASE m = k
    BY <1>7, <2>1
  <2>2. CASE m # k
    <3>1. m \in A /\ SameAround(g, t, m)
      BY <1>2, <1>8, <2>2
    <3>2. Taller(g, m) = Taller(t, m) /\ (Balanced(g, m) <=> Balanced(t, m)) /\ g.height[m] = t.height[m]
      BY <3>1, SameAroundKeeps DEF SameAround
    <3> QED
      BY <3>1, <3>2 DEF HeightOK, AllHeightsOK
  <2> QED
    BY <2>1, <2>2
<1> HIDE DEF s, o
<1>9. GrewBy(g, e, s, 0)
  BY <1>1, <1>2, <1>4, <1>6, <1>8 DEF GrewBy
<1> QED
  BY <1>9 DEF s

BalancedTree(t) == \A m \in Allocated(t) : Balanced(t, m)

\* Add makes of a sound tree a sound tree with the new key, and of a balanced one a
\* balanced one.
LEMMA AddedIsSound ==
  ASSUME NEW t, NEW D, Sound(t, D), NEW k \in Keys, k \notin Allocated(t), NEW new, new = Added(t, k)
  PROVE  \E E : /\ Sound(new, E) /\ Allocated(new) = Allocated(t) \cup {k}
                /\ new.size = t.size + 1 /\ (BalancedTree(t) => BalancedTree(new))
<1> DEFINE A == Allocated(t)
           e == SearchEnd(t, k)
<1>1. /\ Shape(t, D) /\ AllFresh(t) /\ Rooted(t) /\ t.size = Cardinality(A) /\ t \in Tree
      /\ k \in Node /\ k # NoNode /\ NoNode \in Node
  BY KeysAreNodes DEF Sound, Shape
<1>2. Cardinality(A \cup {k}) = t.size + 1
  BY <1>1, FewNodes, FS_AddElement
<1>3. CASE A = {}
  <2>1. e = NoNode
    BY <1>3 DEF Rooted, SearchEnd, Sound
  <2> DEFINE base == [t EXCEPT !.parent[k] = NoNode, !.leftmost[k] = k, !.rightmost[k] = k]
             root == [base EXCEPT !.root = k]
  <2>2. new = [root EXCEPT !.size = @ + 1]
    BY <2>1 DEF Added, Leaf
  <2>3. /\ base \in Tree /\ base.root = t.root /\ base.size = t.size /\ base.height = t.height
        /\ base.left = t.left /\ base.right = t.right
        /\ \A m \in Keys : /\ base.parent[m] = IF m = k THEN NoNode ELSE t.parent[m]
                           /\ base.leftmost[m] = IF m = k THEN k ELSE t.leftmost[m]
                           /\ base.rightmost[m] = IF m = k THEN k ELSE t.rightmost[m]
    BY <1>1 DEF Tree, Links
  <2> HIDE DEF base
  <2>4. /\ root \in Tree /\ root.root = k /\ root.size = t.size /\ root.height = t.height
        /\ root.left = t.left /\ root.right = t.right /\ root.parent = base.parent
        /\ root.leftmost = base.leftmost /\ root.rightmost = base.rightmost
    BY <1>1, <2>3 DEF Tree
  <2> HIDE DEF root
  <2>5. /\ new \in Tree /\ new.root = k /\ new.size = t.size + 1 /\ new.height = t.height
        /\ new.left = t.left /\ new.right = t.right /\ new.parent = base.parent
        /\ new.leftmost = base.leftmost /\ new.rightmost = base.rightmost
    BY <2>2, <2>4 DEF Tree
  <2>6. \A m \in Keys : NoFields(t, m) /\ D[m] = {}
    BY <1>1, <1>3 DEF Shape
  <2>7. /\ new.parent[k] = NoNode /\ new.leftmost[k] = k /\ new.rightmost[k] = k
        /\ new.left[k] = NoNode /\ new.right[k] = NoNode /\ new.height[k] = 0
    BY <2>3, <2>5, <2>6 DEF NoFields, NoNode
  <2>8. \A m \in Keys : m # k => NoFields(new, m)
    BY <2>3, <2>5, <2>6 DEF NoFields
  <2>9. Allocated(new) = {k}
    BY <1>1, <2>7, <2>8 DEF Allocated, NoFields, NoNode
  <2> DEFINE E == [m \in Node |-> IF m = k THEN {k} ELSE {}]
  <2>10. Linked(new, E, k)
    BY <1>1, <2>7, <2>9 DEF Linked, Sides
  <2>11. Shape(new, E)
    BY <1>1, <2>5, <2>7, <2>8, <2>9, <2>10 DEF Shape, Node
  <2>12. Fresh(new, k) /\ Balanced(new, k)
    BY <2>7 DEF Fresh, Taller, Farthest, ChildHeight, Balanced, HeightDifference, Sides, EndOf
  <2>13. Sound(new, E)
    BY <1>1, <1>2, <1>3, <2>5, <2>7, <2>9, <2>11, <2>12 DEF Sound, AllFresh, Rooted
  <2> HIDE DEF E, A
  <2> QED
    BY <1>3, <2>5, <2>9, <2>12, <2>13 DEF BalancedTree, A
<1>4. CASE A # {}
  <2> DEFINE g == Grown(t, k, e)
             E == Above(D, k, e)
             w0 == [tree |-> g, at |-> e, balanced |-> FALSE]
             J == {w \in Walks : BalancedTree(t) => Avl(w)}
  <2>1. /\ e \in A /\ Fits(t, D, k, e) /\ t[Towards(k, e)][e] = NoNode /\ e # NoNode /\ e \in Node
    BY <1>1, <1>4, SearchFinds, NodeShape
  <2>2. new = UpdateRoot(WalkUp(g, e))
    BY <2>1 DEF Added, Grown
  <2> HIDE DEF e
  <2>3. /\ Shape(g, E) /\ Allocated(g) = A \cup {k}
        /\ g.root = t.root /\ g.size = t.size + 1
        /\ Fresh(g, k)
        /\ \A m \in A : m # e => SameAround(g, t, m)
    BY <1>1, <2>1, LeafKeepsShape
  <2>4. FreshBut(g, E, e)
    <3> SUFFICES ASSUME NEW m \in Allocated(g), e \notin E[m] PROVE Fresh(g, m)
      BY DEF FreshBut
    <3>1. e \in E[e]
      BY <1>1, <2>1, NodeShape DEF Above
    <3>2. m = k \/ (m \in A /\ m # e)
      <4> HIDE DEF E, g
      <4> QED
        BY <2>3, <3>1
    <3>3. m \in A /\ m # e => Fresh(g, m)
      <4> HIDE DEF g
      <4> QED
        BY <1>1, <2>3, SameAroundKeeps DEF AllFresh
    <3> QED
      BY <2>3, <3>2, <3>3
  <2>5. g.root \in Allocated(g)
    BY <1>1, <1>4, <2>3 DEF Rooted
  <2>6. w0 \in J
    <3>1. w0 \in Walks
      <4> HIDE DEF g
      <4> QED
        BY <2>1, <2>3 DEF Walks, Shape
    <3>2. BalancedTree(t) => GrewBy(g, e, Towards(k, e), 0)
      <4> SUFFICES ASSUME BalancedTree(t) PROVE GrewBy(g, e, Towards(k, e), 0)
        OBVIOUS
      <4>1. AllHeightsOK(t)
        BY <1>1 DEF AllHeightsOK, HeightOK, AllFresh, Fresh, BalancedTree
      <4> HIDE DEF A
      <4> QED
        BY <1>1, <2>1, <4>1, LeafHasGrown DEF A
    <3>3. w0.tree = g /\ w0.at = e /\ w0.balanced = FALSE
      OBVIOUS
    <3>4. Towards(k, e) \in Sides /\ 0 \in Nat
      BY DEF Towards, Sides
    <3> HIDE DEF w0, g
    <3>5. BalancedTree(t) => Avl(w0)
      BY <2>1, <3>2, <3>3, <3>4 DEF Avl
    <3> QED
      BY <3>1, <3>5
  <2>7. ASSUME NEW w \in J, NEW F, WalkOK(w, F, g), w.at # NoNode PROVE NextWalk(w) \in J
    <3>1. NextWalk(w) \in Walks
      BY <2>7, NextWalkType
    <3>2. Avl(w) => Avl(NextWalk(w))
      BY <2>7, NextWalkAvl
    <3> QED
      BY <3>1, <3>2
  <2>8. PICK F : /\ Shape(new, F) /\ AllFresh(new) /\ Rooted(new)
                 /\ Allocated(new) = Allocated(g) /\ new.size = g.size
                 /\ \E w \in J : /\ w.at = NoNode /\ SameNodes(new, w.tree)
                                 /\ Allocated(w.tree) = Allocated(g)
    <3>1. e \in Allocated(g) \cup {NoNode}
      BY <2>1, <2>3
    <3> HIDE DEF J, E, g, A
    <3>2. [tree |-> g, at |-> e, balanced |-> FALSE] \in J
      BY <2>6
    <3> HIDE DEF w0
    <3> QED
      BY <2>2, <2>3, <2>4, <2>5, <2>7, <3>1, <3>2, WalkAndRoot
  <2>9. Sound(new, F)
    BY <1>2, <2>3, <2>8 DEF Sound
  <2>10. BalancedTree(t) => BalancedTree(new)
    <3> SUFFICES ASSUME BalancedTree(t) PROVE BalancedTree(new)
      OBVIOUS
    <3>1. PICK w \in J : /\ w.at = NoNode /\ SameNodes(new, w.tree) /\ Allocated(w.tree) = Allocated(g)
      BY <2>8
    <3>2. AllHeightsOK(w.tree)
      BY <3>1 DEF Avl
    <3>3. \A m : Balanced(new, m) <=> Balanced(w.tree, m)
      BY <2>8, <3>1, SameNodesKeep DEF Shape
    <3> QED
      BY <2>8, <3>1, <3>2, <3>3 DEF BalancedTree, AllHeightsOK, HeightOK
  <2> HIDE DEF g, A
  <2> QED
    BY <2>3, <2>8, <2>9, <2>10 DEF A
<1> QED
  BY <1>3, <1>4

---------------------------------------------------------------------------
(* Taking a node out *)

\* u is t with p as the parent of n.
ParentSet(u, t, n, p) ==
  /\ u \in Tree /\ SameCaches(u, t)
  /\ \A s \in Sides : u[s] = t[s]
  /\ \A m \in Keys : u.parent[m] = IF m = n THEN p ELSE t.parent[m]

\* u is t with c in the place of n below p.
ChildReplaced(u, t, p, n, c) ==
  /\ u \in Tree /\ SameCaches(u, t) /\ u.parent = t.parent
  /\ \A s \in Sides, m \in Keys : u[s][m] = IF m = p /\ t[s][m] = n THEN c ELSE t[s][m]

\* The two small changes that TakeOut and PutInPlace are made of.
LEMMA SmallChanges ==
  ASSUME NEW t \in Tree, NEW n \in Node, NEW p \in Node, NEW c \in Node
  PROVE  ParentSet(SetParent(t, n, p), t, n, p) /\ ChildReplaced(ReplaceChild(t, p, n, c), t, p, n, c)
<1>1. ParentSet(SetParent(t, n, p), t, n, p)
  BY SetParentFields DEF ParentSet
<1>2. ChildReplaced(ReplaceChild(t, p, n, c), t, p, n, c)
  BY ReplaceChildFields DEF ChildReplaced
<1> QED
  BY <1>1, <1>2

\* The child that TakeOut moves into the place of r.
OnlyChild(t, r) == IF t.right[r] # NoNode THEN t.right[r] ELSE t.left[r]

\* u is t where r has given its place below q to x.
TakenOut(u, t, r, q, x) ==
  /\ u \in Tree /\ SameCaches(u, t)
  /\ \A m \in Keys : u.parent[m] = IF m = x THEN q ELSE t.parent[m]
  /\ \A s \in Sides, m \in Keys : u[s][m] = IF m = q /\ t[s][m] = r THEN x ELSE t[s][m]

\* That is what TakeOut makes of a replacement that is no child of n.
LEMMA TakeOutFields ==
  ASSUME NEW t \in Tree, NEW n \in Keys, NEW r \in Keys, NEW q, q = t.parent[r], q # n,
         NEW x, x = OnlyChild(t, r), NEW u, u = TakeOut(t, n, r)
  PROVE  TakenOut(u, t, r, q, x)
<1>1. r # NoNode /\ r \in Node /\ q \in Node /\ x \in Node
  BY FieldTypes, KeysAreNodes DEF OnlyChild
<1> DEFINE v == ReplaceChild(t, q, r, x)
<1>2. u = SetParent(v, x, q)
  BY <1>1 DEF TakeOut, OnlyChild
<1>3. /\ v \in Tree /\ SameCaches(v, t) /\ v.parent = t.parent
      /\ \A s \in Sides, m \in Keys : v[s][m] = IF m = q /\ t[s][m] = r THEN x ELSE t[s][m]
  <2>1. ChildReplaced(v, t, q, r, x)
    BY <1>1, SmallChanges
  <2> HIDE DEF v
  <2> QED
    BY <2>1 DEF ChildReplaced
<1> HIDE DEF v
<1>4. /\ u \in Tree /\ SameCaches(u, v)
      /\ \A s \in Sides : u[s] = v[s]
      /\ \A m \in Keys : u.parent[m] = IF m = x THEN q ELSE v.parent[m]
  <2>1. ParentSet(u, v, x, q)
    BY <1>1, <1>2, <1>3, SmallChanges
  <2> QED
    BY <2>1 DEF ParentSet
<1> QED
  BY <1>3, <1>4 DEF TakenOut, SameCaches

\* u is t where r has taken the place of n below p.
Replaced(u, t, n, r, p) ==
  /\ u \in Tree /\ u.root = t.root /\ u.size = t.size
  /\ \A m \in Keys : u.parent[m] = IF m = n THEN 0
                                   ELSE IF m # r /\ m \in {t.left[n], t.right[n]} THEN r
                                   ELSE IF m = r THEN p ELSE t.parent[m]
  /\ \A s \in Sides, m \in Keys :
       u[s][m] = IF m = n THEN 0
                 ELSE IF m = r THEN (IF t[s][n] # r THEN t[s][n] ELSE t[s][r])
                 ELSE IF m = p /\ t[s][m] = n THEN r ELSE t[s][m]
  /\ \A m \in Keys : /\ u.height[m] = IF m = n THEN 0 ELSE t.height[m]
                     /\ u.leftmost[m] = IF m = n THEN 0 ELSE t.leftmost[m]
                     /\ u.rightmost[m] = IF m = n THEN 0 ELSE t.rightmost[m]

\* u is t without the fields of n.
Deleted(u, t, n) ==
  /\ u \in Tree /\ u.root = t.root /\ u.size = t.size
  /\ \A m \in Keys : /\ u.parent[m] = IF m = n THEN 0 ELSE t.parent[m]
                     /\ u.height[m] = IF m = n THEN 0 ELSE t.height[m]
                     /\ u.leftmost[m] = IF m = n THEN 0 ELSE t.leftmost[m]
                     /\ u.rightmost[m] = IF m = n THEN 0 ELSE t.rightmost[m]
  /\ \A s \in Sides, m \in Keys : u[s][m] = IF m = n THEN 0 ELSE t[s][m]

Blanked(t, n) == [t EXCEPT !.parent[n] = 0, !.left[n] = 0, !.right[n] = 0, !.height[n] = 0,
                           !.leftmost[n] = 0, !.rightmost[n] = 0]

\* That is what PutInPlace makes of it in the end.
LEMMA BlankFields ==
  ASSUME NEW t \in Tree, NEW n \in Keys, NEW u, u = Blanked(t, n)
  PROVE  Deleted(u, t, n)
<1>1. 0 \in Node /\ 0 \in Nat
  BY KeysAreNodes
<1>2. /\ u \in Tree /\ u.root = t.root /\ u.size = t.size
      /\ u.parent = [t.parent EXCEPT ![n] = 0] /\ u.height = [t.height EXCEPT ![n] = 0]
      /\ u.leftmost = [t.leftmost EXCEPT ![n] = 0] /\ u.rightmost = [t.rightmost EXCEPT ![n] = 0]
      /\ u.left = [t.left EXCEPT ![n] = 0] /\ u.right = [t.right EXCEPT ![n] = 0]
  BY <1>1 DEF Blanked, Tree, Links
<1>3. \A m \in Keys : u.left[m] = (IF m = n THEN 0 ELSE t.left[m]) /\ u.right[m] = IF m = n THEN 0 ELSE t.right[m]
  BY <1>2 DEF Tree, Links
<1>4. \A s \in Sides, m \in Keys : u[s][m] = IF m = n THEN 0 ELSE t[s][m]
  BY <1>3 DEF Sides
<1> QED
  BY <1>2, <1>4 DEF Deleted, Tree, Links

\* That is what PutInPlace makes of a replacement.
LEMMA PutInPlaceFields ==
  ASSUME NEW t \in Tree, NEW n \in Keys, NEW r \in Keys, NEW p, p = t.parent[n], r # n, p # n, p # r,
         NEW u, u = PutInPlace(t, n, r)
  PROVE  Replaced(u, t, n, r, p)
<1>1. r # NoNode /\ r \in Node /\ n \in Node /\ p \in Node /\ t.left[n] \in Node /\ t.right[n] \in Node
  BY FieldTypes, KeysAreNodes
<1> DEFINE adopt  == IF r = NoNode THEN t
                     ELSE [t EXCEPT !.parent[r] = t.parent[n],
                                    !.left[r]   = IF t.left[n] # r THEN t.left[n] ELSE @,
                                    !.right[r]  = IF t.right[n] # r THEN t.right[n] ELSE @]
           right  == IF t.right[n] # r THEN SetParent(adopt, t.right[n], r) ELSE adopt
           left   == IF t.left[n] # r THEN SetParent(right, t.left[n], r) ELSE right
           linked == ReplaceChild(left, t.parent[n], n, r)
<1>2. u = Blanked(linked, n)
  BY Zenon DEF PutInPlace, Blanked
<1>3. /\ adopt \in Tree /\ SameCaches(adopt, t)
      /\ \A m \in Keys : adopt.parent[m] = IF m = r THEN p ELSE t.parent[m]
      /\ \A s \in Sides, m \in Keys :
           adopt[s][m] = IF m = r THEN (IF t[s][n] # r THEN t[s][n] ELSE t[s][r]) ELSE t[s][m]
  <2> DEFINE a == IF t.left[n] # r THEN t.left[n] ELSE t.left[r]
             b == IF t.right[n] # r THEN t.right[n] ELSE t.right[r]
  <2>1. a \in Node /\ b \in Node
    BY <1>1, FieldTypes
  <2>2. adopt = [t EXCEPT !.parent[r] = p, !.left[r] = a, !.right[r] = b]
    BY <1>1
  <2> HIDE DEF a, b, adopt
  <2>3. /\ adopt \in Tree /\ SameCaches(adopt, t)
        /\ \A m \in Keys : adopt.parent[m] = IF m = r THEN p ELSE t.parent[m]
    BY <1>1, <2>1, <2>2 DEF Tree, Links, SameCaches
  <2>4. \A m \in Keys : adopt.left[m] = IF m = r THEN a ELSE t.left[m]
    BY <1>1, <2>1, <2>2 DEF Tree, Links
  <2>5. \A m \in Keys : adopt.right[m] = IF m = r THEN b ELSE t.right[m]
    BY <1>1, <2>1, <2>2 DEF Tree, Links
  <2>6. \A m \in Keys : adopt["left"][m] = IF m = r THEN (IF t["left"][n] # r THEN t["left"][n] ELSE t["left"][r]) ELSE t["left"][m]
    BY <2>4 DEF a
  <2>7. \A m \in Keys : adopt["right"][m] = IF m = r THEN (IF t["right"][n] # r THEN t["right"][n] ELSE t["right"][r]) ELSE t["right"][m]
    BY <2>5 DEF b
  <2> QED
    BY <2>3, <2>6, <2>7 DEF Sides
<1> HIDE DEF adopt
<1>4. /\ right \in Tree /\ SameCaches(right, adopt) /\ \A s \in Sides : right[s] = adopt[s]
      /\ \A m \in Keys : right.parent[m] = IF m # r /\ m = t.right[n] THEN r ELSE adopt.parent[m]
  <2>1. CASE t.right[n] # r
    <3>1. ParentSet(right, adopt, t.right[n], r)
      BY <1>1, <1>3, <2>1, SmallChanges
    <3> HIDE DEF right
    <3> QED
      BY <2>1, <3>1 DEF ParentSet
  <2>2. CASE t.right[n] = r
    BY <1>3, <2>2 DEF SameCaches
  <2> QED
    BY <2>1, <2>2
<1> HIDE DEF right
<1>5. /\ left \in Tree /\ SameCaches(left, right) /\ \A s \in Sides : left[s] = right[s]
      /\ \A m \in Keys : left.parent[m] = IF m # r /\ m = t.left[n] THEN r ELSE right.parent[m]
  <2>1. CASE t.left[n] # r
    <3>1. ParentSet(left, right, t.left[n], r)
      BY <1>1, <1>4, <2>1, SmallChanges
    <3> HIDE DEF left
    <3> QED
      BY <2>1, <3>1 DEF ParentSet
  <2>2. CASE t.left[n] = r
    BY <1>4, <2>2 DEF SameCaches
  <2> QED
    BY <2>1, <2>2
<1> HIDE DEF left
<1>6. /\ linked \in Tree /\ SameCaches(linked, left) /\ linked.parent = left.parent
      /\ \A s \in Sides, m \in Keys : linked[s][m] = IF m = p /\ left[s][m] = n THEN r ELSE left[s][m]
  <2>1. ChildReplaced(linked, left, p, n, r)
    BY <1>1, <1>5, SmallChanges
  <2> HIDE DEF linked
  <2> QED
    BY <2>1 DEF ChildReplaced
<1> HIDE DEF linked
<1>7. /\ u \in Tree /\ u.root = linked.root /\ u.size = linked.size
      /\ \A m \in Keys : /\ u.parent[m] = IF m = n THEN 0 ELSE linked.parent[m]
                         /\ u.height[m] = IF m = n THEN 0 ELSE linked.height[m]
                         /\ u.leftmost[m] = IF m = n THEN 0 ELSE linked.leftmost[m]
                         /\ u.rightmost[m] = IF m = n THEN 0 ELSE linked.rightmost[m]
      /\ \A s \in Sides, m \in Keys : u[s][m] = IF m = n THEN 0 ELSE linked[s][m]
  <2>1. Deleted(u, linked, n)
    BY <1>2, <1>6, BlankFields
  <2> QED
    BY <2>1 DEF Deleted
<1>8. /\ linked.root = t.root /\ linked.size = t.size /\ linked.height = t.height
      /\ linked.leftmost = t.leftmost /\ linked.rightmost = t.rightmost
  BY <1>3, <1>4, <1>5, <1>6 DEF SameCaches
<1>9. \A m \in Keys : u.parent[m] = IF m = n THEN 0
                                    ELSE IF m # r /\ m \in {t.left[n], t.right[n]} THEN r
                                    ELSE IF m = r THEN p ELSE t.parent[m]
  BY <1>3, <1>4, <1>5, <1>6, <1>7
<1>10. ASSUME NEW s \in Sides, NEW m \in Keys
       PROVE  u[s][m] = IF m = n THEN 0
                 ELSE IF m = r THEN (IF t[s][n] # r THEN t[s][n] ELSE t[s][r])
                 ELSE IF m = p /\ t[s][m] = n THEN r ELSE t[s][m]
  BY <1>3, <1>4, <1>5, <1>6, <1>7
<1> QED
  BY <1>7, <1>8, <1>9, <1>10 DEF Replaced

\* In a tree with fresh caches the replacement of n is a leaf's none, or the nearest key below
\* its child on some side, the end of that subtree towards the other side.
LEMMA ReplacementIsNearest ==
  ASSUME NEW t, NEW D, Shape(t, D), AllFresh(t), NEW n \in Allocated(t)
  PROVE  \/ /\ t.left[n] = NoNode /\ t.right[n] = NoNode /\ Replacement(t, n) = NoNode
         \/ \E s \in Sides : t[s][n] # NoNode /\ Replacement(t, n) = t[EndOf(Other(s))][t[s][n]]
<1>1. t \in Tree /\ n \in Keys /\ t.left[n] \in Node /\ t.right[n] \in Node /\ t.height[n] = Taller(t, n)
  BY NodeShape, FieldTypes DEF Shape, AllFresh, Fresh
<1> DEFINE a == ChildHeight(t, t.left[n])
           b == ChildHeight(t, t.right[n])
<1>2. /\ a \in Nat /\ b \in Nat /\ (t.left[n] # NoNode <=> a > 0) /\ (t.right[n] # NoNode <=> b > 0)
      /\ t.height[n] = IF a > b THEN a ELSE b
      /\ HeightDifference(t, n) = a - b
  BY <1>1, ChildHeights DEF Taller, HeightDifference
<1> HIDE DEF a, b
<1>3. CASE a = 0 /\ b = 0
  BY <1>2, <1>3 DEF Replacement
<1>4. CASE a > b
  <2>1. Replacement(t, n) = t.rightmost[t.left[n]] /\ t.left[n] # NoNode
    BY <1>2, <1>4 DEF Replacement
  <2>2. "left" \in Sides /\ EndOf(Other("left")) = "rightmost"
    BY DEF Sides, EndOf, Other
  <2> QED
    BY <2>1, <2>2
<1>5. CASE ~(a > b) /\ b > 0
  <2>1. Replacement(t, n) = t.leftmost[t.right[n]] /\ t.right[n] # NoNode
    BY <1>2, <1>5 DEF Replacement
  <2>2. "right" \in Sides /\ EndOf(Other("right")) = "leftmost"
    BY DEF Sides, EndOf, Other
  <2> QED
    BY <2>1, <2>2
<1> QED
  BY <1>2, <1>3, <1>4, <1>5

\* n is to be removed and r to replace it: c is the child of n that r is below, x the only
\* child of r, q and p are the parents of r and n, b is the other child of n.
Removal(t, D, n, s, o, c, r, x, q, p, b) ==
  /\ Shape(t, D) /\ n \in Allocated(t) /\ s \in Sides /\ o = Other(s)
  /\ c = t[s][n] /\ c # NoNode /\ r \in D[c] /\ t[o][r] = NoNode
  /\ \A m \in D[c] : m = r \/ Before(o, r, m)
  /\ x = t[s][r] /\ q = t.parent[r] /\ p = t.parent[n] /\ b = t[o][n]

\* How these nodes lie.
LEMMA RemovalLies ==
  ASSUME NEW t, NEW D, NEW n, NEW s, NEW o, NEW c, NEW r, NEW x, NEW q, NEW p, NEW b,
         Removal(t, D, n, s, o, c, r, x, q, p, b)
  PROVE  /\ s \in Sides /\ o \in Sides /\ s # o /\ Other(o) = s /\ o = Other(s)
         /\ n \in Keys /\ r \in Keys /\ c \in Keys /\ n # NoNode
         /\ r \in Allocated(t) /\ c \in Allocated(t) /\ n \in Allocated(t)
         /\ r # n /\ c # n /\ t.parent[c] = n /\ n \in D[n] /\ r \in D[r] /\ c \in D[c]
         /\ D[n] = {n} \cup D[c] \cup D[b] /\ D[c] \cap D[b] = {} /\ n \notin D[c] /\ n \notin D[b]
         /\ D[r] \subseteq D[c] /\ D[r] = {r} \cup D[x] /\ r \notin D[x]
         /\ x \in Allocated(t) \cup {NoNode} /\ (x # NoNode => x \in D[x] /\ t.parent[x] = r)
         /\ b \in Allocated(t) \cup {NoNode} /\ (b # NoNode => b \in D[b] /\ t.parent[b] = n)
         /\ p \in Allocated(t) \cup {NoNode} /\ p \notin D[n] /\ p # n
         /\ p # NoNode => p \in Allocated(t) /\ \E e \in Sides : t[e][p] = n
         /\ r = c <=> q = n
         /\ r # c => q \in D[c] /\ q \in Allocated(t) /\ q # NoNode /\ t[o][q] = r /\ q # r
<1> USE DEF Removal
<1>1. /\ o \in Sides /\ s # o /\ Other(o) = s /\ o = Other(s)
  BY DEF Sides, Other
<1>2. /\ n \in Keys /\ n # NoNode /\ n \in D[n] /\ p \in Allocated(t) \cup {NoNode}
      /\ p # NoNode => \E e \in Sides : t[e][p] = n
  BY NodeShape
<1>3. /\ c \in Allocated(t) /\ c # n /\ t.parent[c] = n /\ c \in D[c] /\ n \notin D[c]
      /\ D[n] = {n} \cup D[c] \cup D[b] /\ D[c] \cap D[b] = {}
  BY ChildShape
<1>4. b \in Allocated(t) \cup {NoNode} /\ n \notin D[b] /\ (b # NoNode => b \in D[b] /\ t.parent[b] = n)
  BY <1>1, ChildShape
<1>5. /\ r \in Allocated(t) /\ D[r] \subseteq D[c]
      /\ r # c => q \in D[c] /\ q # NoNode
  BY <1>3, BelowIsClosed
<1>6. /\ r \in Keys /\ c \in Keys /\ r \in D[r] /\ r # n
  BY <1>3, <1>5, NodeShape
<1>7. /\ x \in Allocated(t) \cup {NoNode} /\ (x # NoNode => x \in D[x] /\ t.parent[x] = r)
      /\ r \notin D[x] /\ D[r] = {r} \cup D[x] \cup D[t[o][r]]
  BY <1>1, <1>5, ChildShape
<1>8. D[r] = {r} \cup D[x]
  BY <1>7 DEF Shape
<1>9. r # c => q \in Allocated(t) /\ t[o][q] = r /\ q # r
  <2> SUFFICES ASSUME r # c PROVE q \in Allocated(t) /\ t[o][q] = r /\ q # r
    OBVIOUS
  <2>1. q \in Allocated(t) /\ q \in Keys
    BY <1>3, <1>5, BelowIsClosed, NodeShape
  <2>2. PICK e \in Sides : t[e][q] = r
    BY <1>5, NodeShape
  <2>3. Before(e, r, q) /\ q # r
    BY <1>6, <2>1, <2>2, ChildShape, SidesOrder
  <2>4. Before(o, r, q)
    BY <1>5, <2>3
  <2>5. e # s
    <3> SUFFICES ASSUME e = s PROVE FALSE
      OBVIOUS
    <3>1. Before(s, r, q) /\ Before(s, q, r)
      BY <1>1, <1>6, <2>1, <2>3, <2>4, SidesOrder
    <3> QED
      BY <1>6, <2>1, <3>1, SidesOrder
  <2> QED
    BY <2>1, <2>2, <2>3, <2>5 DEF Sides, Other
<1>10. r = c <=> q = n
  BY <1>3, <1>5
<1>11. p \notin D[n] /\ p # n
  <2>1. CASE p = NoNode
    <3>1. D[n] \subseteq Keys
      BY NodeShape
    <3> QED
      BY <1>2, <2>1, <3>1, KeysAreNodes
  <2>2. CASE p # NoNode
    <3>1. p \in Allocated(t)
      BY <1>2, <2>2
    <3>2. PICK e \in Sides : t[e][p] = n
      BY <1>2, <2>2
    <3>3. p \notin D[n]
      BY <3>1, <3>2, ChildShape
    <3> QED
      BY <1>2, <3>3
  <2> QED
    BY <2>1, <2>2
<1> QED
  BY <1>1, <1>2, <1>3, <1>4, <1>5, <1>6, <1>7, <1>8, <1>9, <1>10, <1>11

\* u is t after r has taken the place of n, field by field.
Moved(u, t, n, s, o, c, r, x, q, p, b) ==
  /\ u \in Tree /\ u.size = t.size
  /\ t.root # n => u.root = t.root
  /\ t.root = n => u.root \in {t.left[n], t.right[n]} \ {NoNode}
  /\ \A m \in Keys : u.parent[m] = IF m = n THEN 0 ELSE IF m = r THEN p ELSE IF m = b THEN r
                                   ELSE IF r # c /\ m = c THEN r ELSE IF r # c /\ m = x THEN q
                                   ELSE t.parent[m]
  /\ \A m \in Keys : u[s][m] = IF m = n THEN 0 ELSE IF m = r THEN (IF r = c THEN x ELSE c)
                               ELSE IF m = p /\ t[s][m] = n THEN r ELSE t[s][m]
  /\ \A m \in Keys : u[o][m] = IF m = n THEN 0 ELSE IF m = r THEN b
                               ELSE IF m = p /\ t[o][m] = n THEN r
                               ELSE IF r # c /\ m = q THEN x ELSE t[o][m]
  /\ \A m \in Keys : /\ u.height[m] = IF m = n THEN 0 ELSE t.height[m]
                     /\ u.leftmost[m] = IF m = n THEN 0 ELSE t.leftmost[m]
                     /\ u.rightmost[m] = IF m = n THEN 0 ELSE t.rightmost[m]

\* That is what Removed makes of t before the walk.
LEMMA RemovedFields ==
  ASSUME NEW t, NEW D, NEW n, NEW s, NEW o, NEW c, NEW r, NEW x, NEW q, NEW p, NEW b,
         Removal(t, D, n, s, o, c, r, x, q, p, b),
         NEW u, u = PutInPlace(TakeOut(LeaveRoot(t, n), n, r), n, r)
  PROVE  Moved(u, t, n, s, o, c, r, x, q, p, b)
<1> DEFINE t1 == LeaveRoot(t, n)
           t2 == TakeOut(t1, n, r)
<1>1. /\ s \in Sides /\ o \in Sides /\ s # o /\ \A e \in Sides : e = s \/ e = o
      /\ n \in Keys /\ r \in Keys /\ c \in Keys /\ n # NoNode /\ r # n /\ c # n /\ r # NoNode
      /\ x # n /\ x # r /\ b # n /\ b # r /\ p # n /\ p # r
      /\ r = c <=> q = n
      /\ r # c => x # c /\ q # p /\ q # r
      /\ (x # NoNode => x # b) /\ (b # NoNode => b # c)
  <2>1. /\ s \in Sides /\ o \in Sides /\ s # o /\ o = Other(s) /\ Other(o) = s
        /\ n \in Keys /\ r \in Keys /\ c \in Keys /\ n # NoNode
        /\ r # n /\ c # n /\ n \in D[n] /\ r \in D[r] /\ c \in D[c]
        /\ D[n] = {n} \cup D[c] \cup D[b] /\ D[c] \cap D[b] = {} /\ n \notin D[c] /\ n \notin D[b]
        /\ D[r] \subseteq D[c] /\ D[r] = {r} \cup D[x] /\ r \notin D[x]
        /\ x # NoNode => x \in D[x] /\ t.parent[x] = r
        /\ b # NoNode => b \in D[b]
        /\ p \notin D[n] /\ p # n /\ t.parent[c] = n
        /\ r = c <=> q = n
        /\ r # c => q \in D[c] /\ q # r
    BY RemovalLies
  <2>2. r # NoNode /\ c # NoNode
    BY <2>1, KeysAreNodes
  <2>3. \A e \in Sides : e = s \/ e = o
    BY <2>1 DEF Sides
  <2>4. x # n /\ x # r /\ (x # NoNode => x # b)
    BY <2>1, <2>2
  <2>5. b # n /\ b # r /\ (b # NoNode => b # c) /\ p # r
    BY <2>1, <2>2
  <2>6. r # c => x # c /\ q # p
    BY <2>1, <2>2
  <2> QED
    BY <2>1, <2>2, <2>3, <2>4, <2>5, <2>6
<1>2. /\ t \in Tree /\ c = t[s][n] /\ c # NoNode /\ b = t[o][n] /\ x = t[s][r] /\ t[o][r] = NoNode
      /\ q = t.parent[r] /\ p = t.parent[n]
  BY DEF Removal, Shape
<1>3. {t.left[n], t.right[n]} = {c, b}
  BY <1>1, <1>2 DEF Sides
<1>4. /\ t1 \in Tree /\ SameNodes(t1, t) /\ t1.size = t.size
      /\ t.root # n => t1.root = t.root
      /\ t.root = n => t1.root \in {t.left[n], t.right[n]} \ {NoNode}
  <2> DEFINE a == IF t.right[n] # NoNode THEN t.right[n] ELSE t.left[n]
  <2>1. a \in {t.left[n], t.right[n]} \ {NoNode} /\ a \in Node
    BY <1>1, <1>2, <1>3, FieldTypes
  <2>2. t1 = IF t.root # n THEN t ELSE [t EXCEPT !.root = a]
    BY DEF LeaveRoot
  <2> HIDE DEF a
  <2> QED
    BY <1>2, <2>1, <2>2 DEF SameNodes, Tree
<1> HIDE DEF t1
<1>5. /\ t1.parent = t.parent /\ t1.left = t.left /\ t1.right = t.right
      /\ t1.height = t.height /\ t1.leftmost = t.leftmost /\ t1.rightmost = t.rightmost
      /\ \A e \in Sides : t1[e] = t[e]
  BY <1>4 DEF SameNodes, Sides
<1>6. x = OnlyChild(t1, r)
  <2>1. CASE s = "left" /\ o = "right"
    BY <1>2, <1>5, <2>1 DEF OnlyChild
  <2>2. CASE s = "right" /\ o = "left"
    BY <1>2, <1>5, <2>2 DEF OnlyChild
  <2> QED
    BY <1>1, <2>1, <2>2 DEF Sides
<1>7. /\ t2 \in Tree /\ t2.root = t1.root /\ t2.size = t.size
      /\ \A m \in Keys : /\ t2.parent[m] = IF r # c /\ m = x THEN q ELSE t.parent[m]
                         /\ t2.height[m] = t.height[m]
                         /\ t2.leftmost[m] = t.leftmost[m] /\ t2.rightmost[m] = t.rightmost[m]
      /\ \A e \in Sides, m \in Keys : t2[e][m] = IF r # c /\ m = q /\ t[e][m] = r THEN x ELSE t[e][m]
  <2>1. CASE r = c
    <3>1. t2 = t1
      BY <1>1, <1>2, <1>5, <2>1 DEF TakeOut
    <3> QED
      BY <1>4, <1>5, <2>1, <3>1
  <2>2. CASE r # c
    <3>1. TakenOut(t2, t1, r, q, x)
      BY <1>1, <1>2, <1>4, <1>5, <1>6, <2>2, TakeOutFields
    <3> HIDE DEF t2
    <3> QED
      BY <1>4, <1>5, <2>2, <3>1 DEF TakenOut, SameCaches
  <2> QED
    BY <2>1, <2>2
<1>8. u = PutInPlace(t2, n, r)
  BY DEF t1
<1> HIDE DEF t2
<1>9. /\ t2.parent[n] = p
      /\ \A e \in Sides : t2[e][n] = t[e][n]
  <2>1. q # n \/ r = c
    BY <1>1
  <2> QED
    BY <1>1, <1>2, <1>7, <2>1
<1>10. t2.left[n] = t.left[n] /\ t2.right[n] = t.right[n]
  BY <1>9 DEF Sides
<1>11. Replaced(u, t2, n, r, p)
  BY <1>1, <1>7, <1>8, <1>9, PutInPlaceFields
<1>12. \A m \in Keys : u.parent[m] = IF m = n THEN 0 ELSE IF m = r THEN p ELSE IF m = b THEN r
                                     ELSE IF r # c /\ m = c THEN r ELSE IF r # c /\ m = x THEN q
                                     ELSE t.parent[m]
  <2> SUFFICES ASSUME NEW m \in Keys
               PROVE  u.parent[m] = IF m = n THEN 0 ELSE IF m = r THEN p ELSE IF m = b THEN r
                                    ELSE IF r # c /\ m = c THEN r ELSE IF r # c /\ m = x THEN q
                                    ELSE t.parent[m]
    OBVIOUS
  <2>1. u.parent[m] = IF m = n THEN 0
                      ELSE IF m # r /\ m \in {c, b} THEN r
                      ELSE IF m = r THEN p ELSE t2.parent[m]
    BY <1>3, <1>10, <1>11 DEF Replaced
  <2>2. m # NoNode
    BY KeysAreNodes
  <2>3. t2.parent[m] = IF r # c /\ m = x THEN q ELSE t.parent[m]
    BY <1>7
  <2> QED
    BY <1>1, <2>1, <2>2, <2>3
<1>13. ASSUME NEW e \in Sides, NEW m \in Keys
       PROVE  u[e][m] = IF m = n THEN 0
                        ELSE IF m = r THEN (IF t[e][n] # r THEN t[e][n] ELSE t2[e][r])
                        ELSE IF m = p /\ t2[e][m] = n THEN r ELSE t2[e][m]
  BY <1>9, <1>11 DEF Replaced
<1>14. ASSUME NEW e \in Sides
       PROVE  t2[e][r] = t[e][r] /\ \A m \in Keys : m = p => t2[e][m] = t[e][m]
  BY <1>1, <1>7
<1>15. ASSUME NEW m \in Keys
       PROVE  u[s][m] = IF m = n THEN 0 ELSE IF m = r THEN (IF r = c THEN x ELSE c)
                        ELSE IF m = p /\ t[s][m] = n THEN r ELSE t[s][m]
  <2>1. t2[s][m] = t[s][m]
    <3>1. r # c /\ m = q => t[s][m] # r
      <4> SUFFICES ASSUME r # c, m = q, t[s][m] = r PROVE FALSE
        OBVIOUS
      <4>1. /\ q \in Allocated(t) /\ t[o][q] = r /\ o = Other(s)
        BY RemovalLies
      <4>2. t[s][q] # NoNode => t[s][q] # t[Other(s)][q]
        BY <1>1, <4>1, ChildShape DEF Removal
      <4> QED
        BY <1>1, <4>1, <4>2
    <3> QED
      BY <1>1, <1>7, <3>1
  <2> QED
    BY <1>1, <1>2, <1>13, <1>14, <2>1
<1>16. ASSUME NEW m \in Keys
       PROVE  u[o][m] = IF m = n THEN 0 ELSE IF m = r THEN b
                        ELSE IF m = p /\ t[o][m] = n THEN r
                        ELSE IF r # c /\ m = q THEN x ELSE t[o][m]
  <2>1. t2[o][m] = IF r # c /\ m = q THEN x ELSE t[o][m]
    <3>1. r # c => t[o][q] = r
      BY RemovalLies
    <3> QED
      BY <1>1, <1>7, <3>1
  <2> QED
    BY <1>1, <1>2, <1>13, <1>14, <2>1
<1>17. \A m \in Keys : /\ u.height[m] = IF m = n THEN 0 ELSE t.height[m]
                       /\ u.leftmost[m] = IF m = n THEN 0 ELSE t.leftmost[m]
                       /\ u.rightmost[m] = IF m = n THEN 0 ELSE t.rightmost[m]
  BY <1>7, <1>11 DEF Replaced
<1>18. u \in Tree /\ u.size = t.size /\ u.root = t1.root
  BY <1>7, <1>11 DEF Replaced
<1> QED
  BY <1>4, <1>12, <1>15, <1>16, <1>17, <1>18 DEF Moved

\* The keys of D, without n where it was, or without r, which takes its place.
Cut(S, n, r) == IF n \in S THEN S \ {n} ELSE S \ {r}

\* The keys below the nodes after r has taken the place of n.
Without(D, n, r) == [m \in Node |-> IF m = n THEN {} ELSE IF m = r THEN D[n] \ {n} ELSE Cut(D[m], n, r)]

\* The child z of another node m on side e is now that of u; the keys below it are those
\* below z, cut.
ChildCut(u, t, D, E, n, r, x, m, e) ==
  /\ u[e][m] = IF t[e][m] = n THEN r ELSE IF t[e][m] = r THEN x ELSE t[e][m]
  /\ E[u[e][m]] = Cut(D[t[e][m]], n, r)
  /\ ChildOK(u, E, m, e, u[e][m])

\* That is so wherever r takes the place of n.
LEMMA ChildIsCut ==
  ASSUME NEW t, NEW D, NEW n, NEW s, NEW o, NEW c, NEW r, NEW x, NEW q, NEW p, NEW b,
         Removal(t, D, n, s, o, c, r, x, q, p, b),
         NEW u, Moved(u, t, n, s, o, c, r, x, q, p, b), Allocated(u) = Allocated(t) \ {n},
         NEW E, E = Without(D, n, r),
         NEW m \in Allocated(t), m # n, m # r, NEW e \in Sides
  PROVE  ChildCut(u, t, D, E, n, r, x, m, e)
<1> DEFINE z == t[e][m]
           y == u[e][m]
           A == Allocated(t)
<1>1. /\ Shape(t, D) /\ x = t[s][r] /\ q = t.parent[r] /\ p = t.parent[n]
      /\ D \in [Node -> SUBSET Keys] /\ D[NoNode] = {}
  BY DEF Removal, Shape
<1>2. /\ s \in Sides /\ o \in Sides /\ s # o /\ Other(s) = o
      /\ n \in Keys /\ r \in Keys /\ n # NoNode /\ r # n /\ r \in A /\ n \in A
      /\ n \in D[n] /\ r \in D[r] /\ n \notin D[c] /\ D[r] \subseteq D[c]
      /\ D[r] = {r} \cup D[x] /\ r \notin D[x]
      /\ x \in A \cup {NoNode} /\ (x # NoNode => x \in D[x] /\ t.parent[x] = r)
      /\ r = c <=> q = n
      /\ r # c => q \in A /\ t[o][q] = r
  BY RemovalLies
<1>3. /\ z \in A \cup {NoNode} /\ z \in Node /\ (z # NoNode => t.parent[z] = m /\ z \in D[z])
      /\ \A k \in D[z] : k \in Keys /\ Before(e, k, m)
  BY <1>1, ChildShape
<1>4. m \in Keys /\ r # NoNode /\ m # NoNode /\ x \in Node /\ x \notin {n, r} /\ r \in Node
  <2>1. x # n
    BY <1>2, KeysAreNodes
  <2> QED
    BY <1>1, <1>2, <2>1, NodeShape, KeysAreNodes DEF Allocated
<1> HIDE DEF A
<1>5. y = IF z = n THEN r ELSE IF z = r THEN x ELSE z
  <2>1. z = n => m = p
    BY <1>1, <1>2, <1>3
  <2>2. z = r => m = q /\ r # c
    BY <1>1, <1>2, <1>3, <1>4
  <2>3. CASE e = s
    <3>1. z # r
      <4> SUFFICES ASSUME z = r PROVE FALSE
        OBVIOUS
      <4>1. m = q /\ t[o][m] = r /\ t[s][m] = r
        BY <1>2, <2>2, <2>3
      <4>2. t[s][m] # NoNode => t[s][m] # t[o][m]
        BY <1>1, <1>2, ChildShape DEF A
      <4> QED
        BY <1>4, <4>1, <4>2
    <3>2. u[s][m] = IF m = p /\ t[s][m] = n THEN r ELSE t[s][m]
      BY <1>4 DEF Moved
    <3> QED
      BY <2>1, <2>3, <3>1, <3>2
  <2>4. CASE e = o
    <3>1. u[o][m] = IF m = p /\ t[o][m] = n THEN r ELSE IF r # c /\ m = q THEN x ELSE t[o][m]
      BY <1>4 DEF Moved
    <3> QED
      BY <1>2, <2>1, <2>2, <2>4, <3>1
  <2> QED
    BY <1>2, <2>3, <2>4 DEF Sides
<1> HIDE DEF z, y
<1>6. E[y] = Cut(D[z], n, r)
  <2>1. CASE z = n
    BY <1>1, <1>2, <1>4, <1>5, <2>1 DEF Without, Cut
  <2>2. CASE z = r
    <3>1. y = x /\ E[x] = Cut(D[x], n, r)
      BY <1>2, <1>4, <1>5, <2>2 DEF Without
    <3>2. Cut(D[x], n, r) = D[x] /\ Cut(D[r], n, r) = D[x]
      BY <1>2 DEF Cut
    <3> QED
      BY <2>2, <3>1, <3>2
  <2>3. CASE z # n /\ z # r
    BY <1>3, <1>5, <2>3 DEF Without
  <2> QED
    BY <2>1, <2>2, <2>3
<1>7. y \in (A \ {n}) \cup {NoNode} /\ (y # NoNode => u.parent[y] = m)
  <2>1. \A k \in Keys : u.parent[k] = IF k = n THEN 0 ELSE IF k = r THEN p ELSE IF k = b THEN r
                                      ELSE IF r # c /\ k = c THEN r ELSE IF r # c /\ k = x THEN q
                                      ELSE t.parent[k]
    BY DEF Moved
  <2>2. /\ c # NoNode => t.parent[c] = n
        /\ b # NoNode => t.parent[b] = n
        /\ c # NoNode
    BY RemovalLies DEF Removal
  <2>3. CASE z = n
    BY <1>1, <1>2, <1>3, <1>4, <1>5, <2>1, <2>3
  <2>4. CASE z = r
    <3>1. y = x /\ m = q /\ r # c
      BY <1>1, <1>2, <1>3, <1>4, <1>5, <2>4
    <3>2. x # NoNode => x \in Keys /\ x # n /\ x # r /\ x # b /\ x # c
      BY <1>2, <1>4, <2>2, KeysAreNodes
    <3> QED
      BY <1>2, <1>4, <2>1, <3>1, <3>2
  <2>5. CASE z # n /\ z # r
    <3>1. y = z /\ (z # NoNode => t.parent[z] = m /\ z \in Keys)
      BY <1>3, <1>5, <2>5, KeysAreNodes
    <3>2. z # NoNode => z # b /\ z # c /\ z # x
      BY <1>2, <2>2, <3>1
    <3> QED
      BY <1>3, <2>1, <2>5, <3>1, <3>2
  <2> QED
    BY <2>3, <2>4, <2>5
<1>8. \A k \in E[y] : Before(e, k, m)
  BY <1>3, <1>6 DEF Cut
<1>9. ChildOK(u, E, m, e, y)
  BY <1>7, <1>8 DEF ChildOK, y, A
<1> QED
  BY <1>5, <1>6, <1>9 DEF ChildCut, y, z

\* The parents of the other nodes know them.
LEMMA ParentIsRight ==
  ASSUME NEW t, NEW D, NEW n, NEW s, NEW o, NEW c, NEW r, NEW x, NEW q, NEW p, NEW b,
         Removal(t, D, n, s, o, c, r, x, q, p, b),
         NEW u, Moved(u, t, n, s, o, c, r, x, q, p, b), Allocated(u) = Allocated(t) \ {n},
         NEW m \in Allocated(t), m # n
  PROVE  ParentOK(u, m)
<1> DEFINE A == Allocated(t)
           y == u.parent[m]
<1>1. /\ Shape(t, D) /\ x = t[s][r] /\ q = t.parent[r] /\ p = t.parent[n] /\ t[o][r] = NoNode
      /\ c # NoNode /\ c = t[s][n] /\ b = t[o][n]
  BY DEF Removal
<1>2. /\ s \in Sides /\ o \in Sides /\ s # o
      /\ n \in Keys /\ r \in Keys /\ r # n /\ r \in A /\ p # n /\ p # r
      /\ (x # NoNode => t.parent[x] = r)
      /\ p \in A \cup {NoNode} /\ (p # NoNode => \E e \in Sides : t[e][p] = n)
      /\ r = c <=> q = n
      /\ r # c => q \in A /\ t[o][q] = r /\ q # r /\ q # p
  <2>1. p \notin D[n] /\ r \in D[c] /\ D[c] \subseteq D[n] /\ (r # c => q \in D[c])
    BY RemovalLies DEF Removal
  <2> QED
    BY <2>1, RemovalLies
<1>3. \A k \in A : k \in Keys /\ k # NoNode
  BY KeysAreNodes DEF Allocated
<1>4. /\ \A k \in Keys : u.parent[k] = IF k = n THEN 0 ELSE IF k = r THEN p ELSE IF k = b THEN r
                                   ELSE IF r # c /\ k = c THEN r ELSE IF r # c /\ k = x THEN q
                                   ELSE t.parent[k]
      /\ \A k \in Keys : u[s][k] = IF k = n THEN 0 ELSE IF k = r THEN (IF r = c THEN x ELSE c)
                               ELSE IF k = p /\ t[s][k] = n THEN r ELSE t[s][k]
      /\ \A k \in Keys : u[o][k] = IF k = n THEN 0 ELSE IF k = r THEN b
                               ELSE IF k = p /\ t[o][k] = n THEN r
                               ELSE IF r # c /\ k = q THEN x ELSE t[o][k]
  BY DEF Moved
<1>5. Allocated(u) = A \ {n}
  OBVIOUS
<1> HIDE DEF A
<1>6. CASE m = r
  <2>1. y = p
    BY <1>2, <1>4, <1>6
  <2>2. ASSUME p # NoNode PROVE \E e \in Sides : u[e][p] = r
    <3>1. PICK e \in Sides : t[e][p] = n
      BY <1>2, <2>2
    <3>2. p \in Keys /\ (e = s \/ e = o)
      BY <1>2, <1>3, <2>2 DEF Sides
    <3> QED
      BY <1>2, <1>4, <3>1, <3>2
  <2> HIDE DEF y
  <2> QED
    BY <1>2, <1>5, <1>6, <2>1, <2>2 DEF ParentOK, y
<1>7. CASE m # r /\ m = b
  <2>1. y = r /\ u[o][r] = b
    BY <1>2, <1>3, <1>4, <1>7 DEF A
  <2> QED
    BY <1>2, <1>5, <1>7, <2>1 DEF ParentOK
<1>8. CASE m # r /\ m # b /\ m = c
  <2>1. y = r /\ u[s][r] = c
    BY <1>2, <1>3, <1>4, <1>8 DEF A
  <2> QED
    BY <1>2, <1>5, <1>8, <2>1 DEF ParentOK
<1>9. CASE m # r /\ m # b /\ m # c /\ m = x
  <2>1. CASE r = c
    <3>1. y = r /\ u[s][r] = x
      BY <1>2, <1>3, <1>4, <1>9, <2>1 DEF A
    <3> QED
      BY <1>2, <1>5, <1>9, <3>1 DEF ParentOK
  <2>2. CASE r # c
    <3>1. y = q /\ q \in Keys /\ q # n
      BY <1>2, <1>3, <1>4, <1>9, <2>2 DEF A
    <3>2. u[o][q] = x
      BY <1>2, <1>4, <2>2, <3>1
    <3> QED
      BY <1>2, <1>5, <1>9, <2>2, <3>1, <3>2 DEF ParentOK
  <2> QED
    BY <2>1, <2>2
<1>10. CASE m \notin {r, b, c, x}
  <2> DEFINE w == t.parent[m]
  <2>1. y = w /\ m \in Keys /\ m # NoNode
    BY <1>3, <1>4, <1>10 DEF A
  <2>2. w \in A \cup {NoNode} /\ (w # NoNode => \E e \in Sides : t[e][w] = m)
    BY <1>1, NodeShape DEF A
  <2>3. ASSUME w # NoNode PROVE w # n /\ \E e \in Sides : u[e][w] = m
    <3>1. PICK e \in Sides : t[e][w] = m
      BY <2>2, <2>3
    <3>2. w \in Keys /\ (e = s \/ e = o)
      BY <1>2, <1>3, <2>2, <2>3 DEF Sides
    <3> HIDE DEF w
    <3>3. w # n /\ w # r
      BY <1>1, <1>10, <2>1, <3>1, <3>2
    <3>4. ~(r # c /\ w = q /\ e = o)
      BY <1>2, <1>10, <3>1
    <3>5. u[e][w] = m
      BY <1>4, <3>1, <3>2, <3>3, <3>4
    <3> QED
      BY <3>3, <3>5
  <2> HIDE DEF w, y
  <2> QED
    BY <1>5, <2>1, <2>2, <2>3 DEF ParentOK, y
<1> QED
  BY <1>6, <1>7, <1>8, <1>9, <1>10

\* The replacement keeps the shape; only the nodes from its old place upwards are stale.
LEMMA RemovedKeepsShape ==
  ASSUME NEW t, NEW D, NEW n, NEW s, NEW o, NEW c, NEW r, NEW x, NEW q, NEW p, NEW b,
         Removal(t, D, n, s, o, c, r, x, q, p, b),
         NEW u, Moved(u, t, n, s, o, c, r, x, q, p, b),
         NEW E, E = Without(D, n, r), NEW start, start = IF q = n THEN r ELSE q,
         AllFresh(t), t.root \in Allocated(t)
  PROVE  /\ Shape(u, E) /\ Allocated(u) = Allocated(t) \ {n} /\ u.size = t.size
         /\ u.root \in Allocated(u) /\ start \in Allocated(u) /\ FreshBut(u, E, start)
<1> DEFINE A == Allocated(t)
<1>1. /\ Shape(t, D) /\ x = t[s][r] /\ q = t.parent[r] /\ p = t.parent[n] /\ t[o][r] = NoNode
      /\ c # NoNode /\ c = t[s][n] /\ b = t[o][n] /\ t \in Tree
      /\ D \in [Node -> SUBSET Keys] /\ D[NoNode] = {} /\ \A k \in D[c] : k = r \/ Before(o, r, k)
  BY DEF Removal, Shape
<1>2. /\ s \in Sides /\ o \in Sides /\ s # o /\ Other(s) = o /\ Other(o) = s
      /\ n \in Keys /\ r \in Keys /\ c \in Keys /\ n # NoNode
      /\ r \in A /\ c \in A /\ n \in A /\ r # n /\ c # n /\ t.parent[c] = n
      /\ n \in D[n] /\ r \in D[r] /\ c \in D[c]
      /\ D[n] = {n} \cup D[c] \cup D[b] /\ D[c] \cap D[b] = {} /\ n \notin D[c] /\ n \notin D[b]
      /\ D[r] \subseteq D[c] /\ D[r] = {r} \cup D[x] /\ r \notin D[x]
      /\ x \in A \cup {NoNode} /\ (x # NoNode => x \in D[x] /\ t.parent[x] = r)
      /\ b \in A \cup {NoNode} /\ (b # NoNode => b \in D[b] /\ t.parent[b] = n)
      /\ p \notin D[n] /\ p # n
      /\ r = c <=> q = n
      /\ r # c => q \in D[c] /\ q \in A /\ q # NoNode /\ t[o][q] = r /\ q # r
  BY RemovalLies
<1>21. \A k \in A : k \in Keys /\ k \in Node /\ k # NoNode
  BY KeysAreNodes DEF Allocated
<1>22. NoNode \in Node /\ r \in D[c] /\ r # NoNode /\ D[c] \subseteq Keys /\ D[b] \subseteq Keys
  BY <1>1, <1>2, <1>21, KeysAreNodes
<1>3. /\ u \in Tree /\ u.size = t.size
      /\ t.root # n => u.root = t.root
      /\ t.root = n => u.root \in {t.left[n], t.right[n]} \ {NoNode}
      /\ \A m \in Keys : u.parent[m] = IF m = n THEN 0 ELSE IF m = r THEN p ELSE IF m = b THEN r
                                   ELSE IF r # c /\ m = c THEN r ELSE IF r # c /\ m = x THEN q
                                   ELSE t.parent[m]
      /\ \A m \in Keys : u[s][m] = IF m = n THEN 0 ELSE IF m = r THEN (IF r = c THEN x ELSE c)
                               ELSE IF m = p /\ t[s][m] = n THEN r ELSE t[s][m]
      /\ \A m \in Keys : u[o][m] = IF m = n THEN 0 ELSE IF m = r THEN b
                               ELSE IF m = p /\ t[o][m] = n THEN r
                               ELSE IF r # c /\ m = q THEN x ELSE t[o][m]
      /\ \A m \in Keys : /\ u.height[m] = IF m = n THEN 0 ELSE t.height[m]
                         /\ u.leftmost[m] = IF m = n THEN 0 ELSE t.leftmost[m]
                         /\ u.rightmost[m] = IF m = n THEN 0 ELSE t.rightmost[m]
  BY DEF Moved
<1>4. Allocated(u) = A \ {n}
  BY <1>3 DEF Allocated, NoNode
<1>5. /\ E \in [Node -> SUBSET Keys] /\ E[NoNode] = {} /\ E[n] = {} /\ E[r] = D[n] \ {n}
      /\ \A m \in Node : m # n /\ m # r => E[m] = Cut(D[m], n, r)
  BY <1>1, <1>2, <1>21, <1>22 DEF Without, Cut
<1>6. ASSUME NEW m \in Keys \ Allocated(u) PROVE NoFields(u, m) /\ E[m] = {}
  <2>1. CASE m = n
    <3>1. u[s][n] = 0 /\ u[o][n] = 0
      BY <1>2, <1>3
    <3>2. u.left[n] = 0 /\ u.right[n] = 0
      BY <1>2, <3>1 DEF Sides
    <3> QED
      BY <1>2, <1>3, <1>5, <2>1, <3>2 DEF NoFields
  <2>2. CASE m # n
    <3>1. m \in Keys /\ m \notin A /\ m \in Node /\ m # NoNode
      BY <1>4, <2>2, KeysAreNodes
    <3>2. NoFields(t, m) /\ D[m] = {}
      BY <1>1, <3>1 DEF Shape
    <3>3. m # r /\ m # x /\ m # c /\ m # b /\ m # p /\ (r # c => m # q)
      <4>1. p \in A \cup {NoNode}
        BY <1>1, <1>2, NodeShape
      <4> QED
        BY <1>2, <3>1, <4>1
    <3>4. u[s][m] = t[s][m] /\ u[o][m] = t[o][m]
      BY <1>3, <2>2, <3>1, <3>3
    <3>5. u.left[m] = t.left[m] /\ u.right[m] = t.right[m]
      BY <1>2, <3>4 DEF Sides
    <3>6. E[m] = {}
      BY <1>5, <2>2, <3>1, <3>2, <3>3 DEF Cut
    <3>7. /\ u.parent[m] = t.parent[m] /\ u.height[m] = t.height[m]
          /\ u.leftmost[m] = t.leftmost[m] /\ u.rightmost[m] = t.rightmost[m]
      BY <1>3, <2>2, <3>1, <3>3
    <3> QED
      BY <3>2, <3>5, <3>6, <3>7 DEF NoFields
  <2> QED
    BY <2>1, <2>2
<1> DEFINE a == IF r = c THEN x ELSE c
<1>7. ChildOK(u, E, r, s, a) /\ E[a] = D[c] \ {r}
  <2>1. a = u[s][r]
    BY <1>2, <1>3
  <2>2. a \in (A \ {n}) \cup {NoNode} /\ a # r /\ a \in Node /\ a # n
    <3>1. x # n /\ x # r
      BY <1>2, <1>21, <1>22
    <3> QED
      BY <1>2, <1>21, <1>22, <3>1
  <2>3. E[a] = D[c] \ {r}
    <3>1. E[a] = Cut(D[a], n, r)
      BY <1>5, <2>2
    <3>2. CASE r = c
      BY <1>2, <3>1, <3>2 DEF Cut
    <3>3. CASE r # c
      BY <1>2, <3>1, <3>3 DEF Cut
    <3> QED
      BY <3>2, <3>3
  <2>4. a # NoNode => u.parent[a] = r
    <3>1. CASE r = c
      <4>1. x # NoNode => x \in Keys /\ x # n /\ x # r /\ x # b
        BY <1>2, <1>21
      <4> QED
        BY <1>2, <1>3, <3>1, <4>1
    <3>2. CASE r # c
      BY <1>2, <1>3, <3>2
    <3> QED
      BY <3>1, <3>2
  <2>5. \A k \in E[a] : Before(s, k, r)
    <3> SUFFICES ASSUME NEW k \in D[c], k # r PROVE Before(s, k, r)
      BY <2>3
    <3>1. Before(o, r, k) /\ k \in Keys
      BY <1>1, <1>22
    <3> QED
      BY <1>2, <3>1, SidesOrder
  <2> HIDE DEF a
  <2> QED
    BY <1>4, <2>1, <2>2, <2>3, <2>4, <2>5 DEF ChildOK
<1>8. ChildOK(u, E, r, o, b) /\ E[b] = D[b]
  <2>1. b = u[o][r]
    BY <1>2, <1>3
  <2>2. b # n /\ b # r /\ b \in Node
    BY <1>2, <1>21, <1>22
  <2>3. E[b] = D[b]
    <3>1. r \notin D[b] /\ n \notin D[b]
      BY <1>2, <1>22
    <3>2. Cut(D[b], n, r) = D[b]
      BY <3>1 DEF Cut
    <3> QED
      BY <1>5, <2>2, <3>2
  <2>4. b # NoNode => u.parent[b] = r
    BY <1>2, <1>3, <1>21, <2>2
  <2>5. ASSUME NEW k \in D[b] PROVE Before(o, k, r)
    <3>1. Before(o, k, n) /\ k \in Keys
      BY <1>1, <1>2, ChildShape
    <3>2. Before(s, r, n)
      BY <1>1, <1>2, <1>22, ChildShape
    <3>3. Before(o, n, r)
      BY <1>2, <3>2, SidesOrder
    <3> QED
      BY <1>2, <3>1, <3>3, SidesOrder
  <2> QED
    BY <1>2, <1>4, <2>1, <2>2, <2>3, <2>4, <2>5 DEF ChildOK
<1> HIDE DEF a
<1>9. ASSUME NEW m \in A \ {n, r} PROVE Linked(u, E, m)
  <2>1. ChildCut(u, t, D, E, n, r, x, m, s) /\ ChildCut(u, t, D, E, n, r, x, m, o)
    BY <1>2, <1>4, ChildIsCut
  <2> DEFINE y == u[s][m]
             z == u[o][m]
  <2>2. /\ ChildOK(u, E, m, s, y) /\ E[y] = Cut(D[t[s][m]], n, r)
        /\ ChildOK(u, E, m, o, z) /\ E[z] = Cut(D[t[o][m]], n, r)
    BY <2>1 DEF ChildCut
  <2>3. ParentOK(u, m)
    BY <1>4, <1>9, ParentIsRight
  <2>4. D[m] = {m} \cup D[t[s][m]] \cup D[t[o][m]] /\ D[t[s][m]] \cap D[t[o][m]] = {}
    BY <1>1, <1>2, ChildShape
  <2>5. /\ n \in D[t[s][m]] => r \in D[t[s][m]]
        /\ n \in D[t[o][m]] => r \in D[t[o][m]]
    <3> SUFFICES ASSUME NEW e \in Sides, n \in D[t[e][m]] PROVE r \in D[t[e][m]]
      BY <1>2
    <3>1. t[e][m] \in A
      BY <1>1, ChildShape
    <3>2. D[n] \subseteq D[t[e][m]]
      BY <1>1, <3>1, BelowIsClosed
    <3> QED
      BY <1>2, <1>22, <3>2
  <2>6. E[m] = Cut(D[m], n, r)
    BY <1>5, <1>21
  <2>7. E[m] = {m} \cup E[y] \cup E[z]
    <3> HIDE DEF y, z
    <3> QED
      BY <2>2, <2>4, <2>5, <2>6 DEF Cut
  <2> HIDE DEF y, z
  <2> QED
    BY <1>2, <2>2, <2>3, <2>7, LinkedBySides
<1>10. Linked(u, E, r)
  <2>1. ParentOK(u, r)
    BY <1>2, <1>4, ParentIsRight
  <2>2. E[r] = {r} \cup E[a] \cup E[b]
    BY <1>2, <1>5, <1>7, <1>8, <1>22
  <2> QED
    BY <1>2, <1>7, <1>8, <2>1, <2>2, LinkedBySides
<1>11. \E top \in Allocated(u) : u.parent[top] = NoNode /\ E[top] = Allocated(u)
  <2>1. PICK top \in A : t.parent[top] = NoNode /\ D[top] = A
    BY <1>1, <1>2 DEF Shape
  <2>2. CASE top = n
    BY <1>1, <1>2, <1>3, <1>4, <1>5, <2>1, <2>2
  <2>3. CASE top # n
    <3>1. top # r /\ top \in Keys
      BY <1>1, <1>2, <1>21, <2>1
    <3>2. (b # NoNode => top # b) /\ top # c /\ (x # NoNode => top # x) /\ top # NoNode /\ top \in Node
      BY <1>2, <1>21, <1>22, <2>1
    <3>3. u.parent[top] = NoNode
      BY <1>3, <2>1, <2>3, <3>1, <3>2
    <3>4. E[top] = A \ {n}
      BY <1>2, <1>5, <2>1, <2>3, <3>1, <3>2 DEF Cut
    <3> QED
      BY <1>4, <2>3, <3>3, <3>4
  <2> QED
    BY <2>2, <2>3
<1>12. Shape(u, E)
  BY <1>3, <1>4, <1>5, <1>6, <1>9, <1>10, <1>11 DEF Shape
<1>13. start \in D[c] /\ start \in A /\ start # n /\ (r # c => start = q /\ q # r) /\ (r = c => start = r)
  BY <1>2, <1>22
<1>14. ASSUME NEW m \in A \ {n}, start \notin E[m] PROVE SameAround(u, t, m)
  <2>1. m # r
    BY <1>2, <1>5, <1>13, <1>14
  <2>2. E[m] = Cut(D[m], n, r) /\ m \in D[m]
    BY <1>1, <1>5, <1>21, <2>1, NodeShape
  <2>3. n \notin D[m]
    <3> SUFFICES ASSUME n \in D[m] PROVE FALSE
      OBVIOUS
    <3>1. D[n] \subseteq D[m]
      BY <1>1, BelowIsClosed
    <3> QED
      BY <1>2, <1>13, <1>14, <2>2, <3>1 DEF Cut
  <2>4. r # c => m # q
    BY <1>13, <1>14, <2>2, <2>3 DEF Cut
  <2>5. ASSUME NEW e \in Sides
        PROVE  u[e][m] = t[e][m] /\ t[e][m] # n /\ (t[e][m] # NoNode => t[e][m] \in Keys)
    <3>1. ChildCut(u, t, D, E, n, r, x, m, e)
      BY <1>4, <2>1, ChildIsCut
    <3>2. /\ t[e][m] \in A \cup {NoNode} /\ D[t[e][m]] \subseteq D[m]
          /\ t[e][m] # NoNode => t.parent[t[e][m]] = m
      BY <1>1, ChildShape
    <3>3. t[e][m] # n
      BY <1>2, <2>3, <3>2
    <3>4. t[e][m] # r
      BY <1>1, <1>2, <1>22, <2>4, <3>2
    <3> QED
      BY <1>21, <3>1, <3>2, <3>3, <3>4 DEF ChildCut
  <2>6. \A k \in Keys : k # n => /\ u.height[k] = t.height[k]
                                /\ \A e \in Sides : u[EndOf(e)][k] = t[EndOf(e)][k]
    BY <1>3 DEF Sides, EndOf
  <2>7. m \in Keys /\ m # n
    BY <1>21
  <2> QED
    BY <2>5, <2>6, <2>7 DEF SameAround
<1>15. FreshBut(u, E, start)
  <2> SUFFICES ASSUME NEW m \in A \ {n}, start \notin E[m] PROVE Fresh(u, m)
    BY <1>4 DEF FreshBut
  <2>1. SameAround(u, t, m) /\ Fresh(t, m)
    BY <1>14 DEF AllFresh
  <2> QED
    BY <2>1, SameAroundKeeps
<1>16. u.root \in Allocated(u)
  <2>1. {t.left[n], t.right[n]} = {c, b}
    BY <1>1, <1>2 DEF Sides
  <2>2. {c, b} \ {NoNode} \subseteq A \ {n}
    BY <1>2
  <2> QED
    BY <1>3, <1>4, <2>1, <2>2
<1> QED
  BY <1>3, <1>4, <1>12, <1>13, <1>15, <1>16

\* u is t without the leaf n, field by field.
LeafGone(u, t, n, p) ==
  /\ u \in Tree /\ u.size = t.size /\ u.root = IF t.root = n THEN NoNode ELSE t.root
  /\ \A m \in Keys : u.parent[m] = IF m = n THEN 0 ELSE t.parent[m]
  /\ \A e \in Sides, m \in Keys :
       u[e][m] = IF m = n THEN 0 ELSE IF m = p /\ t[e][m] = n THEN 0 ELSE t[e][m]
  /\ \A m \in Keys : /\ u.height[m] = IF m = n THEN 0 ELSE t.height[m]
                     /\ u.leftmost[m] = IF m = n THEN 0 ELSE t.leftmost[m]
                     /\ u.rightmost[m] = IF m = n THEN 0 ELSE t.rightmost[m]

\* That is what Removed makes of t before the walk, when there is no replacement.
LEMMA LeafGoneFields ==
  ASSUME NEW t \in Tree, NEW n \in Keys, t.left[n] = NoNode, t.right[n] = NoNode,
         NEW p, p = t.parent[n],
         NEW u, u = PutInPlace(TakeOut(LeaveRoot(t, n), n, NoNode), n, NoNode)
  PROVE  LeafGone(u, t, n, p)
<1> DEFINE t1     == LeaveRoot(t, n)
           linked == ReplaceChild(t1, p, n, NoNode)
<1>1. p \in Node /\ n \in Node /\ n # NoNode /\ NoNode \in Node
  BY FieldTypes, KeysAreNodes
<1>2. /\ t1 \in Tree /\ SameNodes(t1, t) /\ t1.size = t.size
      /\ t1.root = IF t.root = n THEN NoNode ELSE t.root
  <2>1. t1 = IF t.root # n THEN t ELSE [t EXCEPT !.root = NoNode]
    BY DEF LeaveRoot
  <2> HIDE DEF t1
  <2> QED
    BY <1>1, <2>1 DEF SameNodes, Tree
<1>3. TakeOut(t1, n, NoNode) = t1
  BY DEF TakeOut
<1> HIDE DEF t1
<1>4. u = Blanked(linked, n)
  <2>1. t1.left[n] = NoNode /\ t1.right[n] = NoNode /\ t1.parent[n] = p
    BY <1>2 DEF SameNodes
  <2>2. u = PutInPlace(t1, n, NoNode)
    BY <1>3 DEF t1
  <2> QED
    BY <2>1, <2>2 DEF PutInPlace, Blanked
<1>5. /\ linked \in Tree /\ SameCaches(linked, t1) /\ linked.parent = t1.parent
      /\ \A e \in Sides, m \in Keys : linked[e][m] = IF m = p /\ t1[e][m] = n THEN NoNode ELSE t1[e][m]
  <2>1. ChildReplaced(linked, t1, p, n, NoNode)
    BY <1>1, <1>2, SmallChanges
  <2> HIDE DEF linked
  <2> QED
    BY <2>1 DEF ChildReplaced
<1> HIDE DEF linked
<1>6. Deleted(u, linked, n)
  BY <1>4, <1>5, BlankFields
<1>7. \A e \in Sides : t1[e] = t[e]
  BY <1>2 DEF SameNodes, Sides
<1>8. ASSUME NEW e \in Sides, NEW m \in Keys
      PROVE  u[e][m] = IF m = n THEN 0 ELSE IF m = p /\ t[e][m] = n THEN 0 ELSE t[e][m]
  BY <1>5, <1>6, <1>7 DEF Deleted, NoNode
<1>9. \A m \in Keys : /\ u.parent[m] = IF m = n THEN 0 ELSE t.parent[m]
                      /\ u.height[m] = IF m = n THEN 0 ELSE t.height[m]
                      /\ u.leftmost[m] = IF m = n THEN 0 ELSE t.leftmost[m]
                      /\ u.rightmost[m] = IF m = n THEN 0 ELSE t.rightmost[m]
  BY <1>2, <1>5, <1>6 DEF Deleted, SameCaches, SameNodes
<1>10. u \in Tree /\ u.size = t.size /\ u.root = IF t.root = n THEN NoNode ELSE t.root
  BY <1>2, <1>5, <1>6 DEF Deleted, SameCaches
<1> QED
  BY <1>8, <1>9, <1>10 DEF LeafGone

\* The keys below the nodes without the leaf n.
Pruned(D, n) == [m \in Node |-> IF m = n THEN {} ELSE D[m] \ {n}]

\* Taking a leaf away keeps the shape; only the nodes above it are stale.
LEMMA LeafGoneKeepsShape ==
  ASSUME NEW t, NEW D, Shape(t, D), AllFresh(t), NEW n \in Allocated(t),
         t.left[n] = NoNode, t.right[n] = NoNode, NEW p, p = t.parent[n],
         NEW u, LeafGone(u, t, n, p), NEW E, E = Pruned(D, n)
  PROVE  /\ Shape(u, E) /\ Allocated(u) = Allocated(t) \ {n} /\ u.size = t.size
         /\ p \in Allocated(u) \cup {NoNode} /\ FreshBut(u, E, p)
         /\ p = NoNode => Allocated(u) = {}
<1> DEFINE A == Allocated(t)
<1>1. /\ D \in [Node -> SUBSET Keys] /\ D[NoNode] = {} /\ n \in Keys /\ n # NoNode /\ n \in Node
      /\ NoNode \in Node /\ p \in A \cup {NoNode} /\ D[n] = {n} /\ p # n
  <2>1. D[n] = {n} \cup D[t.left[n]] \cup D[t.right[n]] /\ D[NoNode] = {}
    BY NodeShape DEF Shape
  <2>2. p # n
    <3>1. p # NoNode => \E e \in Sides : t[e][p] = n
      BY NodeShape
    <3>2. t["left"][n] = NoNode /\ t["right"][n] = NoNode /\ n # NoNode
      BY NodeShape
    <3> QED
      BY <3>1, <3>2 DEF Sides
  <2> QED
    BY <2>1, <2>2, NodeShape, KeysAreNodes DEF Shape
<1>2. \A k \in A : k \in Keys /\ k \in Node /\ k # NoNode
  BY KeysAreNodes DEF Allocated
<1>3. /\ u \in Tree /\ u.size = t.size
      /\ \A m \in Keys : u.parent[m] = IF m = n THEN 0 ELSE t.parent[m]
      /\ \A e \in Sides, m \in Keys :
           u[e][m] = IF m = n THEN 0 ELSE IF m = p /\ t[e][m] = n THEN 0 ELSE t[e][m]
      /\ \A m \in Keys : /\ u.height[m] = IF m = n THEN 0 ELSE t.height[m]
                         /\ u.leftmost[m] = IF m = n THEN 0 ELSE t.leftmost[m]
                         /\ u.rightmost[m] = IF m = n THEN 0 ELSE t.rightmost[m]
  BY DEF LeafGone
<1>4. Allocated(u) = A \ {n}
  BY <1>3 DEF Allocated, NoNode
<1>5. E \in [Node -> SUBSET Keys] /\ E[NoNode] = {} /\ E[n] = {} /\ \A m \in Node : E[m] = D[m] \ {n}
  BY <1>1 DEF Pruned
<1> HIDE DEF A
<1>6. ASSUME NEW m \in Keys \ Allocated(u) PROVE NoFields(u, m) /\ E[m] = {}
  <2>1. CASE m = n
    <3>1. u["left"][n] = 0 /\ u["right"][n] = 0
      BY <1>1, <1>3 DEF Sides
    <3> QED
      BY <1>1, <1>3, <1>5, <2>1, <3>1 DEF NoFields
  <2>2. CASE m # n
    <3>1. m \in Keys /\ m \notin A /\ m \in Node /\ m # NoNode /\ m # p
      BY <1>1, <1>4, <2>2, KeysAreNodes
    <3>2. NoFields(t, m) /\ D[m] = {}
      BY <3>1 DEF Shape, A
    <3>3. u["left"][m] = t["left"][m] /\ u["right"][m] = t["right"][m]
      BY <1>3, <2>2, <3>1 DEF Sides
    <3> QED
      BY <1>3, <1>5, <2>2, <3>1, <3>2, <3>3 DEF NoFields
  <2> QED
    BY <2>1, <2>2
<1>7. ASSUME NEW m \in A, m # n, NEW e \in Sides
      PROVE  /\ u[e][m] = IF t[e][m] = n THEN NoNode ELSE t[e][m]
             /\ t[e][m] = n => m = p
             /\ ChildOK(u, E, m, e, u[e][m]) /\ E[u[e][m]] = D[t[e][m]] \ {n}
  <2> DEFINE z == t[e][m]
             y == u[e][m]
  <2>1. /\ z \in A \cup {NoNode} /\ z \in Node /\ (z # NoNode => t.parent[z] = m)
        /\ \A k \in D[z] : Before(e, k, m)
    BY ChildShape DEF A
  <2>2. z = n => m = p
    BY <1>1, <2>1
  <2>3. y = IF z = n THEN NoNode ELSE z
    BY <1>2, <1>3, <1>7, <2>2 DEF NoNode
  <2> HIDE DEF y, z
  <2>4. E[y] = D[z] \ {n}
    BY <1>1, <1>5, <2>1, <2>3
  <2>5. y # NoNode => u.parent[y] = m
    BY <1>2, <1>3, <2>1, <2>3
  <2>6. ChildOK(u, E, m, e, y)
    BY <1>4, <2>1, <2>3, <2>4, <2>5 DEF ChildOK, y
  <2> QED
    BY <2>2, <2>3, <2>4, <2>6 DEF y, z
<1>8. ASSUME NEW m \in A, m # n PROVE ParentOK(u, m)
  <2> DEFINE w == t.parent[m]
  <2>1. w \in A \cup {NoNode} /\ (w # NoNode => \E e \in Sides : t[e][w] = m)
    BY NodeShape DEF A
  <2>2. u.parent[m] = w
    BY <1>2, <1>3, <1>8
  <2>3. ASSUME w # NoNode PROVE w # n /\ \E e \in Sides : u[e][w] = m
    <3>1. PICK e \in Sides : t[e][w] = m
      BY <2>1, <2>3
    <3>2. t["left"][n] = NoNode /\ t["right"][n] = NoNode /\ m # NoNode
      BY <1>2
    <3> HIDE DEF w
    <3>3. w # n
      BY <3>1, <3>2 DEF Sides
    <3> QED
      BY <1>2, <1>7, <1>8, <2>1, <2>3, <3>1, <3>3
  <2> HIDE DEF w
  <2> QED
    BY <1>4, <2>1, <2>2, <2>3 DEF ParentOK
<1>9. ASSUME NEW m \in Allocated(u) PROVE Linked(u, E, m)
  <2>1. m \in A /\ m # n /\ m \in Node
    BY <1>2, <1>4
  <2>2. "left" \in Sides /\ "right" \in Sides /\ Other("left") = "right"
    BY DEF Sides, Other
  <2> DEFINE y == u["left"][m]
             z == u["right"][m]
  <2>3. /\ ChildOK(u, E, m, "left", y) /\ E[y] = D[t["left"][m]] \ {n}
        /\ ChildOK(u, E, m, "right", z) /\ E[z] = D[t["right"][m]] \ {n}
    BY <1>7, <2>1, <2>2
  <2>4. D[m] = {m} \cup D[t["left"][m]] \cup D[t["right"][m]]
    BY <2>1, <2>2, ChildShape DEF A
  <2>5. E[m] = {m} \cup E[y] \cup E[z]
    <3> HIDE DEF y, z
    <3> QED
      BY <1>5, <2>1, <2>3, <2>4
  <2>6. ParentOK(u, m)
    BY <1>8, <2>1
  <2> HIDE DEF y, z
  <2> QED
    BY <2>2, <2>3, <2>5, <2>6, LinkedBySides
<1>10. ASSUME Allocated(u) # {}
       PROVE  \E top \in Allocated(u) : u.parent[top] = NoNode /\ E[top] = Allocated(u)
  <2>1. PICK top \in A : t.parent[top] = NoNode /\ D[top] = A
    BY DEF Shape, A
  <2>2. top # n
    BY <1>1, <1>4, <1>10, <2>1
  <2> QED
    BY <1>2, <1>3, <1>4, <1>5, <2>1, <2>2
<1>11. Shape(u, E)
  BY <1>3, <1>5, <1>6, <1>9, <1>10 DEF Shape
<1>12. ASSUME NEW m \in A \ {n}, p \notin E[m] PROVE Fresh(u, m)
  <2>1. m # p
    <3>1. m \in D[m]
      BY NodeShape DEF A
    <3> QED
      BY <1>2, <1>5, <1>12, <3>1
  <2>2. ASSUME NEW e \in Sides
        PROVE  u[e][m] = t[e][m] /\ t[e][m] # n /\ (t[e][m] # NoNode => t[e][m] \in Keys)
    <3>1. t[e][m] \in A \cup {NoNode}
      BY ChildShape DEF A
    <3> QED
      BY <1>2, <1>7, <2>1, <3>1
  <2>3. \A k \in Keys : k # n => /\ u.height[k] = t.height[k]
                                /\ \A e \in Sides : u[EndOf(e)][k] = t[EndOf(e)][k]
    BY <1>3 DEF Sides, EndOf
  <2>4. SameAround(u, t, m)
    BY <1>2, <2>2, <2>3 DEF SameAround
  <2>5. Fresh(t, m)
    BY DEF AllFresh, A
  <2> QED
    BY <2>4, <2>5, SameAroundKeeps
<1>13. FreshBut(u, E, p)
  BY <1>4, <1>12 DEF FreshBut
<1>14. p = NoNode => Allocated(u) = {}
  <2> SUFFICES ASSUME p = NoNode PROVE Allocated(u) = {}
    OBVIOUS
  <2>1. D[n] = A
    BY OneTop DEF A
  <2> QED
    BY <1>1, <1>4, <2>1
<1> QED
  BY <1>1, <1>3, <1>4, <1>11, <1>13, <1>14 DEF A

\* In a tree without nodes there is nothing to walk through.
LEMMA NothingToWalk ==
  ASSUME NEW u \in Tree, u.root = NoNode
  PROVE  UpdateRoot(WalkUp(u, NoNode)) = u
<1> DEFINE w0 == [tree |-> u, at |-> NoNode, balanced |-> FALSE]
<1>1. PICK f : Solves(f, Walks, WalkStep, WalkDone, WalkOut) /\ WalkUp(u, NoNode) = f[w0]
  BY WalkIsLoop
<1>2. w0 \in Walks /\ w0.at = NoNode /\ w0.tree = u
  BY KeysAreNodes DEF Walks
<1> HIDE DEF w0
<1>3. w0 \in WalkDone /\ WalkOut[w0] = u
  BY <1>2 DEF WalkDone, WalkOut
<1>4. WalkUp(u, NoNode) = u
  BY <1>1, <1>2, <1>3 DEF Solves
<1>5. PICK g : Solves(g, Node, UpStep(u), UpDone(u), UpOut) /\ UpdateRoot(u) = [u EXCEPT !.root = g[u.root]]
  BY UpdateRootIsLoop
<1>6. g[NoNode] = NoNode
  BY <1>5, KeysAreNodes DEF Solves, UpDone, UpOut
<1> QED
  BY <1>4, <1>5, <1>6 DEF Tree

\* The walk and UpdateRoot after a node has been taken out of its place make a sound tree.
LEMMA WalkAfterRemoval ==
  ASSUME NEW u, NEW E, Shape(u, E), NEW start \in Allocated(u) \cup {NoNode}, FreshBut(u, E, start),
         IF Allocated(u) = {} THEN u.root = NoNode ELSE u.root \in Allocated(u),
         NEW v, v = UpdateRoot(WalkUp(u, start))
  PROVE  \E F : /\ Shape(v, F) /\ AllFresh(v) /\ Rooted(v)
                /\ Allocated(v) = Allocated(u) /\ v.size = u.size
<1>1. CASE Allocated(u) = {}
  <2>1. u.root = NoNode /\ start = NoNode /\ u \in Tree
    BY <1>1 DEF Shape
  <2>2. v = u
    BY <2>1, NothingToWalk
  <2>3. AllFresh(u) /\ Rooted(u)
    BY <1>1, <2>1 DEF AllFresh, Rooted
  <2> QED
    BY <2>2, <2>3
<1>2. CASE Allocated(u) # {}
  <2>1. u.root \in Allocated(u)
    BY <1>2
  <2>2. [tree |-> u, at |-> start, balanced |-> FALSE] \in Walks
    BY NodeShape, KeysAreNodes DEF Walks, Shape
  <2>3. \A w \in Walks : \A F : WalkOK(w, F, u) /\ w.at # NoNode => NextWalk(w) \in Walks
    BY NextWalkType
  <2>4. \E F : /\ Shape(v, F) /\ AllFresh(v) /\ Rooted(v)
               /\ Allocated(v) = Allocated(u) /\ v.size = u.size
               /\ \E w \in Walks : /\ w.at = NoNode /\ SameNodes(v, w.tree)
                                   /\ Allocated(w.tree) = Allocated(u)
    BY <2>1, <2>2, <2>3, WalkAndRoot
  <2> QED
    BY <2>4
<1> QED
  BY <1>1, <1>2

\* Removed makes a sound tree of a sound tree: that key is no longer in it.
LEMMA RemovedIsSound ==
  ASSUME NEW t, NEW D, Sound(t, D), NEW n \in Allocated(t), NEW new, new = Removed(t, n)
  PROVE  \E E : /\ Sound(new, E) /\ Allocated(new) = Allocated(t) \ {n}
                /\ new.size = t.size - 1
<1> DEFINE A == Allocated(t)
           r == Replacement(t, n)
           start == IF r = NoNode THEN t.parent[n]
                    ELSE IF t.parent[r] = n THEN r ELSE t.parent[r]
           u == PutInPlace(TakeOut(LeaveRoot(t, n), n, r), n, r)
           v == UpdateRoot(WalkUp(u, start))
<1>1. /\ Shape(t, D) /\ AllFresh(t) /\ Rooted(t) /\ t.size = Cardinality(A) /\ t \in Tree
      /\ n \in Keys /\ t.root \in A
  BY NodeShape DEF Sound, Shape, Rooted
<1>2. new = [v EXCEPT !.size = @ - 1]
  BY DEF Removed
<1>3. \E E : /\ Shape(u, E) /\ Allocated(u) = A \ {n} /\ u.size = t.size
             /\ start \in Allocated(u) \cup {NoNode} /\ FreshBut(u, E, start)
             /\ IF Allocated(u) = {} THEN u.root = NoNode ELSE u.root \in Allocated(u)
  <2>1. CASE t.left[n] = NoNode /\ t.right[n] = NoNode /\ r = NoNode
    <3> DEFINE p == t.parent[n]
    <3>1. start = p /\ u = PutInPlace(TakeOut(LeaveRoot(t, n), n, NoNode), n, NoNode)
      BY <2>1
    <3> HIDE DEF u, start, p, r
    <3>2. LeafGone(u, t, n, p)
      BY <1>1, <2>1, <3>1, LeafGoneFields DEF p
    <3>3. /\ Shape(u, Pruned(D, n)) /\ Allocated(u) = Allocated(t) \ {n} /\ u.size = t.size
          /\ p \in Allocated(u) \cup {NoNode} /\ FreshBut(u, Pruned(D, n), p)
          /\ p = NoNode => Allocated(u) = {}
      BY <1>1, <2>1, <3>2, LeafGoneKeepsShape DEF p
    <3>4. u.root = IF t.root = n THEN NoNode ELSE t.root
      BY <3>2 DEF LeafGone
    <3>5. IF Allocated(u) = {} THEN u.root = NoNode ELSE u.root \in Allocated(u)
      <4>1. CASE t.root = n
        <5>1. p = NoNode
          BY <1>1, <4>1, NodeShape DEF Rooted, p
        <5> QED
          BY <3>3, <3>4, <4>1, <5>1
      <4>2. CASE t.root # n
        BY <1>1, <3>3, <3>4, <4>2
      <4> QED
        BY <4>1, <4>2
    <3> QED
      BY <3>1, <3>3, <3>5
  <2>2. ASSUME NEW s \in Sides, t[s][n] # NoNode, r = t[EndOf(Other(s))][t[s][n]]
        PROVE  \E E : /\ Shape(u, E) /\ Allocated(u) = A \ {n} /\ u.size = t.size
                      /\ start \in Allocated(u) \cup {NoNode} /\ FreshBut(u, E, start)
                      /\ IF Allocated(u) = {} THEN u.root = NoNode ELSE u.root \in Allocated(u)
    <3> DEFINE o == Other(s)
               c == t[s][n]
               x == t[s][r]
               q == t.parent[r]
               p == t.parent[n]
               b == t[o][n]
    <3>1. o \in Sides /\ c \in A
      BY <1>1, <2>2, ChildShape DEF Sides, Other
    <3>2. r \in D[c] /\ t[o][r] = NoNode /\ \A m \in D[c] : m = r \/ Before(o, r, m)
      <4> HIDE DEF c, o, r
      <4>1. r = t[EndOf(o)][c]
        BY <2>2 DEF c, o
      <4> QED
        BY <1>1, <3>1, <4>1, EndsAreEnds
    <3>3. Removal(t, D, n, s, o, c, r, x, q, p, b)
      <4> HIDE DEF r
      <4> QED
        BY <1>1, <2>2, <3>2 DEF Removal
    <3>4. r # NoNode /\ start = IF q = n THEN r ELSE q
      <4>1. r \in Keys
        BY <3>3, RemovalLies
      <4> HIDE DEF r
      <4>2. r # NoNode
        BY <4>1, KeysAreNodes
      <4> QED
        BY <4>2
    <3> HIDE DEF o, c, x, q, p, b, r, start
    <3>5. Moved(u, t, n, s, o, c, r, x, q, p, b)
      BY <3>3, RemovedFields
    <3> HIDE DEF u
    <3>6. /\ Shape(u, Without(D, n, r)) /\ Allocated(u) = Allocated(t) \ {n} /\ u.size = t.size
          /\ u.root \in Allocated(u) /\ start \in Allocated(u) /\ FreshBut(u, Without(D, n, r), start)
      BY <1>1, <3>3, <3>4, <3>5, RemovedKeepsShape
    <3> QED
      BY <3>6
  <2>3. \/ t.left[n] = NoNode /\ t.right[n] = NoNode /\ r = NoNode
        \/ \E s \in Sides : t[s][n] # NoNode /\ r = t[EndOf(Other(s))][t[s][n]]
    BY <1>1, ReplacementIsNearest
  <2> HIDE DEF u, start, r, A
  <2> QED
    BY <2>1, <2>2, <2>3
<1> HIDE DEF u, start, A
<1>4. PICK E : /\ Shape(u, E) /\ Allocated(u) = A \ {n} /\ u.size = t.size
               /\ start \in Allocated(u) \cup {NoNode} /\ FreshBut(u, E, start)
               /\ IF Allocated(u) = {} THEN u.root = NoNode ELSE u.root \in Allocated(u)
  BY <1>3
<1>5. PICK F : /\ Shape(v, F) /\ AllFresh(v) /\ Rooted(v)
               /\ Allocated(v) = Allocated(u) /\ v.size = u.size
  BY <1>4, WalkAfterRemoval
<1> HIDE DEF v
<1>6. t.size \in Nat /\ t.size # 0 /\ Cardinality(A \ {n}) = t.size - 1
  <2>1. IsFiniteSet(A) /\ Cardinality(A) \in Nat /\ (Cardinality(A) = 0 <=> A = {})
    BY FewNodes DEF A
  <2>2. n \in A
    BY DEF A
  <2>3. Cardinality(A \ {n}) = Cardinality(A) - 1
    BY <2>1, <2>2, FS_RemoveElement
  <2> QED
    BY <1>1, <2>1, <2>2, <2>3
<1>7. v \in Tree /\ v.size = t.size
  BY <1>4, <1>5 DEF Shape
<1>8. /\ new \in Tree /\ SameNodes(new, v) /\ new.root = v.root /\ new.size = t.size - 1
  BY <1>2, <1>6, <1>7 DEF Tree, SameNodes
<1>9. Allocated(new) = Allocated(v) /\ Shape(new, F) /\ \A m : Fresh(v, m) => Fresh(new, m)
  BY <1>5, <1>8, SameNodesKeep
<1>10. AllFresh(new) /\ Rooted(new)
  BY <1>5, <1>8, <1>9 DEF AllFresh, Rooted, SameNodes
<1>11. Sound(new, F)
  BY <1>4, <1>5, <1>6, <1>8, <1>9, <1>10 DEF Sound
<1> QED
  BY <1>4, <1>5, <1>8, <1>9, <1>11 DEF A

\* Induction over the numbers, for a set of numbers.
LEMMA SetInduction ==
  ASSUME NEW P, 0 \in P, \A n \in Nat : n \in P => n + 1 \in P
  PROVE  \A n \in Nat : n \in P
<1> DEFINE Bad == {n \in Nat : n \notin P}
<1>1. SUFFICES ASSUME Bad # {} PROVE FALSE
  OBVIOUS
<1>2. PICK n \in Bad : \A m \in Bad : n <= m
  <2>1. Bad \subseteq Nat
    OBVIOUS
  <2> HIDE DEF Bad
  <2> QED
    BY <1>1, <2>1, LeastNumber
<1>3. n - 1 \in Nat /\ n - 1 < n /\ n \notin P /\ (n - 1) + 1 = n
  BY <1>2
<1>4. n - 1 \in P
  BY <1>2, <1>3
<1> QED
  BY <1>3, <1>4

---------------------------------------------------------------------------
(* Copying *)

\* Where an iterator that goes through t is.
Positions(t) == {Iterator(n) : n \in Allocated(t) \cup {NoNode}}
                  \cup {[at |-> NoNode, begin |-> NoNode, end |-> n] : n \in Allocated(t)}

\* The keys that the iterator has passed.
Passed(t, i) == {k \in Allocated(t) : i.at = NoNode \/ k < i.at}

\* The iterator goes on to the next key, and stays where it is after the last.
LEMMA AdvancePasses ==
  ASSUME NEW t, NEW D, Sound(t, D), NEW i \in Positions(t)
  PROVE  /\ Advance(t, i) \in Positions(t)
         /\ i.at = NoNode => Advance(t, i) = i
         /\ i.at # NoNode => /\ i.at \in Allocated(t) /\ i.at \notin Passed(t, i)
                             /\ Passed(t, Advance(t, i)) = Passed(t, i) \cup {i.at}
<1>1. Shape(t, D) /\ AllFresh(t)
  BY DEF Sound
<1>2. \A k \in Allocated(t) : k \in Nat /\ k # NoNode
  BY KeysAssumption, KeysAreNodes DEF Allocated
<1>3. CASE i.at = NoNode
  <2>1. i.begin = NoNode
    BY <1>2, <1>3 DEF Positions, Iterator
  <2> QED
    BY <1>3, <2>1 DEF Advance
<1>4. CASE i.at # NoNode
  <2>1. PICK n \in Allocated(t) : i = Iterator(n)
    BY <1>4 DEF Positions, Iterator
  <2>2. i.at = n
    BY <2>1 DEF Iterator
  <2> DEFINE x == Neighbour(t, n, "left")
             Later == {k \in Allocated(t) : n < k}
  <2>3. "left" \in Sides /\ Later = {k \in Allocated(t) : Before("left", n, k)}
    BY DEF Sides, Before
  <2>4. /\ Later = {} => x = NoNode
        /\ Later # {} => x \in Later /\ \A k \in Later : k = x \/ x < k
    BY <1>1, <2>3, NeighbourIsNext DEF Before
  <2>5. /\ x # NoNode => Advance(t, i) = Iterator(x)
        /\ x = NoNode => Advance(t, i) = [at |-> NoNode, begin |-> NoNode, end |-> n]
    BY <1>1, <2>1, IteratorSteps
  <2> HIDE DEF x
  <2>6. CASE Later = {}
    <3>1. Advance(t, i) = [at |-> NoNode, begin |-> NoNode, end |-> n]
      BY <2>4, <2>5, <2>6
    <3>2. Advance(t, i) \in Positions(t) /\ Advance(t, i).at = NoNode
      BY <3>1 DEF Positions
    <3>3. \A k \in Allocated(t) : k < n \/ k = n
      BY <1>2, <2>6
    <3> QED
      BY <1>2, <1>4, <2>2, <3>2, <3>3 DEF Passed
  <2>7. CASE Later # {}
    <3>1. x \in Allocated(t) /\ n < x /\ x # NoNode /\ \A k \in Later : k = x \/ x < k
      BY <1>2, <2>4, <2>7
    <3>2. Advance(t, i) = Iterator(x)
      BY <2>5, <3>1
    <3>3. Advance(t, i) \in Positions(t) /\ Advance(t, i).at = x
      BY <3>1, <3>2 DEF Positions, Iterator
    <3>4. \A k \in Allocated(t) : k < x <=> k < n \/ k = n
      BY <1>2, <3>1
    <3> QED
      BY <1>2, <1>4, <2>2, <3>1, <3>3, <3>4 DEF Passed
  <2> QED
    BY <2>6, <2>7
<1> QED
  BY <1>3, <1>4

\* After n steps the copy c has the keys that the iterator i has passed.
InStep(t, n, i, c) ==
  /\ n \in Nat /\ i \in Positions(t) /\ c \in Tree
  /\ \E E : Sound(c, E)
  /\ Allocated(c) = Passed(t, i)
  /\ i.at = NoNode \/ c.size = n

\* A tree without nodes is sound.
LEMMA EmptyIsSound ==
  Allocated(Empty) = {} /\ Empty \in Tree /\ Empty.size = 0 /\ \E E : Sound(Empty, E)
<1> DEFINE E == [m \in Node |-> {}]
<1>1. 0 \in Node /\ 0 \in Nat
  BY KeysAreNodes
<1>2. /\ Empty \in Tree /\ Empty.root = NoNode /\ Empty.size = 0
      /\ \A m \in Keys : /\ Empty.parent[m] = 0 /\ Empty.left[m] = 0 /\ Empty.right[m] = 0
                         /\ Empty.height[m] = 0 /\ Empty.leftmost[m] = 0 /\ Empty.rightmost[m] = 0
  BY <1>1 DEF Empty, Tree, Links, NoNode
<1>3. Allocated(Empty) = {}
  BY <1>2 DEF Allocated, NoNode
<1>4. Shape(Empty, E)
  BY <1>2, <1>3, KeysAreNodes DEF Shape, NoFields
<1>5. Cardinality({}) = 0
  BY FS_EmptySet
<1>6. Sound(Empty, E)
  BY <1>2, <1>3, <1>4, <1>5, KeysAreNodes DEF Sound, AllFresh, Rooted
<1> QED
  BY <1>2, <1>3, <1>6

\* One step of the copying.
CopyStep(t, i, c) == IF i.at = NoNode THEN c ELSE Added(c, i.at)

\* It keeps the copy in step with the iterator.
LEMMA CopyStepKeeps ==
  ASSUME NEW t, NEW D, Sound(t, D), NEW n, NEW i, NEW c, InStep(t, n, i, c)
  PROVE  InStep(t, n + 1, Advance(t, i), CopyStep(t, i, c))
<1>1. n \in Nat /\ n + 1 \in Nat /\ i \in Positions(t) /\ Allocated(c) = Passed(t, i)
  BY DEF InStep
<1>2. PICK E : Sound(c, E)
  BY DEF InStep
<1>3. CASE i.at = NoNode
  <2>1. Advance(t, i) = i /\ CopyStep(t, i, c) = c
    BY <1>1, <1>3, AdvancePasses DEF CopyStep
  <2> QED
    BY <1>1, <1>3, <2>1 DEF InStep
<1>4. CASE i.at # NoNode
  <2> DEFINE k == i.at
             new == CopyStep(t, i, c)
  <2>1. /\ Advance(t, i) \in Positions(t) /\ k \in Allocated(t) /\ k \notin Allocated(c)
        /\ Passed(t, Advance(t, i)) = Allocated(c) \cup {k} /\ c.size = n /\ k \in Keys
    BY <1>1, <1>4, AdvancePasses DEF InStep, Allocated
  <2>2. new = Added(c, k)
    BY <1>4 DEF CopyStep
  <2> HIDE DEF new, k
  <2>3. PICK F : Sound(new, F) /\ Allocated(new) = Allocated(c) \cup {k} /\ new.size = c.size + 1
    BY <1>2, <2>1, <2>2, AddedIsSound
  <2>4. new \in Tree
    BY <2>3 DEF Sound, Shape
  <2>5. InStep(t, n + 1, Advance(t, i), new)
    BY <1>1, <2>1, <2>3, <2>4 DEF InStep
  <2> QED
    BY <2>5 DEF new
<1> QED
  BY <1>3, <1>4

\* The copying goes through the whole tree in as many steps as there are keys.
LEMMA CopyIsComplete ==
  ASSUME NEW t, NEW D, Sound(t, D), NEW i, NEW c, InStep(t, Cardinality(Keys), i, c)
  PROVE  Allocated(c) = Allocated(t)
<1>1. CASE i.at = NoNode
  BY <1>1 DEF InStep, Passed
<1>2. CASE i.at # NoNode
  <2>1. i.at \in Allocated(t) /\ i.at \notin Passed(t, i) /\ Allocated(c) = Passed(t, i)
    BY <1>2, AdvancePasses DEF InStep
  <2>2. c.size = Cardinality(Allocated(c)) /\ c.size = Cardinality(Keys)
    BY <1>2 DEF InStep, Sound
  <2>3. Allocated(c) \subseteq Keys /\ i.at \in Keys
    BY <2>1 DEF Allocated
  <2>4. Cardinality(Allocated(c)) < Cardinality(Keys)
    BY <2>1, <2>3, KeysAssumption, FewerElements
  <2>5. Cardinality(Allocated(c)) \in Nat /\ Cardinality(Keys) \in Nat
    BY <2>1, <2>3, KeysAssumption, FewerElements
  <2> QED
    BY <2>2, <2>4, <2>5
<1> QED
  BY <1>1, <1>2

\* The copy of a sound tree is sound and has the same keys.
LEMMA CopiedIsSound ==
  ASSUME NEW t, NEW D, Sound(t, D), NEW new, new = Copied(t)
  PROVE  \E E : Sound(new, E) /\ Allocated(new) = Allocated(t) /\ new.size = t.size
<1> DEFINE at[n \in Nat]   == IF n = 0 THEN Begin(t) ELSE Advance(t, at[n - 1])
           copy[n \in Nat] == IF n = 0 THEN Empty
                              ELSE IF at[n - 1].at = NoNode THEN copy[n - 1]
                              ELSE Added(copy[n - 1], at[n - 1].at)
           S    == {w \in Nat \X Positions(t) \X Tree : InStep(t, w[1], w[2], w[3])}
           step == [w \in S |-> <<w[1] + 1, Advance(t, w[2]), CopyStep(t, w[2], w[3])>>]
           w0   == <<0, Begin(t), Empty>>
<1>1. new = copy[Cardinality(Keys)]
  BY DEF Copied
<1>2. w0 \in S
  <2>1. Begin(t) \in Positions(t) /\ Passed(t, Begin(t)) = {}
    <3>1. CASE Allocated(t) = {}
      <4>1. t.root = NoNode
        BY <3>1 DEF Sound, Rooted
      <4> QED
        BY <3>1, <4>1 DEF Begin, First, Positions, Passed
    <3>2. CASE Allocated(t) # {}
      <4>1. First(t) \in Allocated(t) /\ \A k \in Allocated(t) : First(t) <= k
        BY <3>2, FirstAndLast
      <4>2. \A k \in Allocated(t) : k \in Nat /\ k # NoNode
        BY KeysAssumption, KeysAreNodes DEF Allocated
      <4>3. Begin(t).at = First(t)
        BY DEF Begin, Iterator
      <4>4. Begin(t) \in Positions(t)
        BY <4>1 DEF Begin, Positions
      <4> HIDE DEF w0
      <4> QED
        BY <4>1, <4>2, <4>3, <4>4 DEF Passed
    <3> QED
      BY <3>1, <3>2
  <2>2. InStep(t, 0, Begin(t), Empty)
    BY <2>1, EmptyIsSound DEF InStep
  <2> QED
    BY <2>1, <2>2, EmptyIsSound
<1>3. step \in [S -> S]
  <2> SUFFICES ASSUME NEW w \in S
               PROVE  <<w[1] + 1, Advance(t, w[2]), CopyStep(t, w[2], w[3])>> \in S
    OBVIOUS
  <2>1. InStep(t, w[1] + 1, Advance(t, w[2]), CopyStep(t, w[2], w[3]))
    BY CopyStepKeeps
  <2> QED
    BY <2>1 DEF InStep
<1>4. PICK f \in [Nat -> S] : f[0] = w0 /\ \A n \in Nat : f[n + 1] = step[f[n]]
  <2> HIDE DEF S, step, w0
  <2> QED
    BY <1>2, <1>3, NatRecursion
<1>5. /\ f[0][1] = 0 /\ f[0][2] = Begin(t) /\ f[0][3] = Empty
      /\ \A n \in Nat : /\ f[n + 1][1] = f[n][1] + 1 /\ f[n + 1][2] = Advance(t, f[n][2])
                        /\ f[n + 1][3] = CopyStep(t, f[n][2], f[n][3])
                        /\ InStep(t, f[n][1], f[n][2], f[n][3])
  <2>1. f[0][1] = 0 /\ f[0][2] = Begin(t) /\ f[0][3] = Empty
    BY <1>4
  <2>2. ASSUME NEW n \in Nat
        PROVE  /\ f[n + 1][1] = f[n][1] + 1 /\ f[n + 1][2] = Advance(t, f[n][2])
               /\ f[n + 1][3] = CopyStep(t, f[n][2], f[n][3])
               /\ InStep(t, f[n][1], f[n][2], f[n][3])
    <3>1. f[n] \in S /\ f[n + 1] = step[f[n]]
      <4> HIDE DEF S, step, w0
      <4> QED
        BY <1>4
    <3>2. f[n + 1] = <<f[n][1] + 1, Advance(t, f[n][2]), CopyStep(t, f[n][2], f[n][3])>>
      <4> HIDE DEF S
      <4> QED
        BY <3>1
    <3> QED
      BY <3>1, <3>2
  <2> QED
    BY <2>1, <2>2
<1> HIDE DEF S, step, w0
<1>6. \A n \in Nat : n # 0 => n - 1 \in Nat /\ (n - 1) + 1 = n
  OBVIOUS
<1>7. at = [n \in Nat |-> IF n = 0 THEN Begin(t) ELSE Advance(t, at[n - 1])]
  <2> DEFINE g == [n \in Nat |-> f[n][2]]
  <2>1. g = [n \in Nat |-> IF n = 0 THEN Begin(t) ELSE Advance(t, g[n - 1])]
    BY <1>5, <1>6
  <2> HIDE DEF g
  <2>2. \E h : h = [n \in Nat |-> IF n = 0 THEN Begin(t) ELSE Advance(t, h[n - 1])]
    BY <2>1
  <2> QED
    BY <2>2, Zenon
<1> HIDE DEF at
<1>8. \A n \in Nat : at[n] = f[n][2]
  <2> DEFINE P == {n \in Nat : at[n] = f[n][2]}
  <2>1. at[0] = Begin(t) /\ \A n \in Nat : at[n + 1] = Advance(t, at[n])
    BY <1>7
  <2>2. 0 \in P /\ \A n \in Nat : n \in P => n + 1 \in P
    BY <1>5, <2>1
  <2>3. \A n \in Nat : n \in P
    <3> HIDE DEF P
    <3> QED
      BY <2>2, SetInduction
  <2> QED
    BY <2>3
<1>9. copy = [n \in Nat |-> IF n = 0 THEN Empty ELSE IF at[n - 1].at = NoNode THEN copy[n - 1]
                            ELSE Added(copy[n - 1], at[n - 1].at)]
  <2> DEFINE g == [n \in Nat |-> f[n][3]]
  <2>1. g = [n \in Nat |-> IF n = 0 THEN Empty ELSE IF at[n - 1].at = NoNode THEN g[n - 1]
                           ELSE Added(g[n - 1], at[n - 1].at)]
    BY <1>5, <1>6, <1>8 DEF CopyStep
  <2> HIDE DEF g
  <2>2. \E h : h = [n \in Nat |-> IF n = 0 THEN Empty ELSE IF at[n - 1].at = NoNode THEN h[n - 1]
                                  ELSE Added(h[n - 1], at[n - 1].at)]
    BY <2>1
  <2> QED
    BY <2>2, Zenon
<1> HIDE DEF copy
<1>10. \A n \in Nat : copy[n] = f[n][3] /\ f[n][1] = n
  <2> DEFINE P == {n \in Nat : copy[n] = f[n][3] /\ f[n][1] = n}
  <2>1. copy[0] = Empty /\ \A n \in Nat : copy[n + 1] = CopyStep(t, at[n], copy[n])
    BY <1>9 DEF CopyStep
  <2>2. 0 \in P /\ \A n \in Nat : n \in P => n + 1 \in P
    BY <1>5, <1>8, <2>1
  <2>3. \A n \in Nat : n \in P
    <3> HIDE DEF P
    <3> QED
      BY <2>2, SetInduction
  <2> QED
    BY <2>3
<1> DEFINE N == Cardinality(Keys)
<1>11. N \in Nat
  BY KeysAssumption, FS_CardinalityType
<1> HIDE DEF N
<1>12. InStep(t, N, f[N][2], new)
  BY <1>1, <1>5, <1>10, <1>11 DEF N
<1>13. Allocated(new) = Allocated(t)
  BY <1>12, CopyIsComplete DEF N
<1>14. PICK E : Sound(new, E)
  BY <1>12 DEF InStep
<1>15. new.size = t.size
  BY <1>13, <1>14 DEF Sound
<1> QED
  BY <1>13, <1>14, <1>15

---------------------------------------------------------------------------
(* Every operation *)

\* The inductive invariant: links, order, caches, root and size agree on some tree.
TreeOK == \E D : Sound(tree, D)

\* What an operation does to the keys, to the size and to the balance.
Changes(old, new) ==
  \/ \E k \in Keys : /\ k \notin Allocated(old) /\ Allocated(new) = Allocated(old) \cup {k}
                     /\ BalancedTree(old) => BalancedTree(new)
  \/ \E k \in Allocated(old) : Allocated(new) = Allocated(old) \ {k} /\ new.size <= old.size
  \/ Allocated(new) = {} /\ new.size <= old.size
  \/ Allocated(new) = Allocated(old) /\ new.size <= old.size

\* Every operation keeps the invariant.
LEMMA TreeStep ==
  ASSUME TreeOK, TreeNext
  PROVE  TreeOK' /\ Changes(tree, tree')
<1>1. PICK D : Sound(tree, D)
  BY DEF TreeOK
<1>2. /\ \A k \in Keys : Contains(tree, k) <=> k \in Allocated(tree)
      /\ tree.size \in Nat /\ Allocated(tree) \subseteq Keys
  BY <1>1, SearchIsExact DEF Sound, Shape, Tree, Allocated
<1>3. ASSUME NEW k \in Keys, Add(k) PROVE TreeOK' /\ Changes(tree, tree')
  <2>1. k \notin Allocated(tree) /\ tree' = Added(tree, k)
    BY <1>2, <1>3 DEF Add
  <2>2. PICK E : /\ Sound(tree', E) /\ Allocated(tree') = Allocated(tree) \cup {k}
                 /\ (BalancedTree(tree) => BalancedTree(tree'))
    BY <1>1, <2>1, AddedIsSound
  <2> QED
    BY <2>1, <2>2 DEF TreeOK, Changes
<1>4. ASSUME NEW k \in Keys, Remove(k) PROVE TreeOK' /\ Changes(tree, tree')
  <2>1. k \in Allocated(tree) /\ tree' = Removed(tree, k)
    BY <1>2, <1>4 DEF Remove
  <2>2. PICK E : Sound(tree', E) /\ Allocated(tree') = Allocated(tree) \ {k} /\ tree'.size = tree.size - 1
    BY <1>1, <2>1, RemovedIsSound
  <2> QED
    BY <1>2, <2>1, <2>2 DEF TreeOK, Changes
<1>5. ASSUME ClearTree PROVE TreeOK' /\ Changes(tree, tree')
  <2>1. tree' = Empty
    BY <1>5 DEF ClearTree
  <2>2. PICK E : Sound(tree', E) /\ Allocated(tree') = {} /\ tree'.size = 0
    BY <2>1, EmptyIsSound
  <2> QED
    BY <1>2, <2>2 DEF TreeOK, Changes
<1>6. ASSUME Copy PROVE TreeOK' /\ Changes(tree, tree')
  <2>1. tree' = Copied(tree)
    BY <1>6 DEF Copy
  <2>2. PICK E : Sound(tree', E) /\ Allocated(tree') = Allocated(tree) /\ tree'.size = tree.size
    BY <1>1, <2>1, CopiedIsSound
  <2> QED
    BY <1>2, <2>2 DEF TreeOK, Changes
<1> QED
  BY <1>3, <1>4, <1>5, <1>6 DEF TreeNext

\* The invariant holds, and every step is one of those changes.
LEMMA TreeInvariant == TreeSpec => []TreeOK /\ [][TreeOK /\ Changes(tree, tree')]_tree
<1>1. TreeInit => TreeOK
  BY EmptyIsSound DEF TreeInit, TreeOK
<1>2. TreeOK /\ [TreeNext]_tree => TreeOK'
  BY TreeStep DEF TreeOK
<1>3. TreeOK /\ [TreeNext]_tree => [TreeOK /\ Changes(tree, tree')]_tree
  BY TreeStep
<1> QED
  BY <1>1, <1>2, <1>3, PTL DEF TreeSpec

\* Whatever was added, removed, cleared and copied in whatever order, the tree is sound.
THEOREM TreeStaysSound == TreeSpec => []TreeIsSound
<1>1. TreeOK => TreeIsSound
  BY SoundTreeIsSound DEF TreeOK
<1> QED
  BY <1>1, TreeInvariant, PTL

\* Every call changes the set of keys as it should: what is found afterwards is what was found
\* before and the key that was added, or without the one that was removed, nothing, or the same.
LEMMA CallsAreExact ==
  ASSUME TreeOK
  PROVE  /\ \A k \in Keys : (Add(k) => Items!Add(k)) /\ (Remove(k) => Items!Remove(k))
         /\ (ClearTree => Items!Clear) /\ (Copy => Items!Copy)
<1>1. PICK D : Sound(tree, D)
  BY DEF TreeOK
<1>2. /\ \A k \in Keys : Contains(tree, k) <=> k \in Allocated(tree)
      /\ Contents(tree) = Allocated(tree)
  BY <1>1, SearchIsExact DEF Sound
<1>3. ASSUME NEW E, Sound(tree', E) PROVE Contents(tree)' = Allocated(tree')
  <2>1. Contents(tree') = Allocated(tree')
    BY <1>3, SearchIsExact DEF Sound
  <2> QED
    BY <2>1
<1>4. ASSUME NEW k \in Keys, Add(k) PROVE Items!Add(k)
  <2>1. k \notin Allocated(tree) /\ tree' = Added(tree, k)
    BY <1>2, <1>4 DEF Add
  <2>2. PICK E : Sound(tree', E) /\ Allocated(tree') = Allocated(tree) \cup {k}
    BY <1>1, <2>1, AddedIsSound
  <2> QED
    BY <1>2, <1>3, <2>1, <2>2 DEF Items!Add
<1>5. ASSUME NEW k \in Keys, Remove(k) PROVE Items!Remove(k)
  <2>1. k \in Allocated(tree) /\ tree' = Removed(tree, k)
    BY <1>2, <1>5 DEF Remove
  <2>2. PICK E : Sound(tree', E) /\ Allocated(tree') = Allocated(tree) \ {k} /\ tree'.size = tree.size - 1
    BY <1>1, <2>1, RemovedIsSound
  <2> QED
    BY <1>2, <1>3, <2>1, <2>2 DEF Items!Remove
<1>6. ASSUME ClearTree PROVE Items!Clear
  <2>1. tree' = Empty
    BY <1>6 DEF ClearTree
  <2>2. PICK E : Sound(tree', E) /\ Allocated(tree') = {} /\ tree'.size = 0
    BY <2>1, EmptyIsSound
  <2> QED
    BY <1>3, <2>2 DEF Items!Clear
<1>7. ASSUME Copy PROVE Items!Copy
  <2>1. tree' = Copied(tree)
    BY <1>7 DEF Copy
  <2>2. PICK E : Sound(tree', E) /\ Allocated(tree') = Allocated(tree) /\ tree'.size = tree.size
    BY <1>1, <2>1, CopiedIsSound
  <2> QED
    BY <1>2, <1>3, <2>2 DEF Items!Copy
<1> QED
  BY <1>4, <1>5, <1>6, <1>7

\* The tree implements a set of keys, call by call: Add makes the search find exactly the key
\* that is added, Remove makes it miss exactly the one that is removed, Clear leaves nothing,
\* and a copy has the same keys.
THEOREM TreeImplementsKeySet == TreeSpec => ImplementsKeySet
<1> DEFINE Exact == tree' # tree =>
      /\ \A k \in Keys : (Items!Add(k) \/ ~Add(k)) /\ (Items!Remove(k) \/ ~Remove(k))
      /\ (Items!Clear \/ ~ClearTree) /\ (Items!Copy \/ ~Copy)
<1>1. TreeInit => Items!Init
  BY EmptyIsSound, SearchIsExact DEF TreeInit, Items!Init, Sound
<1>2. TreeOK => Exact
  BY CallsAreExact
<1>3. TreeNext /\ tree' # tree /\ Exact => Items!Next
  BY DEF TreeNext, Items!Next
<1> HIDE DEF Exact
<1>4. TreeOK /\ [TreeNext]_tree => [Items!Next]_(Contents(tree)) /\ [Exact]_tree
  <2> SUFFICES ASSUME TreeOK, [TreeNext]_tree PROVE [Items!Next]_(Contents(tree)) /\ [Exact]_tree
    OBVIOUS
  <2>1. CASE UNCHANGED tree
    BY <2>1
  <2>2. CASE TreeNext /\ tree' # tree
    BY <1>2, <1>3, <2>2
  <2> QED
    BY <2>1, <2>2
<1>5. TreeSpec => []TreeOK
  BY TreeInvariant, PTL
<1>6. TreeSpec => Items!Spec /\ [][Exact]_tree
  BY <1>1, <1>4, <1>5, PTL DEF TreeSpec, Items!Spec
<1> QED
  BY <1>6 DEF ImplementsKeySet, Exact

\* Add leaves a balanced tree balanced.
THEOREM AddLeavesBalance == TreeSpec => AddKeepsBalance
<1>1. ASSUME TreeOK, TreeOK', Changes(tree, tree')
      PROVE  TreeIsBalanced /\ tree.size < tree'.size => TreeIsBalanced'
  <2> SUFFICES ASSUME TreeIsBalanced, tree.size < tree'.size PROVE TreeIsBalanced'
    OBVIOUS
  <2>1. tree.size \in Nat /\ tree'.size \in Nat
    <3>1. PICK D : Sound(tree, D)
      BY <1>1 DEF TreeOK
    <3>2. PICK E : Sound(tree', E)
      BY <1>1 DEF TreeOK
    <3> QED
      BY <3>1, <3>2 DEF Sound, Shape, Tree
  <2>2. BalancedTree(tree)
    BY DEF TreeIsBalanced, BalancedTree
  <2>3. BalancedTree(tree')
    <3>1. ~(tree'.size <= tree.size) /\ Changes(tree, tree')
      BY <1>1, <2>1
    <3>2. \E k \in Keys : BalancedTree(tree) => BalancedTree(tree')
      BY <3>1 DEF Changes
    <3> QED
      BY <2>2, <3>2
  <2> QED
    BY <2>3 DEF TreeIsBalanced, BalancedTree
<1> QED
  BY <1>1, TreeInvariant, PTL DEF AddKeepsBalance

---------------------------------------------------------------------------
(* Walks *)

\* A walk in the state w adds the point that it is at to those it met, and goes on.
Strides(C, X)         == [at : C, met : Seq(X)]
Strode(w, point, nxt) == [at |-> nxt[w.at], met |-> Append(w.met, point[w.at])]
Stride(C, X, Stop, point, nxt) ==
  [w \in Strides(C, X) |-> IF w.at \in Stop THEN w ELSE Strode(w, point, nxt)]
Stopped(C, X, Stop) == {w \in Strides(C, X) : w.at \in Stop}
MetBy(C, X)         == [w \in Strides(C, X) |-> w.met]

\* R orders P, strictly.
Orders(P, R) == /\ \A p \in P : <<p, p>> \notin R
                /\ \A p, q, r \in P : <<p, q>> \in R /\ <<q, r>> \in R => <<p, r>> \in R
                /\ \A p, q \in P : p = q \/ <<p, q>> \in R \/ <<q, p>> \in R

\* From every cursor that is at a point of P the walk goes to the next one, or stops
\* after the last; it starts at the first one.
GoesOn(P, R, C, Stop, point, nxt) ==
  \A c \in C : c \notin Stop =>
    /\ point[c] \in P /\ nxt[c] \in C
    /\ IF nxt[c] \in Stop THEN \A p \in P : p = point[c] \/ <<p, point[c]>> \in R
       ELSE /\ <<point[c], point[nxt[c]]>> \in R
            /\ \A p \in P : <<point[c], p>> \in R => p = point[nxt[c]] \/ <<point[nxt[c]], p>> \in R

StartsAt(P, R, Stop, point, c) ==
  IF c \in Stop THEN P = {} ELSE \A p \in P : p = point[c] \/ <<point[c], p>> \in R

\* Where a walk is: it has met all points before the one it is at, in their order.
WalkMet(P, R, C, Stop, point, w) ==
  /\ w.at \in C /\ w.met \in Seq(P) /\ Rises(w.met, R)
  /\ Occurring(w.met) = {p \in P : w.at \in Stop \/ <<p, point[w.at]>> \in R}

\* A longer sequence.
LEMMA AppendMeets ==
  ASSUME NEW P, NEW R, NEW q \in Seq(P), NEW p \in P, Rises(q, R),
         \A x \in Occurring(q) : <<x, p>> \in R
  PROVE  /\ Append(q, p) \in Seq(P) /\ Rises(Append(q, p), R)
         /\ Occurring(Append(q, p)) = Occurring(q) \cup {p}
<1> DEFINE a == Append(q, p)
           n == Len(q)
<1>1. /\ n \in Nat /\ DOMAIN q = 1 .. n /\ DOMAIN a = 1 .. n + 1 /\ a \in Seq(P)
      /\ a[n + 1] = p /\ \A i \in 1 .. n : a[i] = q[i]
  OBVIOUS
<1> HIDE DEF a, n
<1>2. \A i \in 1 .. n + 1 : i \in 1 .. n \/ i = n + 1
  BY <1>1
<1>3. Occurring(a) = Occurring(q) \cup {p}
  BY <1>1, <1>2 DEF Occurring
<1>4. ASSUME NEW i \in 1 .. n + 1, NEW j \in 1 .. n + 1, i < j PROVE <<a[i], a[j]>> \in R
  <2>1. i \in 1 .. n
    BY <1>1, <1>4
  <2>2. CASE j = n + 1
    BY <1>1, <2>1, <2>2 DEF Occurring
  <2>3. CASE j \in 1 .. n
    BY <1>1, <1>4, <2>1, <2>3 DEF Rises
  <2> QED
    BY <1>2, <2>2, <2>3
<1>5. Rises(a, R)
  BY <1>1, <1>4 DEF Rises
<1> QED
  BY <1>1, <1>3, <1>5 DEF a

\* One stride keeps that, and has met one point more.
LEMMA StrideMeets ==
  ASSUME NEW P, NEW R, NEW C, NEW Stop, NEW point, NEW nxt, Orders(P, R),
         GoesOn(P, R, C, Stop, point, nxt), NEW w, WalkMet(P, R, C, Stop, point, w), w.at \notin Stop
  PROVE  /\ WalkMet(P, R, C, Stop, point, Strode(w, point, nxt))
         /\ point[w.at] \in P /\ point[w.at] \notin Occurring(w.met)
         /\ Occurring(Strode(w, point, nxt).met) = Occurring(w.met) \cup {point[w.at]}
<1> DEFINE v == Strode(w, point, nxt)
           c == w.at
           p == point[c]
           d == nxt[c]
<1>1. /\ c \in C /\ p \in P /\ d \in C /\ w.met \in Seq(P) /\ Rises(w.met, R)
      /\ Occurring(w.met) = {x \in P : <<x, p>> \in R}
  BY DEF WalkMet, GoesOn
<1>2. v.at = d /\ v.met = Append(w.met, p)
  BY DEF Strode
<1>3. IF d \in Stop THEN \A x \in P : x = p \/ <<x, p>> \in R
      ELSE /\ <<p, point[d]>> \in R
           /\ \A x \in P : <<p, x>> \in R => x = point[d] \/ <<point[d], x>> \in R
  BY <1>1 DEF GoesOn
<1>8. d \notin Stop => point[d] \in P
  BY <1>1 DEF GoesOn
<1> HIDE DEF c, p, d, v
<1>4. /\ v.met \in Seq(P) /\ Rises(v.met, R) /\ Occurring(v.met) = Occurring(w.met) \cup {p}
  BY <1>1, <1>2, AppendMeets
<1>5. p \notin Occurring(w.met)
  BY <1>1 DEF Orders
<1>6. Occurring(v.met) = {x \in P : d \in Stop \/ <<x, point[d]>> \in R}
  <2>1. CASE d \in Stop
    BY <1>1, <1>3, <1>4, <2>1
  <2>2. CASE d \notin Stop
    <3>1. \A x \in P : <<x, point[d]>> \in R <=> (<<x, p>> \in R \/ x = p)
      BY <1>1, <1>3, <1>8, <2>2 DEF Orders
    <3> QED
      BY <1>1, <1>4, <2>2, <3>1
  <2> QED
    BY <2>1, <2>2
<1>7. WalkMet(P, R, C, Stop, point, v)
  BY <1>1, <1>2, <1>4, <1>6 DEF WalkMet
<1> QED
  BY <1>1, <1>4, <1>5, <1>7 DEF c, p, v

\* A walk comes to an end, and has then met all points in their order.
LEMMA WalkMeetsAll ==
  ASSUME NEW P, IsFiniteSet(P), NEW R, NEW C, NEW Stop, NEW point, NEW nxt, NEW X, P \subseteq X,
         Orders(P, R), GoesOn(P, R, C, Stop, point, nxt), NEW c \in C, StartsAt(P, R, Stop, point, c),
         NEW go, Solves(go, Strides(C, X), Stride(C, X, Stop, point, nxt), Stopped(C, X, Stop), MetBy(C, X)),
         NEW q, q = go[[at |-> c, met |-> <<>>]]
  PROVE  q \in Seq(P) /\ Rises(q, R) /\ Occurring(q) = P
<1> DEFINE S    == Strides(C, X)
           step == Stride(C, X, Stop, point, nxt)
           Done == Stopped(C, X, Stop)
           out  == MetBy(C, X)
           I    == {w \in S : WalkMet(P, R, C, Stop, point, w)}
           w0   == [at |-> c, met |-> <<>>]
           Left(w) == Cardinality(P \ Occurring(w.met))
<1>1. ASSUME NEW w \in S, w \notin Done
      PROVE  w.at \notin Stop /\ step[w] = Strode(w, point, nxt)
  BY <1>1 DEF Stopped, Stride
<1>2. ASSUME NEW w \in I, w \notin Done
      PROVE  step[w] \in I /\ Left(step[w]) \in Nat /\ Left(w) \in Nat /\ Left(step[w]) < Left(w)
  <2> DEFINE v == Strode(w, point, nxt)
  <2>1. w \in S /\ WalkMet(P, R, C, Stop, point, w) /\ w.at \notin Stop /\ step[w] = v
    <3> HIDE DEF step, Done, S
    <3> QED
      BY <1>1, <1>2
  <2>2. /\ WalkMet(P, R, C, Stop, point, v)
        /\ point[w.at] \in P /\ point[w.at] \notin Occurring(w.met)
        /\ Occurring(v.met) = Occurring(w.met) \cup {point[w.at]}
    BY <2>1, StrideMeets
  <2>3. v \in S
    <3>1. v.at \in C /\ v.met \in Seq(P)
      <4> HIDE DEF v
      <4> QED
        BY <2>2 DEF WalkMet
    <3>2. Seq(P) \subseteq Seq(X)
      OBVIOUS
    <3> QED
      BY <3>1, <3>2 DEF Strides, Strode
  <2>4. P \ Occurring(v.met) \subseteq P \ Occurring(w.met) /\ P \ Occurring(v.met) # P \ Occurring(w.met)
    BY <2>2
  <2>5. IsFiniteSet(P \ Occurring(w.met))
    BY FS_Subset
  <2>6. Left(v) \in Nat /\ Left(w) \in Nat /\ Left(v) < Left(w)
    <3> HIDE DEF v
    <3> QED
      BY <2>4, <2>5, FewerElements
  <2> HIDE DEF step, Left, v
  <2> QED
    BY <2>1, <2>2, <2>3, <2>6
<1>3. w0 \in I
  <2>1. w0.at = c /\ w0.met = <<>> /\ <<>> \in Seq(P) /\ <<>> \in Seq(X)
    OBVIOUS
  <2>2. w0 \in S
    BY <2>1 DEF Strides
  <2>3. Occurring(<<>>) = {} /\ Rises(<<>>, R)
    BY DEF Occurring, Rises
  <2>4. \A p \in P : ~(c \in Stop \/ <<p, point[c]>> \in R)
    BY DEF StartsAt, Orders, GoesOn
  <2>5. {} = {p \in P : c \in Stop \/ <<p, point[c]>> \in R}
    BY <2>4
  <2>6. WalkMet(P, R, C, Stop, point, w0)
    <3> HIDE DEF w0
    <3> QED
      BY <2>1, <2>3, <2>5 DEF WalkMet
  <2> QED
    BY <2>2, <2>6
<1>4. ASSUME NEW Y \in SUBSET I, Y # {} PROVE \E w \in Y : w \in Done \/ step[w] \notin Y
  <2> SUFFICES ASSUME \A w \in Y : w \notin Done /\ step[w] \in Y PROVE FALSE
    OBVIOUS
  <2> DEFINE ranks == {Left(w) : w \in Y}
  <2>1. \A w \in Y : Left(step[w]) \in Nat /\ Left(w) \in Nat /\ Left(step[w]) < Left(w)
    <3> HIDE DEF Left, step, Done, I
    <3> QED
      BY <1>2
  <2>2. PICK r \in ranks : \A k \in ranks : r <= k
    <3>1. ranks \subseteq Nat /\ ranks # {}
      <4> HIDE DEF Left
      <4> QED
        BY <1>4, <2>1
    <3> HIDE DEF ranks
    <3> QED
      BY <3>1, LeastNumber
  <2>3. PICK w \in Y : r = Left(w)
    OBVIOUS
  <2>4. step[w] \in Y
    OBVIOUS
  <2>5. Left(step[w]) \in ranks
    BY <2>4
  <2> HIDE DEF Left, ranks, step
  <2> QED
    BY <2>1, <2>2, <2>3, <2>5
<1>5. PICK w \in I : w \in Done /\ go[w0] = out[w]
  <2> HIDE DEF I, w0, S, step, Done, out
  <2>1. Proceeds(I, step, Done)
    <3>1. \A w \in I : w \notin Done => step[w] \in I
      BY <1>2
    <3> QED
      BY <1>4, <3>1 DEF Proceeds
  <2>2. I \in SUBSET S
    BY DEF I
  <2>3. Solves(go, S, step, Done, out)
    BY DEF S, step, Done, out
  <2>4. ResultIn(I, Done, out, go[w0])
    BY <1>3, <2>1, <2>2, <2>3, LoopEnds
  <2> QED
    BY <2>4 DEF ResultIn
<1>6. w.at \in Stop /\ q = w.met /\ WalkMet(P, R, C, Stop, point, w)
  BY <1>5 DEF Stopped, MetBy
<1> QED
  BY <1>6 DEF WalkMet

\* The loop of a walk has a solution.
LEMMA WalkHasSolution ==
  ASSUME NEW P, NEW R, NEW C, NEW Stop, NEW point, NEW nxt, NEW X, P \subseteq X,
         GoesOn(P, R, C, Stop, point, nxt)
  PROVE  \E go : Solves(go, Strides(C, X), Stride(C, X, Stop, point, nxt), Stopped(C, X, Stop), MetBy(C, X))
<1> DEFINE S    == Strides(C, X)
           step == Stride(C, X, Stop, point, nxt)
<1>1. ASSUME NEW w \in S PROVE step[w] \in S
  <2>1. CASE w.at \in Stop
    BY <2>1 DEF Stride
  <2>2. CASE w.at \notin Stop
    <3>1. w.at \in C /\ w.met \in Seq(X)
      BY DEF Strides
    <3>2. point[w.at] \in X /\ nxt[w.at] \in C
      BY <2>2, <3>1 DEF GoesOn
    <3>3. Append(w.met, point[w.at]) \in Seq(X)
      BY <3>1, <3>2
    <3>4. step[w] = Strode(w, point, nxt)
      BY <2>2 DEF Stride
    <3> QED
      BY <3>2, <3>3, <3>4 DEF Strides, Strode
  <2> QED
    BY <2>1, <2>2
<1>2. step \in [S -> S]
  <2>1. step = [w \in S |-> step[w]]
    BY DEF Stride
  <2> HIDE DEF step, S
  <2> QED
    BY <1>1, <2>1
<1>3. Stopped(C, X, Stop) \in SUBSET S
  BY DEF Stopped
<1> QED
  BY <1>2, <1>3, TailRecursion

---------------------------------------------------------------------------
(* Maps *)

\* The loop of Unlike is at w; the first elements of s have been looked at.
Sifts                == [at : Nat \ {0}, kept : Seq(Tags)]
Sifted(s, v, w)      == [at   |-> w.at + 1,
                         kept |-> IF s[w.at] = v THEN w.kept ELSE Append(w.kept, s[w.at])]
SiftStep(s, v)       == [w \in Sifts |-> IF w.at > Len(s) THEN w ELSE Sifted(s, v, w)]
SiftDone(s)          == {w \in Sifts : w.at > Len(s)}
SiftOut              == [w \in Sifts |-> w.kept]
SiftOK(s, v, w)      == /\ w \in Sifts /\ w.at <= Len(s) + 1
                        /\ Occurring(w.kept) = {s[i] : i \in 1 .. w.at - 1} \ {v}

\* It goes on.
LEMMA SiftGoesOn ==
  ASSUME NEW s \in Seq(Tags), NEW v, NEW w \in Sifts, w.at <= Len(s)
  PROVE  /\ Sifted(s, v, w) \in Sifts /\ Sifted(s, v, w).at = w.at + 1
         /\ SiftOK(s, v, w) => SiftOK(s, v, Sifted(s, v, w))
<1> DEFINE u == Sifted(s, v, w)
           i == w.at
           q == w.kept
           n == Len(s)
<1>1. i \in Nat \ {0} /\ q \in Seq(Tags) /\ n \in Nat /\ i \in 1 .. n /\ s[i] \in Tags
  BY DEF Sifts
<1>2. u.at = i + 1 /\ u.kept = IF s[i] = v THEN q ELSE Append(q, s[i])
  BY DEF Sifted
<1>3. u = [at |-> u.at, kept |-> u.kept]
  BY DEF Sifted
<1> HIDE DEF u, i, q, n
<1>4. u \in Sifts
  <2>1. u.at \in Nat \ {0} /\ u.kept \in Seq(Tags)
    BY <1>1, <1>2
  <2> QED
    BY <1>3, <2>1 DEF Sifts
<1>5. ASSUME Occurring(q) = {s[j] : j \in 1 .. i - 1} \ {v}
      PROVE  u.at <= n + 1 /\ Occurring(u.kept) = {s[j] : j \in 1 .. u.at - 1} \ {v}
  <2>1. {s[j] : j \in 1 .. (i + 1) - 1} = {s[j] : j \in 1 .. i - 1} \cup {s[i]}
    <3>1. \A j : j \in 1 .. (i + 1) - 1 <=> j \in 1 .. i - 1 \/ j = i
      BY <1>1
    <3> QED
      BY <3>1
  <2>2. CASE s[i] = v
    BY <1>1, <1>2, <1>5, <2>1, <2>2
  <2>3. CASE s[i] # v
    <3>1. Occurring(Append(q, s[i])) = Occurring(q) \cup {s[i]}
      <4> DEFINE R == Tags \X Tags
      <4>1. Rises(q, R) /\ \A x \in Occurring(q) : <<x, s[i]>> \in R
        BY <1>1 DEF Rises, Occurring
      <4> HIDE DEF R
      <4> QED
        BY <1>1, <4>1, AppendMeets
    <3> QED
      BY <1>1, <1>2, <1>5, <2>1, <2>3, <3>1
  <2> QED
    BY <2>2, <2>3
<1> QED
  BY <1>2, <1>4, <1>5 DEF SiftOK, u, i, q, n

\* What is left of a sequence without the elements equal to v.
LEMMA UnlikeKeeps ==
  ASSUME NEW s \in Seq(Tags), NEW v
  PROVE  /\ Unlike(s, v) \in Seq(Tags) /\ Occurring(Unlike(s, v)) = Occurring(s) \ {v}
         /\ s = <<>> => Unlike(s, v) = <<>>
<1> DEFINE go[w \in [at : Nat \ {0}, kept : Seq(Tags)]] ==
             IF w.at > Len(s) THEN w.kept
             ELSE go[[at   |-> w.at + 1,
                      kept |-> IF s[w.at] = v THEN w.kept ELSE Append(w.kept, s[w.at])]]
           step == SiftStep(s, v)
           Done == SiftDone(s)
           I    == {w \in Sifts : SiftOK(s, v, w)}
           w0   == [at |-> 1, kept |-> <<>>]
           n    == Len(s)
<1>1. Unlike(s, v) = go[w0]
  BY DEF Unlike
<1>2. n \in Nat /\ \A w \in Sifts : w.at \in Nat \ {0} /\ w.kept \in Seq(Tags)
  BY DEF Sifts
<1>3. ASSUME NEW w \in Sifts PROVE step[w] \in Sifts /\ (w \notin Done => step[w] = Sifted(s, v, w) /\ w.at <= n)
  <2>1. step[w] = IF w.at > n THEN w ELSE Sifted(s, v, w)
    BY DEF SiftStep
  <2>2. w \in Done <=> w.at > n
    BY DEF SiftDone
  <2> HIDE DEF step, Done
  <2>3. w.at > n \/ w.at <= n
    BY <1>2
  <2> QED
    BY <2>1, <2>2, <2>3, SiftGoesOn
<1>4. step \in [Sifts -> Sifts] /\ Done \in SUBSET Sifts
  <2>1. step = [w \in Sifts |-> step[w]] /\ Done \in SUBSET Sifts
    BY DEF SiftStep, SiftDone
  <2> HIDE DEF step, Done
  <2> QED
    BY <1>3, <2>1
<1>5. \A h : \A w \in Sifts :
        (IF w \in Done THEN SiftOut[w] ELSE h[step[w]])
        = IF w.at > Len(s) THEN w.kept
          ELSE h[[at   |-> w.at + 1,
                  kept |-> IF s[w.at] = v THEN w.kept ELSE Append(w.kept, s[w.at])]]
  BY DEF SiftStep, SiftDone, SiftOut, Sifted
<1>6. \E h : h = [w \in [at : Nat \ {0}, kept : Seq(Tags)] |->
                    IF w.at > Len(s) THEN w.kept
                    ELSE h[[at   |-> w.at + 1,
                            kept |-> IF s[w.at] = v THEN w.kept ELSE Append(w.kept, s[w.at])]]]
  <2> HIDE DEF step, Done
  <2>1. PICK f : Solves(f, Sifts, step, Done, SiftOut)
    BY <1>4, TailRecursion
  <2>2. f = [w \in Sifts |-> IF w.at > Len(s) THEN w.kept
                             ELSE f[[at   |-> w.at + 1,
                                     kept |-> IF s[w.at] = v THEN w.kept ELSE Append(w.kept, s[w.at])]]]
    BY <1>5, <2>1 DEF Solves
  <2> QED
    BY <2>2 DEF Sifts
<1>7. go = [w \in [at : Nat \ {0}, kept : Seq(Tags)] |->
              IF w.at > Len(s) THEN w.kept
              ELSE go[[at   |-> w.at + 1,
                       kept |-> IF s[w.at] = v THEN w.kept ELSE Append(w.kept, s[w.at])]]]
  BY <1>6, Zenon
<1> HIDE DEF go
<1>8. Solves(go, Sifts, step, Done, SiftOut)
  <2> HIDE DEF step, Done
  <2>1. go = [w \in Sifts |-> IF w.at > Len(s) THEN w.kept
                              ELSE go[[at   |-> w.at + 1,
                                       kept |-> IF s[w.at] = v THEN w.kept ELSE Append(w.kept, s[w.at])]]]
    BY <1>7 DEF Sifts
  <2>2. go = [w \in Sifts |-> go[w]]
    BY <2>1
  <2>3. \A w \in Sifts : go[w] = IF w \in Done THEN SiftOut[w] ELSE go[step[w]]
    <3>1. ASSUME NEW w \in Sifts
          PROVE  go[w] = IF w.at > Len(s) THEN w.kept
                         ELSE go[[at   |-> w.at + 1,
                                  kept |-> IF s[w.at] = v THEN w.kept ELSE Append(w.kept, s[w.at])]]
      BY <2>1
    <3> QED
      BY <1>5, <3>1
  <2> QED
    BY <2>2, <2>3 DEF Solves
<1>9. w0 \in I
  <2>1. w0.at = 1 /\ w0.kept = <<>> /\ <<>> \in Seq(Tags)
    OBVIOUS
  <2>2. w0 \in Sifts
    BY <2>1 DEF Sifts
  <2>3. Occurring(<<>>) = {} /\ 1 .. 1 - 1 = {}
    BY DEF Occurring
  <2>4. {s[j] : j \in 1 .. 1 - 1} = {}
    BY <2>3
  <2> HIDE DEF w0
  <2> QED
    BY <1>2, <2>1, <2>2, <2>3, <2>4 DEF SiftOK
<1>10. ASSUME NEW w \in I, w \notin Done PROVE step[w] \in I /\ step[w].at = w.at + 1 /\ w.at <= n
  <2>1. step[w] = Sifted(s, v, w) /\ w.at <= n /\ w \in Sifts /\ SiftOK(s, v, w)
    <3> HIDE DEF step, Done
    <3> QED
      BY <1>3, <1>10
  <2> HIDE DEF step
  <2> QED
    BY <2>1, SiftGoesOn
<1>11. ASSUME NEW Y \in SUBSET I, Y # {} PROVE \E w \in Y : w \in Done \/ step[w] \notin Y
  <2> SUFFICES ASSUME \A w \in Y : w \notin Done /\ step[w] \in Y PROVE FALSE
    OBVIOUS
  <2> DEFINE ranks == {n - w.at : w \in Y}
  <2>1. \A w \in Y : w.at \in Nat /\ step[w].at = w.at + 1 /\ w.at <= n /\ n - w.at \in Nat
    <3>1. ASSUME NEW w \in Y PROVE w.at \in Nat /\ step[w].at = w.at + 1 /\ w.at <= n
      <4> HIDE DEF step, Done
      <4> QED
        BY <1>2, <1>10
    <3> HIDE DEF step, n, I
    <3> QED
      BY <1>2, <3>1
  <2> HIDE DEF step, n, I
  <2>2. PICK r \in ranks : \A k \in ranks : r <= k
    <3>1. ranks \subseteq Nat /\ ranks # {}
      BY <1>11, <2>1
    <3> HIDE DEF ranks
    <3> QED
      BY <3>1, LeastNumber
  <2>3. PICK w \in Y : r = n - w.at
    OBVIOUS
  <2>4. n - step[w].at \in ranks
    OBVIOUS
  <2> HIDE DEF ranks
  <2> QED
    BY <1>2, <2>1, <2>2, <2>3, <2>4
<1>12. PICK w \in I : w \in Done /\ go[w0] = SiftOut[w]
  <2> HIDE DEF I, w0, step, Done
  <2>1. Proceeds(I, step, Done)
    <3>1. \A w \in I : w \notin Done => step[w] \in I
      BY <1>10
    <3> QED
      BY <1>11, <3>1 DEF Proceeds
  <2>2. I \in SUBSET Sifts
    BY DEF I
  <2>3. ResultIn(I, Done, SiftOut, go[w0])
    BY <1>8, <1>9, <2>1, <2>2, LoopEnds
  <2> QED
    BY <2>3 DEF ResultIn
<1> DEFINE rest == Unlike(s, v)
<1>13. rest = w.kept /\ rest \in Seq(Tags) /\ w.at = n + 1
  <2>1. w \in Sifts /\ SiftOK(s, v, w) /\ w.at > n
    BY <1>12 DEF SiftDone
  <2>2. rest = w.kept
    BY <1>1, <1>12, <2>1 DEF SiftOut
  <2> QED
    BY <1>2, <2>1, <2>2 DEF SiftOK
<1>14. Occurring(rest) = Occurring(s) \ {v}
  <2>1. Occurring(w.kept) = {s[i] : i \in 1 .. w.at - 1} \ {v}
    BY <1>12 DEF SiftOK
  <2>2. (n + 1) - 1 = n /\ DOMAIN s = 1 .. n
    OBVIOUS
  <2> HIDE DEF n, rest
  <2> QED
    BY <1>13, <2>1, <2>2 DEF Occurring
<1>15. s = <<>> => rest = <<>>
  <2> SUFFICES ASSUME s = <<>> PROVE rest = <<>>
    OBVIOUS
  <2> HIDE DEF rest
  <2>1. Occurring(s) = {}
    BY DEF Occurring
  <2>2. DOMAIN rest = {}
    BY <1>14, <2>1 DEF Occurring
  <2>3. Len(rest) \in Nat /\ DOMAIN rest = 1 .. Len(rest)
    BY <1>13
  <2>4. Len(rest) = 0
    BY <2>2, <2>3
  <2> QED
    BY <1>13, <2>4, EmptySeq
<1> QED
  BY <1>13, <1>14, <1>15

\* An iterator that goes through t, forwards for the left side.
Gone(t, i, s) == IF s = "left" THEN Advance(t, i) ELSE Retreat(t, i)

\* It goes to the neighbour of its node.
LEMMA IteratorGoes ==
  ASSUME NEW t, NEW D, Sound(t, D), NEW n \in Allocated(t), NEW s \in Sides
  PROVE  Gone(t, Iterator(n), s) \in Spots(t) /\ Gone(t, Iterator(n), s).at = Neighbour(t, n, s)
<1> DEFINE x == Neighbour(t, n, s)
           i == Gone(t, Iterator(n), s)
<1>1. Shape(t, D) /\ AllFresh(t) /\ n # NoNode
  BY NodeShape DEF Sound
<1>2. x \in Allocated(t) \cup {NoNode}
  BY <1>1, NeighbourIsNext
<1>3. CASE x # NoNode
  <2>1. i = Iterator(x)
    BY <1>1, <1>3, IteratorSteps DEF Gone, Sides
  <2>2. i.at = x
    BY <2>1 DEF Iterator
  <2> HIDE DEF i, x
  <2> QED
    BY <1>2, <1>3, <2>1, <2>2 DEF Spots, i, x
<1>4. CASE x = NoNode
  <2>1. i = [at |-> NoNode, begin |-> NoNode, end |-> n] \/ i = [at |-> NoNode, begin |-> n, end |-> NoNode]
    BY <1>1, <1>4, IteratorSteps DEF Gone, Sides
  <2>2. i.at = NoNode /\ i \in [at : {NoNode}, begin : Allocated(t) \cup {NoNode}, end : Allocated(t) \cup {NoNode}]
    BY <2>1
  <2> HIDE DEF i, x
  <2> QED
    BY <1>4, <2>2 DEF Spots, i, x
<1> QED
  BY <1>3, <1>4

\* An iterator at a node is Iterator of it.
LEMMA SpotsAreNodes ==
  ASSUME NEW t, NEW i \in Spots(t)
  PROVE  i.at \in Allocated(t) \cup {NoNode} /\ (i.at # NoNode => i = Iterator(i.at) /\ i.at \in Allocated(t))
<1>1. CASE \E n \in Allocated(t) : i = Iterator(n)
  <2>1. PICK n \in Allocated(t) : i = Iterator(n)
    BY <1>1
  <2>2. i.at = n
    BY <2>1 DEF Iterator
  <2> QED
    BY <2>1, <2>2
<1>2. CASE i \in [at : {NoNode}, begin : Allocated(t) \cup {NoNode}, end : Allocated(t) \cup {NoNode}]
  BY <1>2
<1> QED
  BY <1>1, <1>2 DEF Spots

\* The keys of t in the order of a side.
KeyOrder(t, s) == {p \in Allocated(t) \X Allocated(t) : Before(s, p[1], p[2])}
KeyStop(t)     == {i \in Spots(t) : i.at = NoNode}
KeyAt(t)       == [i \in Spots(t) |-> i.at]
KeyNext(t, s)  == [i \in Spots(t) |-> Gone(t, i, s)]

\* An iterator walks through them.
LEMMA KeysAreWalked ==
  ASSUME NEW t, NEW D, Sound(t, D), NEW s \in Sides
  PROVE  /\ IsFiniteSet(Allocated(t)) /\ Orders(Allocated(t), KeyOrder(t, s))
         /\ GoesOn(Allocated(t), KeyOrder(t, s), Spots(t), KeyStop(t), KeyAt(t), KeyNext(t, s))
<1> DEFINE A == Allocated(t)
           R == KeyOrder(t, s)
<1>1. Shape(t, D) /\ AllFresh(t) /\ A \subseteq Keys /\ \A k \in A : k # NoNode
  BY NodeShape DEF Sound, Allocated
<1>2. \A p, q \in A : <<p, q>> \in R <=> Before(s, p, q)
  BY DEF KeyOrder
<1> HIDE DEF A, R
<1>3. Orders(A, R)
  BY <1>1, <1>2, KeysAreNodes DEF Orders, Before
<1>4. ASSUME NEW i \in Spots(t), i \notin KeyStop(t)
      PROVE  /\ KeyAt(t)[i] \in A /\ KeyNext(t, s)[i] \in Spots(t)
             /\ LET j == KeyNext(t, s)[i]
                IN  IF j \in KeyStop(t) THEN \A p \in A : p = KeyAt(t)[i] \/ <<p, KeyAt(t)[i]>> \in R
                    ELSE /\ <<KeyAt(t)[i], KeyAt(t)[j]>> \in R
                         /\ \A p \in A : <<KeyAt(t)[i], p>> \in R => p = KeyAt(t)[j] \/ <<KeyAt(t)[j], p>> \in R
  <2> DEFINE n == i.at
             x == Neighbour(t, n, s)
             j == Gone(t, i, s)
             After == {k \in A : Before(s, n, k)}
  <2>1. n \in A /\ i = Iterator(n) /\ KeyAt(t)[i] = n
    BY <1>4, SpotsAreNodes DEF KeyStop, KeyAt, A
  <2>2. KeyNext(t, s)[i] = j /\ j \in Spots(t) /\ j.at = x
    <3>1. j \in Spots(t) /\ j.at = x
      BY <2>1, IteratorGoes DEF A
    <3>2. KeyNext(t, s)[i] = j
      BY DEF KeyNext
    <3> QED
      BY <3>1, <3>2
  <2>3. (j \in KeyStop(t) <=> x = NoNode) /\ KeyAt(t)[j] = x
    BY <2>2 DEF KeyStop, KeyAt
  <2>4. /\ After = {} => x = NoNode
        /\ After # {} => x \in After /\ \A k \in After : k = x \/ Before(s, x, k)
    BY <1>1, <2>1, NeighbourIsNext DEF A
  <2> HIDE DEF j, x, n
  <2>5. CASE x = NoNode
    <3>1. After = {}
      BY <1>1, <2>4, <2>5
    <3>2. \A p \in A : p = n \/ <<p, n>> \in R
      BY <1>2, <1>3, <2>1, <3>1 DEF Orders
    <3> QED
      BY <2>1, <2>2, <2>3, <2>5, <3>2
  <2>6. CASE x # NoNode
    <3>1. x \in A /\ Before(s, n, x) /\ \A k \in A : Before(s, n, k) => k = x \/ Before(s, x, k)
      BY <2>4, <2>6
    <3> QED
      BY <1>2, <2>1, <2>2, <2>3, <2>6, <3>1
  <2> QED
    BY <2>5, <2>6
<1>5. GoesOn(A, R, Spots(t), KeyStop(t), KeyAt(t), KeyNext(t, s))
  BY <1>4 DEF GoesOn
<1> QED
  BY <1>3, <1>5, FewNodes DEF A, R

\* Where it starts.
LEMMA IteratorStarts ==
  ASSUME NEW t, NEW D, Sound(t, D), NEW s \in Sides
  PROVE  LET i == IF s = "left" THEN Begin(t) ELSE RBegin(t)
         IN  /\ i \in Spots(t) /\ (i.at = NoNode <=> Allocated(t) = {})
             /\ \A k \in Allocated(t) : k = i.at \/ Before(s, i.at, k)
<1> DEFINE i == IF s = "left" THEN Begin(t) ELSE RBegin(t)
           e == IF s = "left" THEN First(t) ELSE Last(t)
<1>1. \A k \in Allocated(t) : k \in Nat /\ k # NoNode
  BY KeysAreNodes DEF Allocated
<1>2. CASE Allocated(t) = {}
  <2>1. t.size = 0 /\ t.root = NoNode
    BY <1>2, FewNodes DEF Sound, Rooted, Allocated
  <2>2. i = [at |-> NoNode, begin |-> NoNode, end |-> NoNode]
    BY <2>1 DEF Begin, RBegin, First, Iterator
  <2>3. i.at = NoNode /\ i \in [at : {NoNode}, begin : Allocated(t) \cup {NoNode}, end : Allocated(t) \cup {NoNode}]
    BY <2>2
  <2> HIDE DEF i
  <2> QED
    BY <1>2, <2>3 DEF Spots, i
<1>3. CASE Allocated(t) # {}
  <2>1. t.size > 0
    BY <1>3, FewNodes DEF Sound
  <2>2. i = Iterator(e) /\ i.at = e
    BY <2>1 DEF Begin, RBegin, Iterator
  <2>3. e \in Allocated(t) /\ \A k \in Allocated(t) : k = e \/ Before(s, e, k)
    BY <1>1, <1>3, FirstAndLast DEF Sides, Before
  <2> HIDE DEF i, e
  <2> QED
    BY <1>1, <1>3, <2>2, <2>3 DEF Spots, i
<1> QED
  BY <1>2, <1>3

\* Keys() has the keys in order.
LEMMA KeysInOrder ==
  ASSUME NEW m, NEW D, Sound(m.index, D)
  PROVE  Occurring(KeysOf(m)) = Allocated(m.index) /\ Rises(KeysOf(m), KeyOrder(m.index, "left"))
<1> DEFINE t     == m.index
           C     == Spots(t)
           point == KeyAt(t)
           nxt   == KeyNext(t, "left")
           Stop  == KeyStop(t)
           go[w \in [at : Spots(m.index), met : Seq(Keys)]] ==
             IF w.at.at = NoNode THEN w.met
             ELSE go[[at |-> Advance(m.index, w.at), met |-> Append(w.met, w.at.at)]]
<1>1. KeysOf(m) = go[[at |-> Begin(t), met |-> <<>>]]
  BY DEF KeysOf
<1>2. Allocated(t) \subseteq Keys /\ "left" \in Sides
  BY DEF Allocated, Sides
<1>3. /\ IsFiniteSet(Allocated(t)) /\ Orders(Allocated(t), KeyOrder(t, "left"))
      /\ GoesOn(Allocated(t), KeyOrder(t, "left"), C, Stop, point, nxt)
  BY <1>2, KeysAreWalked
<1>4. \A h : \A w \in Strides(C, Keys) :
        (IF w \in Stopped(C, Keys, Stop) THEN MetBy(C, Keys)[w] ELSE h[Stride(C, Keys, Stop, point, nxt)[w]])
        = IF w.at.at = NoNode THEN w.met
          ELSE h[[at |-> Advance(m.index, w.at), met |-> Append(w.met, w.at.at)]]
  <2> SUFFICES ASSUME NEW h, NEW w \in Strides(C, Keys)
               PROVE  (IF w \in Stopped(C, Keys, Stop) THEN MetBy(C, Keys)[w]
                       ELSE h[Stride(C, Keys, Stop, point, nxt)[w]])
                      = IF w.at.at = NoNode THEN w.met
                        ELSE h[[at |-> Advance(m.index, w.at), met |-> Append(w.met, w.at.at)]]
    OBVIOUS
  <2>1. w.at \in C /\ (w.at \in Stop <=> w.at.at = NoNode)
    BY DEF Strides, KeyStop
  <2>2. point[w.at] = w.at.at /\ nxt[w.at] = Advance(m.index, w.at)
    BY <2>1 DEF KeyAt, KeyNext, Gone
  <2> HIDE DEF point, nxt, Stop, C
  <2> QED
    BY <2>1, <2>2 DEF Stopped, MetBy, Stride, Strode
<1> HIDE DEF C, point, nxt, Stop
<1>5. \E h : h = [w \in [at : Spots(m.index), met : Seq(Keys)] |->
                    IF w.at.at = NoNode THEN w.met
                    ELSE h[[at |-> Advance(m.index, w.at), met |-> Append(w.met, w.at.at)]]]
  <2>1. PICK f : Solves(f, Strides(C, Keys), Stride(C, Keys, Stop, point, nxt), Stopped(C, Keys, Stop),
                        MetBy(C, Keys))
    BY <1>2, <1>3, WalkHasSolution
  <2>2. f = [w \in Strides(C, Keys) |->
               IF w.at.at = NoNode THEN w.met
               ELSE f[[at |-> Advance(m.index, w.at), met |-> Append(w.met, w.at.at)]]]
    <3>1. \A w \in Strides(C, Keys) :
            f[w] = IF w.at.at = NoNode THEN w.met
                   ELSE f[[at |-> Advance(m.index, w.at), met |-> Append(w.met, w.at.at)]]
      BY <1>4, <2>1 DEF Solves
    <3>2. f = [w \in Strides(C, Keys) |-> f[w]]
      BY <2>1 DEF Solves
    <3> QED
      BY <3>1, <3>2
  <2> QED
    BY <2>2 DEF Strides, C
<1>6. go = [w \in [at : Spots(m.index), met : Seq(Keys)] |->
              IF w.at.at = NoNode THEN w.met
              ELSE go[[at |-> Advance(m.index, w.at), met |-> Append(w.met, w.at.at)]]]
  BY <1>5, Zenon
<1> HIDE DEF go
<1>7. Solves(go, Strides(C, Keys), Stride(C, Keys, Stop, point, nxt), Stopped(C, Keys, Stop), MetBy(C, Keys))
  <2>1. go = [w \in Strides(C, Keys) |->
                IF w.at.at = NoNode THEN w.met
                ELSE go[[at |-> Advance(m.index, w.at), met |-> Append(w.met, w.at.at)]]]
    BY <1>6 DEF Strides, C
  <2>2. go = [w \in Strides(C, Keys) |-> go[w]]
    BY <2>1
  <2>3. ASSUME NEW w \in Strides(C, Keys)
        PROVE  go[w] = IF w.at.at = NoNode THEN w.met
                       ELSE go[[at |-> Advance(m.index, w.at), met |-> Append(w.met, w.at.at)]]
    BY <2>1
  <2>4. \A w \in Strides(C, Keys) :
          go[w] = IF w \in Stopped(C, Keys, Stop) THEN MetBy(C, Keys)[w]
                  ELSE go[Stride(C, Keys, Stop, point, nxt)[w]]
    BY <1>4, <2>3
  <2> QED
    BY <2>2, <2>4 DEF Solves
<1>8. Begin(t) \in C /\ StartsAt(Allocated(t), KeyOrder(t, "left"), Stop, point, Begin(t))
  <2>1. /\ Begin(t) \in Spots(t) /\ (Begin(t).at = NoNode <=> Allocated(t) = {})
        /\ \A k \in Allocated(t) : k = Begin(t).at \/ Before("left", Begin(t).at, k)
    BY <1>2, IteratorStarts
  <2>2. Begin(t).at # NoNode => Begin(t).at \in Allocated(t)
    BY <2>1, SpotsAreNodes
  <2>3. (Begin(t) \in Stop <=> Begin(t).at = NoNode) /\ point[Begin(t)] = Begin(t).at
    BY <2>1 DEF Stop, point, KeyStop, KeyAt
  <2> QED
    BY <2>1, <2>2, <2>3 DEF StartsAt, KeyOrder, C
<1> DEFINE q == KeysOf(m)
           P == Allocated(t)
           R == KeyOrder(t, "left")
<1>9. q \in Seq(P) /\ Rises(q, R) /\ Occurring(q) = P
  <2> HIDE DEF q, t, P, R
  <2>1. q = go[[at |-> Begin(t), met |-> <<>>]]
    BY <1>1 DEF q
  <2> QED
    BY <1>2, <1>3, <1>7, <1>8, <2>1, WalkMeetsAll DEF P, R
<1> QED
  BY <1>9

\* The index gets a node.
LEMMA NodeComes ==
  ASSUME NEW t, NEW D, Sound(t, D), NEW k \in Keys
  PROVE  /\ \E E : Sound(WithNode(t, k), E)
         /\ Allocated(WithNode(t, k)) = Allocated(t) \cup {k}
         /\ Contains(t, k) <=> k \in Allocated(t)
<1>1. Contains(t, k) <=> k \in Allocated(t)
  BY SearchIsExact DEF Sound
<1>2. CASE k \in Allocated(t)
  BY <1>1, <1>2 DEF WithNode
<1>3. CASE k \notin Allocated(t)
  <2>1. WithNode(t, k) = Added(t, k)
    BY <1>1, <1>3 DEF WithNode
  <2> QED
    BY <1>1, <1>3, <2>1, AddedIsSound
<1> QED
  BY <1>2, <1>3, <1>1

\* The index loses a node.
LEMMA NodeGoes ==
  ASSUME NEW t, NEW D, Sound(t, D), NEW k \in Keys
  PROVE  /\ \E E : Sound(WithoutNode(t, k), E)
         /\ Allocated(WithoutNode(t, k)) = Allocated(t) \ {k}
         /\ Contains(t, k) => WithoutNode(t, k) = Removed(t, k)
<1>1. Contains(t, k) <=> k \in Allocated(t)
  BY SearchIsExact DEF Sound
<1>2. CASE k \notin Allocated(t)
  BY <1>1, <1>2 DEF WithoutNode
<1>3. CASE k \in Allocated(t)
  <2>1. WithoutNode(t, k) = Removed(t, k)
    BY <1>1, <1>3 DEF WithoutNode
  <2> QED
    BY <1>1, <1>3, <2>1, RemovedIsSound
<1> QED
  BY <1>2, <1>3, <1>1

\* A map whose index is sound and has the keys that have values.
MapOK(m) == /\ m = [index |-> m.index, values |-> m.values]
            /\ m.values \in [Entries -> Seq(Tags)]
            /\ \E D : Sound(m.index, D)
            /\ Allocated(m.index) = {k \in Entries : m.values[k] # <<>>}

\* Such a map is what its values say.
LEMMA MapIsItsValues ==
  ASSUME NEW m, MapOK(m)
  PROVE  MapIs(m, m.values)
<1>1. PICK D : Sound(m.index, D)
  BY DEF MapOK
<1>2. Allocated(m.index) = {k \in Entries : m.values[k] # <<>>}
  BY DEF MapOK
<1>3. \A k \in Entries : Found(m, k) <=> m.values[k] # <<>>
  BY <1>1, <1>2, EntriesAssumption, SearchIsExact DEF Found, Sound
<1>4. Occurring(KeysOf(m)) = Allocated(m.index) /\ Rises(KeysOf(m), KeyOrder(m.index, "left"))
  BY <1>1, KeysInOrder
<1> DEFINE q == KeysOf(m)
           R == {p \in Entries \X Entries : p[1] < p[2]}
<1>5. Rises(q, R)
  <2>1. \A r \in KeyOrder(m.index, "left") : r \in R
    BY <1>2 DEF KeyOrder, Before
  <2> HIDE DEF q, R
  <2>2. Rises(q, KeyOrder(m.index, "left"))
    BY <1>4 DEF q
  <2> QED
    BY <2>1, <2>2 DEF Rises
<1> QED
  BY <1>2, <1>3, <1>4, <1>5 DEF MapIs

\* What an operation makes of a map: its values are f, and it is one again.
Becomes(m, f) == MapOK(m) /\ m.values = f

\* What At and Remove give of v.
Gives(m, k, v) == Value(InsertValue(m, k, v, FALSE), k) = v
Sheds(m, k, v) == Occurring(RemoveValue(m, k, v).values[k]) = Occurring(m.values[k]) \ {v}

\* A map changes at a key as its index does.
LEMMA ValuesChange ==
  ASSUME NEW m, MapOK(m), NEW k \in Entries, NEW s \in Seq(Tags), NEW t, NEW E, Sound(t, E),
         Allocated(t) = IF s = <<>> THEN Allocated(m.index) \ {k} ELSE Allocated(m.index) \cup {k},
         NEW n, n = [index |-> t, values |-> [m.values EXCEPT ![k] = s]]
  PROVE  Becomes(n, [m.values EXCEPT ![k] = s])
<1> DEFINE f == [m.values EXCEPT ![k] = s]
<1>1. /\ f \in [Entries -> Seq(Tags)] /\ f[k] = s /\ \A j \in Entries : j # k => f[j] = m.values[j]
  BY DEF MapOK
<1>2. n.index = t /\ n.values = f /\ n = [index |-> n.index, values |-> n.values]
  OBVIOUS
<1> HIDE DEF f
<1>3. Allocated(t) = {j \in Entries : f[j] # <<>>}
  BY <1>1 DEF MapOK
<1>4. MapOK(n)
  BY <1>1, <1>2, <1>3 DEF MapOK
<1> QED
  BY <1>2, <1>4 DEF Becomes, f

\* A new map.
LEMMA NewMapIsRight == MapOK(NewMap)
<1>1. NewMap.index = Empty /\ NewMap.values = NoStacks /\ NewMap = [index |-> NewMap.index, values |-> NewMap.values]
  BY DEF NewMap
<1>2. NoStacks \in [Entries -> Seq(Tags)] /\ {k \in Entries : NoStacks[k] # <<>>} = {}
  BY DEF NoStacks
<1> QED
  BY <1>1, <1>2, EmptyIsSound DEF MapOK

\* Every call makes the map that it promises.
LEMMA MapCalls ==
  ASSUME NEW m, MapOK(m)
  PROVE  /\ MapOK(NewMap) /\ Becomes(CopyMap(m), m.values)
         /\ \A k \in Entries, v \in Tags :
              /\ Becomes(InsertValue(m, k, v, TRUE), [m.values EXCEPT ![k] = <<v>>])
              /\ Becomes(InsertValue(m, k, v, FALSE), [m.values EXCEPT ![k] = Append(@, v)])
              /\ Gives(m, k, v)
              /\ Becomes(RemoveValue(m, k, v), [m.values EXCEPT ![k] = RemoveValue(m, k, v).values[k]])
              /\ Sheds(m, k, v)
         /\ \A k \in Entries :
              /\ Becomes(RemoveKey(m, k), [m.values EXCEPT ![k] = <<>>])
              /\ Becomes(Subscript(m, k), IF m.values[k] = <<>> THEN [m.values EXCEPT ![k] = <<Blank>>]
                                          ELSE m.values)
<1> DEFINE f == m.values
           t == m.index
<1>1. PICK D : Sound(t, D)
  BY DEF MapOK
<1>2. /\ f \in [Entries -> Seq(Tags)] /\ Entries \subseteq Keys /\ m = [index |-> t, values |-> f]
      /\ \A k \in Entries : k \in Allocated(t) <=> f[k] # <<>>
      /\ \A k \in Entries : k \in Keys /\ f[k] \in Seq(Tags)
  BY EntriesAssumption DEF MapOK
<1>3. MapOK(NewMap)
  BY NewMapIsRight
<1>4. Becomes(CopyMap(m), f)
  <2>1. PICK E : Sound(Copied(t), E) /\ Allocated(Copied(t)) = Allocated(t)
    BY <1>1, CopiedIsSound
  <2> DEFINE n == CopyMap(m)
  <2>2. n.index = Copied(t) /\ n.values = f /\ n = [index |-> n.index, values |-> n.values]
    BY <1>2 DEF CopyMap
  <2> HIDE DEF n
  <2>3. MapOK(n)
    BY <1>2, <2>1, <2>2 DEF MapOK
  <2> QED
    BY <2>2, <2>3 DEF Becomes, n
<1>5. ASSUME NEW k \in Entries, NEW v \in Tags, NEW over \in BOOLEAN
      PROVE  LET s == IF over THEN <<v>> ELSE Append(f[k], v)
             IN  /\ Becomes(InsertValue(m, k, v, over), [f EXCEPT ![k] = s])
                 /\ s \in Seq(Tags) /\ s # <<>> /\ s[Len(s)] = v
                 /\ InsertValue(m, k, v, over).values[k] = s
  <2> DEFINE s == IF over THEN <<v>> ELSE Append(f[k], v)
             u == WithNode(t, k)
             n == InsertValue(m, k, v, over)
  <2>1. f[k] \in Seq(Tags)
    BY <1>2
  <2>2. Append(f[k], v) \in Seq(Tags) /\ Append(f[k], v) # <<>> /\ Append(f[k], v)[Len(Append(f[k], v))] = v
    BY <2>1
  <2>3. s \in Seq(Tags) /\ s # <<>> /\ s[Len(s)] = v
    <3>1. <<v>> \in Seq(Tags) /\ <<v>> # <<>> /\ <<v>>[Len(<<v>>)] = v
      OBVIOUS
    <3> QED
      BY <2>2, <3>1
  <2>4. PICK E : Sound(u, E)
    BY <1>1, <1>2, NodeComes
  <2>5. Allocated(u) = Allocated(t) \cup {k}
    BY <1>1, <1>2, NodeComes
  <2>6. n = [index |-> u, values |-> [f EXCEPT ![k] = s]]
    BY DEF InsertValue
  <2>7. n.values[k] = s
    BY <1>2, <2>6
  <2> HIDE DEF s, u, n
  <2>8. Becomes(n, [f EXCEPT ![k] = s])
    BY <2>3, <2>4, <2>5, <2>6, ValuesChange
  <2> QED
    BY <2>3, <2>7, <2>8 DEF s, n
<1>6. ASSUME NEW k \in Entries, NEW v \in Tags
      PROVE  /\ Becomes(RemoveValue(m, k, v), [f EXCEPT ![k] = RemoveValue(m, k, v).values[k]])
             /\ Occurring(RemoveValue(m, k, v).values[k]) = Occurring(f[k]) \ {v}
  <2> DEFINE rest == Unlike(f[k], v)
             n == RemoveValue(m, k, v)
  <2>1. rest \in Seq(Tags) /\ Occurring(rest) = Occurring(f[k]) \ {v}
    BY <1>2, UnlikeKeeps
  <2>2. Contains(t, k) <=> k \in Allocated(t)
    BY <1>1, <1>2, NodeComes
  <2>3. CASE ~Contains(t, k)
    <3>1. n = m /\ f[k] = <<>>
      BY <1>2, <2>2, <2>3 DEF RemoveValue
    <3>2. [f EXCEPT ![k] = f[k]] = f
      BY <1>2
    <3>3. Occurring(<<>>) = {}
      BY DEF Occurring
    <3> HIDE DEF n
    <3> QED
      BY <3>1, <3>2, <3>3 DEF Becomes, n
  <2>4. CASE Contains(t, k)
    <3> DEFINE u == IF rest = <<>> THEN Removed(t, k) ELSE t
    <3>1. n = [index |-> u, values |-> [f EXCEPT ![k] = rest]]
      BY <2>4 DEF RemoveValue
    <3>2. n.values[k] = rest
      BY <1>2, <3>1
    <3>3. /\ \E E : Sound(u, E)
          /\ Allocated(u) = IF rest = <<>> THEN Allocated(t) \ {k} ELSE Allocated(t) \cup {k}
      <4>1. CASE rest = <<>>
        <5>1. WithoutNode(t, k) = Removed(t, k)
          BY <1>1, <1>2, <2>4, NodeGoes
        <5> QED
          BY <1>1, <1>2, <4>1, <5>1, NodeGoes
      <4>2. CASE rest # <<>>
        BY <1>1, <2>2, <2>4, <4>2
      <4> QED
        BY <4>1, <4>2
    <3> HIDE DEF u, n, rest
    <3>4. Becomes(n, [f EXCEPT ![k] = rest])
      BY <2>1, <3>1, <3>3, ValuesChange
    <3> QED
      BY <2>1, <3>2, <3>4 DEF n
  <2> QED
    BY <2>3, <2>4
<1>7. ASSUME NEW k \in Entries PROVE Becomes(RemoveKey(m, k), [f EXCEPT ![k] = <<>>])
  <2> DEFINE n == RemoveKey(m, k)
             u == WithoutNode(t, k)
             s == <<>>
  <2>1. n = [index |-> u, values |-> [f EXCEPT ![k] = s]] /\ s \in Seq(Tags)
    BY DEF RemoveKey
  <2>2. (\E E : Sound(u, E)) /\ Allocated(u) = Allocated(t) \ {k}
    BY <1>1, <1>2, NodeGoes
  <2> HIDE DEF n, u
  <2> QED
    BY <2>1, <2>2, ValuesChange DEF n
<1>8. ASSUME NEW k \in Entries
      PROVE  Becomes(Subscript(m, k), IF f[k] = <<>> THEN [f EXCEPT ![k] = <<Blank>>] ELSE f)
  <2>1. Found(m, k) <=> f[k] # <<>>
    BY <1>1, <1>2, NodeComes DEF Found
  <2>2. Becomes(m, f)
    BY DEF Becomes
  <2>3. Becomes(InsertValue(m, k, Blank, TRUE), [f EXCEPT ![k] = <<Blank>>])
    BY <1>5, EntriesAssumption
  <2> QED
    BY <2>1, <2>2, <2>3 DEF Subscript
<1>9. ASSUME NEW k \in Entries, NEW v \in Tags
      PROVE  /\ Becomes(InsertValue(m, k, v, TRUE), [f EXCEPT ![k] = <<v>>])
             /\ Becomes(InsertValue(m, k, v, FALSE), [f EXCEPT ![k] = Append(@, v)])
             /\ Value(InsertValue(m, k, v, FALSE), k) = v
  <2>1. TRUE \in BOOLEAN /\ FALSE \in BOOLEAN
    OBVIOUS
  <2>2. Becomes(InsertValue(m, k, v, TRUE), [f EXCEPT ![k] = <<v>>])
    BY <1>5, <2>1
  <2>3. Becomes(InsertValue(m, k, v, FALSE), [f EXCEPT ![k] = Append(f[k], v)])
    BY <1>5, <2>1
  <2>4. Value(InsertValue(m, k, v, FALSE), k) = v
    <3> DEFINE s == Append(f[k], v)
               n == InsertValue(m, k, v, FALSE)
    <3>1. n.values[k] = s /\ s[Len(s)] = v
      BY <1>5, <2>1
    <3> HIDE DEF s
    <3>2. n.values[k][Len(n.values[k])] = v
      <4> DEFINE q == n.values[k]
      <4>1. q = s
        BY <3>1
      <4> HIDE DEF q
      <4> QED
        BY <3>1, <4>1 DEF q
    <3> QED
      BY <3>2 DEF Value
  <2> QED
    BY <2>2, <2>3, <2>4
<1>10. ASSUME NEW k \in Entries, NEW v \in Tags PROVE Gives(m, k, v) /\ Sheds(m, k, v)
  BY <1>6, <1>9 DEF Gives, Sheds
<1> QED
  BY <1>3, <1>4, <1>6, <1>7, <1>8, <1>9, <1>10

\* A map as it should be follows its calls.
LEMMA MapOKFollows == MapOK(map) => MapFollowsItsCalls
<1> SUFFICES ASSUME MapOK(map) PROVE MapFollowsItsCalls
  OBVIOUS
<1>1. \A m, f : Becomes(m, f) => MapIs(m, f)
  BY MapIsItsValues DEF Becomes
<1>2. MapIs(map, map.values)
  BY MapIsItsValues
<1>3. MapIs(CopyMap(map), map.values)
  BY <1>1, MapCalls
<1>4. ASSUME NEW k \in Entries, NEW v \in Tags
      PROVE  /\ MapIs(InsertValue(map, k, v, TRUE), [map.values EXCEPT ![k] = <<v>>])
             /\ MapIs(InsertValue(map, k, v, FALSE), [map.values EXCEPT ![k] = Append(@, v)])
             /\ Value(InsertValue(map, k, v, FALSE), k) = v
             /\ MapIs(RemoveValue(map, k, v), [map.values EXCEPT ![k] = RemoveValue(map, k, v).values[k]])
             /\ Occurring(RemoveValue(map, k, v).values[k]) = Occurring(map.values[k]) \ {v}
  <2>1. Becomes(InsertValue(map, k, v, TRUE), [map.values EXCEPT ![k] = <<v>>])
    BY MapCalls
  <2>2. Becomes(InsertValue(map, k, v, FALSE), [map.values EXCEPT ![k] = Append(@, v)])
    BY MapCalls
  <2>3. Gives(map, k, v)
    BY MapCalls
  <2>4. Becomes(RemoveValue(map, k, v), [map.values EXCEPT ![k] = RemoveValue(map, k, v).values[k]])
    BY MapCalls
  <2>5. Sheds(map, k, v)
    BY MapCalls
  <2> QED
    BY <1>1, <2>1, <2>2, <2>3, <2>4, <2>5 DEF Gives, Sheds
<1>5. ASSUME NEW k \in Entries
      PROVE  /\ MapIs(RemoveKey(map, k), [map.values EXCEPT ![k] = <<>>])
             /\ MapIs(Subscript(map, k), IF map.values[k] = <<>> THEN [map.values EXCEPT ![k] = <<Blank>>]
                                         ELSE map.values)
  <2>1. /\ Becomes(RemoveKey(map, k), [map.values EXCEPT ![k] = <<>>])
        /\ Becomes(Subscript(map, k), IF map.values[k] = <<>> THEN [map.values EXCEPT ![k] = <<Blank>>]
                                      ELSE map.values)
    BY MapCalls
  <2> QED
    BY <1>1, <2>1
<1> QED
  BY <1>2, <1>3, <1>4, <1>5 DEF MapFollowsItsCalls

\* Every step keeps it so.
LEMMA MapStep ==
  ASSUME MapOK(map), MapNext
  PROVE  MapOK(map')
<1>1. MapChange
  BY DEF MapNext
<1>2. ASSUME NEW k \in Entries, NEW v \in Tags, NEW over \in BOOLEAN, map' = InsertValue(map, k, v, over)
      PROVE  MapOK(map')
  <2>1. over = TRUE \/ over = FALSE
    OBVIOUS
  <2>2. MapOK(InsertValue(map, k, v, TRUE)) /\ MapOK(InsertValue(map, k, v, FALSE))
    BY MapCalls DEF Becomes
  <2> QED
    BY <1>2, <2>1, <2>2
<1>3. ASSUME NEW k \in Entries, map' = RemoveKey(map, k) \/ map' = Subscript(map, k)
      PROVE  MapOK(map')
  <2>1. MapOK(RemoveKey(map, k)) /\ MapOK(Subscript(map, k))
    BY MapCalls DEF Becomes
  <2> QED
    BY <1>3, <2>1
<1>4. ASSUME NEW k \in Entries, NEW v \in Tags, map' = RemoveValue(map, k, v)
      PROVE  MapOK(map')
  <2>1. MapOK(RemoveValue(map, k, v))
    BY MapCalls DEF Becomes
  <2> QED
    BY <1>4, <2>1
<1>5. ASSUME map' = NewMap \/ map' = CopyMap(map) PROVE MapOK(map')
  <2>1. MapOK(NewMap) /\ MapOK(CopyMap(map))
    BY MapCalls DEF Becomes
  <2> QED
    BY <1>5, <2>1
<1> QED
  BY <1>1, <1>2, <1>3, <1>4, <1>5 DEF MapChange

---------------------------------------------------------------------------
(* Sets *)

\* The places of the items f of the keys K.
PlacesOf(f, K) == UNION {{k} \X DOMAIN f[k] : k \in K}

\* Those of a key and those of the others.
LEMMA PlacesCount ==
  ASSUME NEW V, NEW f \in [Entries -> Seq(V)], NEW k \in Entries
  PROVE  /\ Cardinality(PlacesOf(f, Entries)) = Cardinality(PlacesOf(f, Entries \ {k})) + Len(f[k])
         /\ Cardinality(PlacesOf(f, Entries \ {k})) \in Nat /\ IsFiniteSet(PlacesOf(f, Entries))
         /\ Len(f[k]) \in Nat
<1> DEFINE A == PlacesOf(f, Entries \ {k})
           B == {k} \X DOMAIN f[k]
           n == Len(f[k])
           g == [j \in Entries |-> {j} \X DOMAIN f[j]]
           T == {{j} \X DOMAIN f[j] : j \in Entries}
<1>1. /\ n \in Nat /\ DOMAIN f[k] = 1 .. n
      /\ \A j \in Entries : Len(f[j]) \in Nat /\ DOMAIN f[j] = 1 .. Len(f[j])
  <2>1. \A j \in Entries : f[j] \in Seq(V)
    OBVIOUS
  <2>2. \A q \in Seq(V) : Len(q) \in Nat /\ DOMAIN q = 1 .. Len(q)
    OBVIOUS
  <2> HIDE DEF n
  <2> QED
    BY <2>1, <2>2 DEF n
<1>2. IsFiniteSet(Entries)
  BY EntriesAssumption, KeysAssumption, FS_Subset
<1>3. \A j \in Entries : IsFiniteSet({j} \X DOMAIN f[j])
  <2> SUFFICES ASSUME NEW j \in Entries PROVE IsFiniteSet({j} \X DOMAIN f[j])
    OBVIOUS
  <2> DEFINE l == Len(f[j])
  <2>1. l \in Nat /\ DOMAIN f[j] = 1 .. l
    BY <1>1
  <2> HIDE DEF l
  <2>2. IsFiniteSet(1 .. l)
    BY <2>1, FS_Interval
  <2> QED
    BY <2>1, <2>2, FS_Singleton, FS_Product
<1>4. IsFiniteSet(T)
  <2>1. g \in Surjection(Entries, T)
    BY DEF Surjection
  <2> HIDE DEF g, T
  <2> QED
    BY <1>2, <2>1, FS_Surjection
<1>5. IsFiniteSet(UNION T)
  <2>1. \A R \in T : IsFiniteSet(R)
    BY <1>3
  <2> HIDE DEF T
  <2> QED
    BY <1>4, <2>1, FS_UNION
<1>6. UNION T = A \cup B /\ A \cap B = {} /\ A \in SUBSET UNION T
  BY DEF PlacesOf
<1>7. IsFiniteSet(B) /\ Cardinality(B) = n
  <2>1. IsFiniteSet(1 .. n) /\ Cardinality(1 .. n) = n
    <3> HIDE DEF n
    <3> QED
      BY <1>1, FS_Interval
  <2>2. Cardinality({k}) = 1 /\ IsFiniteSet({k})
    BY FS_Singleton
  <2> DEFINE a == {k}
             b == 1 .. n
  <2> HIDE DEF n, a, b
  <2>3. IsFiniteSet(a) /\ IsFiniteSet(b) /\ Cardinality(a) = 1 /\ Cardinality(b) = n
    BY <2>1, <2>2 DEF a, b
  <2>4. IsFiniteSet(a \X b) /\ Cardinality(a \X b) = Cardinality(a) * Cardinality(b)
    BY <2>3, FS_Product
  <2>5. Cardinality(a) * Cardinality(b) = n
    BY <1>1, <2>3
  <2>6. B = a \X b
    BY <1>1 DEF a, b, n
  <2> QED
    BY <2>4, <2>5, <2>6
<1>8. IsFiniteSet(A) /\ Cardinality(A) \in Nat
  BY <1>5, <1>6, FS_Subset, FS_CardinalityType
<1>9. UNION T = PlacesOf(f, Entries)
  BY DEF PlacesOf
<1> HIDE DEF A, B, n, T
<1>10. Cardinality(A \cup B) = Cardinality(A) + Cardinality(B) - Cardinality(A \cap B)
  BY <1>7, <1>8, FS_Union
<1>11. Cardinality(A \cap B) = 0
  BY <1>6, FS_EmptySet
<1>12. Cardinality(UNION T) = Cardinality(A) + n
  <2> DEFINE a == Cardinality(A)
             u == Cardinality(A \cup B)
             o == Cardinality(A \cap B)
             b == Cardinality(B)
  <2>1. a \in Nat /\ b = n /\ o = 0 /\ u = a + b - o
    BY <1>7, <1>8, <1>10, <1>11
  <2>2. u = Cardinality(UNION T)
    BY <1>6
  <2> HIDE DEF a, b, o, u
  <2>3. u = a + n
    BY <1>1, <2>1
  <2> QED
    BY <2>2, <2>3 DEF a
<1> QED
  BY <1>1, <1>5, <1>8, <1>9, <1>12 DEF A, n

\* A set whose tree is sound and has the keys that have items, and which counts them.
Item        == [key : Entries, tag : Tags]
Keyed(q, k) == \A i \in DOMAIN q : q[i].key = k
SetOK(x)    == /\ x = [data |-> x.data, items |-> x.items, size |-> x.size]
               /\ x.items \in [Entries -> Seq(Item)]
               /\ \A k \in Entries : Keyed(x.items[k], k)
               /\ \E D : Sound(x.data, D)
               /\ Allocated(x.data) = {k \in Entries : x.items[k] # <<>>}
               /\ x.size = Cardinality(Places(x))

\* The places of a set.
LEMMA PlacesAre ==
  ASSUME NEW x, SetOK(x)
  PROVE  /\ Places(x) = PlacesOf(x.items, Entries)
         /\ \A n \in Allocated(x.data) : /\ n \in Entries /\ n \in Keys /\ n \in Nat /\ n # NoNode
                                         /\ Len(x.items[n]) \in Nat /\ Len(x.items[n]) > 0
         /\ \A n, i : <<n, i>> \in Places(x) <=> n \in Allocated(x.data) /\ i \in 1 .. Len(x.items[n])
         /\ \A p \in Places(x) : p = <<p[1], p[2]>> /\ p[1] \in Allocated(x.data)
                                  /\ p[2] \in 1 .. Len(x.items[p[1]])
<1> DEFINE f == x.items
<1>1. f \in [Entries -> Seq(Item)] /\ Allocated(x.data) = {k \in Entries : f[k] # <<>>}
  BY DEF SetOK
<1>2. ASSUME NEW k \in Entries
      PROVE  Len(f[k]) \in Nat /\ DOMAIN f[k] = 1 .. Len(f[k]) /\ (f[k] # <<>> <=> Len(f[k]) > 0)
  <2>1. f[k] \in Seq(Item)
    BY <1>1
  <2> DEFINE q == f[k]
  <2> HIDE DEF q
  <2>2. q \in Seq(Item)
    BY <2>1 DEF q
  <2>3. Len(q) \in Nat /\ DOMAIN q = 1 .. Len(q) /\ (q # <<>> <=> Len(q) > 0)
    BY <2>2
  <2> QED
    BY <2>3 DEF q
<1>3. Places(x) = PlacesOf(f, Entries)
  BY DEF Places, PlacesOf
<1>4. \A n \in Allocated(x.data) : /\ n \in Entries /\ n \in Keys /\ n \in Nat /\ n # NoNode
                                   /\ Len(f[n]) \in Nat /\ Len(f[n]) > 0
  BY <1>1, <1>2, EntriesAssumption, KeysAreNodes
<1>5. ASSUME NEW n, NEW i PROVE <<n, i>> \in Places(x) <=> n \in Entries /\ i \in DOMAIN f[n]
  BY DEF Places
<1>6. ASSUME NEW n \in Entries, NEW i PROVE i \in DOMAIN f[n] <=> n \in Allocated(x.data) /\ i \in 1 .. Len(f[n])
  <2> DEFINE l == Len(f[n])
  <2>1. l \in Nat /\ DOMAIN f[n] = 1 .. l /\ (n \in Allocated(x.data) <=> l > 0)
    BY <1>1, <1>2
  <2> HIDE DEF l
  <2> QED
    BY <2>1 DEF l
<1>7. \A p \in Places(x) : p = <<p[1], p[2]>>
  BY DEF Places
<1>8. \A n, i : <<n, i>> \in Places(x) <=> n \in Allocated(x.data) /\ i \in 1 .. Len(f[n])
  BY <1>4, <1>5, <1>6
<1>9. \A p \in Places(x) : p[1] \in Allocated(x.data) /\ p[2] \in 1 .. Len(f[p[1]])
  BY <1>7, <1>8
<1> HIDE DEF f
<1> QED
  BY <1>3, <1>4, <1>7, <1>8, <1>9 DEF f

\* A set changes at a key as its tree and its size do.
LEMMA ItemsChange ==
  ASSUME NEW x, SetOK(x), NEW k \in Entries, NEW q \in Seq(Item), Keyed(q, k), NEW t, NEW E, Sound(t, E),
         Allocated(t) = IF q = <<>> THEN Allocated(x.data) \ {k} ELSE Allocated(x.data) \cup {k},
         NEW size, size = (x.size - Len(x.items[k])) + Len(q),
         NEW y, y = [data |-> t, items |-> [x.items EXCEPT ![k] = q], size |-> size]
  PROVE  SetOK(y)
<1> DEFINE f == x.items
           g == [f EXCEPT ![k] = q]
<1>1. /\ f \in [Entries -> Seq(Item)] /\ \A j \in Entries : Keyed(f[j], j)
      /\ Allocated(x.data) = {j \in Entries : f[j] # <<>>} /\ x.size = Cardinality(Places(x))
  BY DEF SetOK
<1>2. g \in [Entries -> Seq(Item)] /\ g[k] = q /\ \A j \in Entries : j # k => g[j] = f[j]
  BY <1>1
<1>3. y.data = t /\ y.items = g /\ y.size = size /\ y = [data |-> y.data, items |-> y.items, size |-> y.size]
  OBVIOUS
<1>4. PlacesOf(g, Entries \ {k}) = PlacesOf(f, Entries \ {k})
  <2>1. \A j \in Entries \ {k} : g[j] = f[j]
    BY <1>2
  <2> HIDE DEF g, f
  <2> QED
    BY <2>1 DEF PlacesOf
<1> HIDE DEF g, f
<1> DEFINE a == Cardinality(PlacesOf(f, Entries \ {k}))
           n == Len(f[k])
           l == Len(q)
           c == Cardinality(PlacesOf(f, Entries))
           d == Cardinality(PlacesOf(g, Entries))
<1>5. c = a + n /\ a \in Nat /\ n \in Nat
  BY <1>1, PlacesCount
<1>6. d = a + l /\ l \in Nat
  BY <1>2, <1>4, PlacesCount
<1>7. Places(x) = PlacesOf(f, Entries) /\ Places(y) = PlacesOf(g, Entries)
  BY <1>3 DEF Places, PlacesOf, f
<1>8. size = (c - n) + l
  BY <1>1, <1>7 DEF f
<1> HIDE DEF a, n, l, c, d
<1>9. size = d
  BY <1>5, <1>6, <1>8
<1>10. y.size = Cardinality(Places(y))
  BY <1>3, <1>7, <1>9 DEF d
<1>11. Allocated(t) = {j \in Entries : g[j] # <<>>}
  BY <1>1, <1>2
<1>12. \A j \in Entries : Keyed(g[j], j)
  BY <1>1, <1>2
<1> QED
  BY <1>2, <1>3, <1>10, <1>11, <1>12 DEF SetOK

\* A new set.
LEMMA NewSetIsRight == SetOK(NewSet)
<1>1. /\ NewSet.data = Empty /\ NewSet.items = NoStacks /\ NewSet.size = 0
      /\ NewSet = [data |-> NewSet.data, items |-> NewSet.items, size |-> NewSet.size]
  BY DEF NewSet
<1>2. /\ NoStacks \in [Entries -> Seq(Item)] /\ {k \in Entries : NoStacks[k] # <<>>} = {}
      /\ \A k \in Entries : NoStacks[k] = <<>> /\ DOMAIN NoStacks[k] = {}
  BY DEF NoStacks
<1>3. Places(NewSet) = {}
  BY <1>1, <1>2 DEF Places
<1>4. Cardinality(Places(NewSet)) = 0
  BY <1>3, FS_EmptySet
<1>5. \A k \in Entries : Keyed(NoStacks[k], k)
  BY <1>2 DEF Keyed
<1> QED
  BY <1>1, <1>2, <1>4, <1>5, EmptyIsSound DEF SetOK

\* Every call makes such a set.
LEMMA SetCalls ==
  ASSUME NEW x, SetOK(x)
  PROVE  /\ SetOK(NewSet) /\ SetOK(CopySet(x))
         /\ \A k \in Entries, v \in Tags, multiple \in BOOLEAN :
              SetOK(SetInsert(x, [key |-> k, tag |-> v], multiple))
         /\ \A k \in Entries, all \in BOOLEAN : SetOK(SetRemove(x, k, all))
<1> DEFINE f == x.items
           t == x.data
<1>1. PICK D : Sound(t, D)
  BY DEF SetOK
<1>2. /\ f \in [Entries -> Seq(Item)] /\ Entries \subseteq Keys
      /\ x = [data |-> t, items |-> f, size |-> x.size]
      /\ \A k \in Entries : /\ k \in Keys /\ f[k] \in Seq(Item) /\ Keyed(f[k], k)
                            /\ k \in Allocated(t) <=> f[k] # <<>>
      /\ x.size = Cardinality(Places(x))
  BY EntriesAssumption DEF SetOK
<1>3. x.size \in Nat
  <2>1. IsFiniteSet(Places(x))
    <3>1. CASE Entries = {}
      <4>1. Places(x) = {}
        BY <3>1 DEF Places
      <4> QED
        BY <4>1, FS_EmptySet
    <3>2. CASE Entries # {}
      <4>1. PICK k : k \in Entries
        BY <3>2
      <4>2. IsFiniteSet(PlacesOf(f, Entries))
        <5> HIDE DEF f
        <5> QED
          BY <1>2, <4>1, PlacesCount
      <4> QED
        BY <4>2, PlacesAre
    <3> QED
      BY <3>1, <3>2
  <2> QED
    BY <1>2, <2>1, FS_CardinalityType
<1>4. SetOK(NewSet)
  BY NewSetIsRight
<1>5. SetOK(CopySet(x))
  <2>1. PICK E : Sound(Copied(t), E) /\ Allocated(Copied(t)) = Allocated(t)
    BY <1>1, CopiedIsSound
  <2> DEFINE n == CopySet(x)
  <2>2. /\ n.data = Copied(t) /\ n.items = f /\ n.size = x.size
        /\ n = [data |-> n.data, items |-> n.items, size |-> n.size]
    BY <1>2 DEF CopySet
  <2> HIDE DEF n
  <2>3. Places(n) = Places(x)
    BY <2>2 DEF Places
  <2>4. SetOK(n)
    BY <2>1, <2>2, <2>3 DEF SetOK
  <2> QED
    BY <2>4 DEF n
<1>6. ASSUME NEW k \in Entries, NEW v \in Tags, NEW multiple \in BOOLEAN
      PROVE  SetOK(SetInsert(x, [key |-> k, tag |-> v], multiple))
  <2> DEFINE i == [key |-> k, tag |-> v]
             q == IF multiple THEN Append(f[k], i) ELSE <<i>>
             u == WithNode(t, k)
             l == Len(f[k])
             size == x.size + 1 - (IF multiple THEN 0 ELSE l)
             n == SetInsert(x, i, multiple)
  <2>1. f[k] \in Seq(Item) /\ Keyed(f[k], k) /\ i \in Item /\ i.key = k
    BY <1>2 DEF Item
  <2>2. n = [data |-> u, items |-> [f EXCEPT ![k] = q], size |-> size]
    BY <2>1 DEF SetInsert
  <2>3. (\E E : Sound(u, E)) /\ Allocated(u) = Allocated(t) \cup {k}
    BY <1>1, <1>2, NodeComes
  <2> DEFINE p == f[k]
  <2> HIDE DEF p, i
  <2>4. /\ Append(p, i) \in Seq(Item) /\ Append(p, i) # <<>> /\ Len(Append(p, i)) = Len(p) + 1
        /\ Len(p) \in Nat /\ Keyed(Append(p, i), k)
    <3>1. p \in Seq(Item) /\ i \in Item /\ i.key = k /\ Keyed(p, k)
      BY <2>1 DEF p
    <3>2. /\ Append(p, i) \in Seq(Item) /\ Append(p, i) # <<>> /\ Len(Append(p, i)) = Len(p) + 1
          /\ Len(p) \in Nat
      BY <3>1
    <3>3. \A j \in DOMAIN Append(p, i) : Append(p, i)[j].key = k
      <4>1. ASSUME NEW j \in 1 .. Len(p) + 1
            PROVE  Append(p, i)[j] = IF j <= Len(p) THEN p[j] ELSE i
        BY <3>1
      <4>2. \A j \in 1 .. Len(p) : p[j].key = k
        BY <3>1 DEF Keyed
      <4> QED
        BY <3>1, <3>2, <4>1, <4>2
    <3> QED
      BY <3>2, <3>3 DEF Keyed
  <2>5. <<i>> \in Seq(Item) /\ <<i>> # <<>> /\ Len(<<i>>) = 1 /\ Keyed(<<i>>, k)
    BY <2>1 DEF Keyed
  <2>6. q \in Seq(Item) /\ q # <<>> /\ Keyed(q, k)
    BY <2>4, <2>5 DEF p
  <2>7. size = (x.size - l) + Len(q)
    <3> DEFINE m == x.size
               b == Len(q)
    <3>1. m \in Nat /\ l \in Nat /\ b = (IF multiple THEN l + 1 ELSE 1)
      BY <1>3, <2>4, <2>5 DEF p
    <3>2. size = m + 1 - (IF multiple THEN 0 ELSE l)
      OBVIOUS
    <3> HIDE DEF m, b, l, size
    <3>3. size = (m - l) + b
      BY <3>1, <3>2
    <3> QED
      BY <3>3 DEF m, b
  <2> HIDE DEF q, u, n, size
  <2>8. SetOK(n)
    BY <2>2, <2>3, <2>6, <2>7, ItemsChange
  <2> QED
    BY <2>8 DEF n, i
<1>7. ASSUME NEW k \in Entries, NEW all \in BOOLEAN PROVE SetOK(SetRemove(x, k, all))
  <2> DEFINE p == f[k]
             l == Len(p)
             rest == SubSeq(p, 1, l - 1)
             empty == all \/ rest = <<>>
             q == IF empty THEN <<>> ELSE rest
             u == IF empty THEN Removed(t, k) ELSE t
             size == x.size - 1 - (IF empty THEN Len(rest) ELSE 0)
             n == SetRemove(x, k, all)
  <2>1. Contains(t, k) <=> k \in Allocated(t)
    BY <1>1, <1>2, NodeComes
  <2>2. CASE ~Contains(t, k)
    BY <2>2 DEF SetRemove
  <2>3. CASE Contains(t, k)
    <3>1. n = [data |-> u, items |-> [f EXCEPT ![k] = q], size |-> size]
      BY <2>3 DEF SetRemove
    <3>2. p \in Seq(Item) /\ p # <<>> /\ Keyed(p, k)
      BY <1>2, <2>1, <2>3
    <3> HIDE DEF p, n
    <3>3. /\ l \in Nat /\ l > 0 /\ rest \in Seq(Item) /\ Len(rest) = l - 1
          /\ \A i \in DOMAIN rest : i \in DOMAIN p /\ rest[i] = p[i]
      <4>1. l \in Nat /\ l > 0 /\ DOMAIN p = 1 .. l
        BY <3>2
      <4>2. l - 1 \in Nat /\ 1 .. l - 1 \subseteq 1 .. l
        BY <4>1
      <4>3. rest = [i \in 1 .. l - 1 |-> p[i]]
        BY <3>2, <4>1
      <4> HIDE DEF rest, l
      <4>4. DOMAIN rest = 1 .. l - 1 /\ \A i \in 1 .. l - 1 : rest[i] = p[i] /\ p[i] \in Item
        BY <3>2, <4>1, <4>2, <4>3
      <4>5. rest \in [1 .. l - 1 -> Item]
        BY <4>3, <4>4
      <4>6. rest \in Seq(Item)
        BY <4>2, <4>5
      <4>7. Len(rest) = l - 1
        BY <4>2, <4>4, <4>6
      <4> QED
        BY <4>1, <4>2, <4>4, <4>6, <4>7
    <3>4. Keyed(rest, k)
      BY <3>2, <3>3 DEF Keyed
    <3>5. q \in Seq(Item) /\ Keyed(q, k)
      <4>1. <<>> \in Seq(Item) /\ Keyed(<<>>, k)
        BY DEF Keyed
      <4> QED
        BY <3>3, <3>4, <4>1
    <3>6. size = (x.size - l) + Len(q)
      <4> DEFINE m == x.size
                 b == Len(rest)
                 c == Len(q)
      <4>1. m \in Nat /\ l \in Nat /\ b = l - 1 /\ c = (IF empty THEN 0 ELSE b)
        BY <1>3, <3>3
      <4>2. size = m - 1 - (IF empty THEN b ELSE 0)
        OBVIOUS
      <4> HIDE DEF m, b, c, l, size, empty
      <4>3. size = (m - l) + c
        BY <4>1, <4>2
      <4> QED
        BY <4>3 DEF m, c
    <3>7. /\ \E E : Sound(u, E)
          /\ Allocated(u) = IF q = <<>> THEN Allocated(t) \ {k} ELSE Allocated(t) \cup {k}
      <4>1. CASE empty
        <5>1. WithoutNode(t, k) = Removed(t, k) /\ q = <<>> /\ u = Removed(t, k)
          BY <1>1, <1>2, <2>3, <4>1, NodeGoes
        <5>2. (\E E : Sound(WithoutNode(t, k), E)) /\ Allocated(WithoutNode(t, k)) = Allocated(t) \ {k}
          BY <1>1, <1>2, NodeGoes
        <5> HIDE DEF q, u
        <5> QED
          BY <5>1, <5>2
      <4>2. CASE ~empty
        <5>1. q = rest /\ rest # <<>> /\ u = t
          BY <4>2
        <5> HIDE DEF q, rest, u
        <5> QED
          BY <1>1, <2>1, <2>3, <5>1
      <4> QED
        BY <4>1, <4>2
    <3> DEFINE k1 == Len(x.items[k])
    <3>8. k1 = l
      BY DEF p
    <3> HIDE DEF u, q, size
    <3>9. size = (x.size - Len(x.items[k])) + Len(q)
      BY <3>6, <3>8
    <3>10. SetOK(n)
      BY <3>1, <3>5, <3>7, <3>9, ItemsChange
    <3> QED
      BY <3>10 DEF n
  <2> QED
    BY <2>2, <2>3
<1> QED
  BY <1>4, <1>5, <1>6, <1>7

\* An iterator that goes through a set, its end and its start.
SetCursors(x)    == [node : Spots(x.data), place : Nat]
SetStop(x)       == {c \in SetCursors(x) : ~IsAtItem(x, c)}
SetGone(x, c, s) == IF s = "left" THEN SetAdvance(x, c) ELSE SetRetreat(x, c)
ItemAt(x)        == [c \in SetCursors(x) |-> <<c.node.at, c.place>>]
ItemNext(x, s)   == [c \in SetCursors(x) |-> SetGone(x, c, s)]
Entered(x, j, s) == SetIterator(x, j, s = "left")

\* The places of a set in the order of a side.
Comes(s, p, q)  == Before(s, p[1], q[1]) \/ (p[1] = q[1] /\ Before(s, p[2], q[2]))
ItemOrder(x, s) == {r \in Places(x) \X Places(x) : Comes(s, r[1], r[2])}

\* It is an order.
LEMMA ItemsOrder ==
  ASSUME NEW x, SetOK(x), NEW s \in Sides
  PROVE  Orders(Places(x), ItemOrder(x, s))
<1> DEFINE P == Places(x)
           R == ItemOrder(x, s)
<1>1. \A p, q \in P : <<p, q>> \in R <=> Comes(s, p, q)
  BY DEF ItemOrder
<1>2. \A p \in P : p = <<p[1], p[2]>> /\ p[1] \in Nat /\ p[2] \in Nat
  <2> SUFFICES ASSUME NEW p \in P PROVE p = <<p[1], p[2]>> /\ p[1] \in Nat /\ p[2] \in Nat
    OBVIOUS
  <2> DEFINE l == Len(x.items[p[1]])
  <2>1. p = <<p[1], p[2]>> /\ p[1] \in Nat /\ p[2] \in 1 .. l /\ l \in Nat
    BY PlacesAre
  <2> HIDE DEF l, P
  <2> QED
    BY <2>1
<1> HIDE DEF P, R
<1>3. \A p \in P : ~Comes(s, p, p)
  BY <1>2 DEF Comes, Before
<1>4. \A p, q, r \in P : Comes(s, p, q) /\ Comes(s, q, r) => Comes(s, p, r)
  BY <1>2 DEF Comes, Before
<1>5. ASSUME NEW p \in P, NEW q \in P PROVE p = q \/ Comes(s, p, q) \/ Comes(s, q, p)
  <2>1. p[1] = q[1] /\ p[2] = q[2] => p = q
    BY <1>2
  <2>2. p[1] = q[1] \/ Before(s, p[1], q[1]) \/ Before(s, q[1], p[1])
    BY <1>2 DEF Before
  <2>3. p[2] = q[2] \/ Before(s, p[2], q[2]) \/ Before(s, q[2], p[2])
    BY <1>2 DEF Before
  <2> QED
    BY <2>1, <2>2, <2>3 DEF Comes
<1>6. Orders(P, R)
  BY <1>1, <1>3, <1>4, <1>5 DEF Orders
<1> QED
  BY <1>6 DEF P, R

\* At a node it starts with the first item on its side.
LEMMA NodeEntered ==
  ASSUME NEW x, SetOK(x), NEW s \in Sides, NEW j \in Spots(x.data)
  PROVE  /\ Entered(x, j, s) \in SetCursors(x) /\ Entered(x, j, s).node = j
         /\ IsAtItem(x, Entered(x, j, s)) <=> j.at # NoNode
         /\ j.at # NoNode => \A i \in 1 .. Len(x.items[j.at]) :
                               i = Entered(x, j, s).place \/ Before(s, Entered(x, j, s).place, i)
<1> DEFINE l == Len(x.items[j.at])
           e == IF j.at = NoNode THEN 0 ELSE IF s = "left" THEN 1 ELSE l
           c == Entered(x, j, s)
<1>1. c = [node |-> j, place |-> e] /\ c.node = j /\ c.place = e
  BY DEF Entered, SetIterator
<1>2. j.at # NoNode => l \in Nat /\ l > 0
  BY SpotsAreNodes, PlacesAre
<1>3. IsAtItem(x, c) <=> j.at # NoNode /\ e \in 1 .. l
  BY <1>1 DEF IsAtItem
<1>4. e = IF j.at = NoNode THEN 0 ELSE IF s = "left" THEN 1 ELSE l
  OBVIOUS
<1> HIDE DEF l, e, c
<1>5. e \in Nat
  BY <1>2, <1>4
<1>6. j.at # NoNode => e \in 1 .. l /\ \A i \in 1 .. l : i = e \/ Before(s, e, i)
  BY <1>2, <1>4 DEF Before
<1>7. c \in SetCursors(x)
  BY <1>1, <1>5 DEF SetCursors
<1> QED
  BY <1>1, <1>3, <1>6, <1>7 DEF l, c

\* It goes through the items of a node, and then to the next node.
LEMMA ItemsAreLeft ==
  ASSUME NEW x, SetOK(x), NEW s \in Sides, NEW c \in SetCursors(x), IsAtItem(x, c),
         NEW d, d = SetGone(x, c, s)
  PROVE  \/ /\ d \in SetCursors(x) /\ d.node = c.node /\ IsAtItem(x, d) /\ Before(s, c.place, d.place)
            /\ \A i \in 1 .. Len(x.items[c.node.at]) : Before(s, c.place, i) => i = d.place \/ Before(s, d.place, i)
         \/ /\ d = Entered(x, Gone(x.data, c.node, s), s)
            /\ \A i \in 1 .. Len(x.items[c.node.at]) : i = c.place \/ Before(s, i, c.place)
<1> DEFINE n == c.node.at
           l == Len(x.items[n])
           e == c.place
<1>1. n # NoNode /\ e \in 1 .. l /\ c = [node |-> c.node, place |-> e] /\ c.node \in Spots(x.data)
  BY DEF IsAtItem, SetCursors
<1>2. l \in Nat
  BY <1>1, SpotsAreNodes, PlacesAre
<1>3. CASE s = "left" /\ e < l
  <2>1. d = [c EXCEPT !.place = e + 1]
    BY <1>1, <1>3 DEF SetGone, SetAdvance, IsAtItem
  <2>2. d = [node |-> c.node, place |-> e + 1]
    BY <1>1, <2>1
  <2>3. d.node = c.node /\ d.place = e + 1
    BY <2>2
  <2> DEFINE g == d.place
  <2>4. IsAtItem(x, d) <=> g \in 1 .. l
    BY <1>1, <2>3 DEF IsAtItem
  <2>5. d \in SetCursors(x) <=> g \in Nat
    BY <1>1, <2>2, <2>3 DEF SetCursors
  <2>6. g = e + 1
    BY <2>3
  <2> HIDE DEF g, e, l
  <2>7. g \in Nat /\ g \in 1 .. l /\ Before(s, e, g) /\ \A i \in 1 .. l : Before(s, e, i) => i = g \/ Before(s, g, i)
    BY <1>1, <1>2, <1>3, <2>6 DEF Before
  <2> QED
    BY <2>3, <2>4, <2>5, <2>7 DEF g, e, l
<1>4. CASE s = "right" /\ e > 1
  <2>1. d = [c EXCEPT !.place = e - 1]
    BY <1>1, <1>4 DEF SetGone, SetRetreat, IsAtItem
  <2>2. d = [node |-> c.node, place |-> e - 1]
    BY <1>1, <2>1
  <2>3. d.node = c.node /\ d.place = e - 1
    BY <2>2
  <2> DEFINE g == d.place
  <2>4. IsAtItem(x, d) <=> g \in 1 .. l
    BY <1>1, <2>3 DEF IsAtItem
  <2>5. d \in SetCursors(x) <=> g \in Nat
    BY <1>1, <2>2, <2>3 DEF SetCursors
  <2>6. g = e - 1
    BY <2>3
  <2> HIDE DEF g, e, l
  <2>7. g \in Nat /\ g \in 1 .. l /\ Before(s, e, g) /\ \A i \in 1 .. l : Before(s, e, i) => i = g \/ Before(s, g, i)
    BY <1>1, <1>2, <1>4, <2>6 DEF Before
  <2> QED
    BY <2>3, <2>4, <2>5, <2>7 DEF g, e, l
<1>5. CASE s = "left" /\ ~(e < l)
  <2>1. d = Entered(x, Gone(x.data, c.node, s), s)
    BY <1>1, <1>5 DEF SetGone, SetAdvance, IsAtItem, Entered, Gone
  <2> HIDE DEF e, l
  <2>2. \A i \in 1 .. l : i = e \/ Before(s, i, e)
    BY <1>1, <1>2, <1>5 DEF Before
  <2> QED
    BY <2>1, <2>2 DEF e, l
<1>6. CASE s = "right" /\ ~(e > 1)
  <2>1. d = Entered(x, Gone(x.data, c.node, s), s)
    BY <1>1, <1>6 DEF SetGone, SetRetreat, IsAtItem, Entered, Gone
  <2> HIDE DEF e, l
  <2>2. \A i \in 1 .. l : i = e \/ Before(s, i, e)
    BY <1>1, <1>2, <1>6 DEF Before
  <2> QED
    BY <2>1, <2>2 DEF e, l
<1> QED
  BY <1>3, <1>4, <1>5, <1>6 DEF Sides

\* An iterator walks through all items.
LEMMA ItemsAreWalked ==
  ASSUME NEW x, SetOK(x), NEW s \in Sides
  PROVE  GoesOn(Places(x), ItemOrder(x, s), SetCursors(x), SetStop(x), ItemAt(x), ItemNext(x, s))
<1> DEFINE P == Places(x)
           R == ItemOrder(x, s)
           C == SetCursors(x)
           A == Allocated(x.data)
<1>1. PICK D : Sound(x.data, D)
  BY DEF SetOK
<1>2. \A p, q \in P : <<p, q>> \in R <=> Comes(s, p, q)
  BY DEF ItemOrder
<1>3. \A c \in C : (c \in SetStop(x) <=> ~IsAtItem(x, c)) /\ ItemAt(x)[c] = <<c.node.at, c.place>>
  BY DEF SetStop, ItemAt
<1>4. ASSUME NEW c \in C, c \notin SetStop(x)
      PROVE  /\ ItemAt(x)[c] \in P /\ ItemNext(x, s)[c] \in C
             /\ LET d == ItemNext(x, s)[c]
                IN  IF d \in SetStop(x) THEN \A p \in P : p = ItemAt(x)[c] \/ <<p, ItemAt(x)[c]>> \in R
                    ELSE /\ <<ItemAt(x)[c], ItemAt(x)[d]>> \in R
                         /\ \A p \in P : <<ItemAt(x)[c], p>> \in R => p = ItemAt(x)[d] \/ <<ItemAt(x)[d], p>> \in R
  <2> DEFINE n == c.node.at
             e == c.place
             l == Len(x.items[n])
             d == SetGone(x, c, s)
             j == Gone(x.data, c.node, s)
  <2>1. IsAtItem(x, c) /\ n # NoNode /\ e \in 1 .. l /\ c.node \in Spots(x.data)
    BY <1>3, <1>4 DEF IsAtItem, SetCursors
  <2>2. n \in A /\ c.node = Iterator(n)
    BY <2>1, SpotsAreNodes
  <2>3. <<n, e>> \in P /\ ItemAt(x)[c] = <<n, e>>
    BY <1>3, <2>1, <2>2, PlacesAre
  <2>4. ItemNext(x, s)[c] = d
    BY DEF ItemNext
  <2>5. \A p \in P : p = <<p[1], p[2]>> /\ p[1] \in A /\ p[2] \in 1 .. Len(x.items[p[1]])
    BY PlacesAre
  <2>6. \A p \in P : p[1] = n => p[2] \in 1 .. l
    BY <2>5
  <2>7. \A a, b, k, m : Comes(s, <<a, b>>, <<k, m>>) <=> Before(s, a, k) \/ (a = k /\ Before(s, b, m))
    BY DEF Comes
  <2>8. \A p \in P : \A a, b :
        /\ Comes(s, p, <<a, b>>) <=> Before(s, p[1], a) \/ (p[1] = a /\ Before(s, p[2], b))
        /\ Comes(s, <<a, b>>, p) <=> Before(s, a, p[1]) \/ (a = p[1] /\ Before(s, b, p[2]))
    BY DEF Comes
  <2>9. \/ /\ d \in C /\ d.node = c.node /\ IsAtItem(x, d) /\ Before(s, e, d.place)
           /\ \A i \in 1 .. l : Before(s, e, i) => i = d.place \/ Before(s, d.place, i)
        \/ /\ d = Entered(x, j, s)
           /\ \A i \in 1 .. l : i = e \/ Before(s, i, e)
    BY <2>1, ItemsAreLeft
  <2> HIDE DEF d, j, e, l, n, P, R, C, A
  <2>10. CASE /\ d \in C /\ d.node = c.node /\ IsAtItem(x, d) /\ Before(s, e, d.place)
              /\ \A i \in 1 .. l : Before(s, e, i) => i = d.place \/ Before(s, d.place, i)
    <3>1. d \notin SetStop(x) /\ ItemAt(x)[d] = <<n, d.place>>
      BY <1>3, <2>10 DEF n
    <3>2. <<n, d.place>> \in P
      <4>1. d.place \in 1 .. Len(x.items[n])
        BY <2>10 DEF IsAtItem, n
      <4> QED
        BY <2>2, <4>1, PlacesAre DEF P, A
    <3>3. Comes(s, <<n, e>>, <<n, d.place>>)
      BY <2>7, <2>10
    <3>4. ASSUME NEW p \in P, Comes(s, <<n, e>>, p) PROVE p = <<n, d.place>> \/ Comes(s, <<n, d.place>>, p)
      <4>1. CASE p[1] = n
        <5>1. ~Before(s, n, p[1])
          <6>1. n \in Nat
            BY <2>2, PlacesAre DEF A
          <6> QED
            BY <4>1, <6>1 DEF Before
        <5>2. Before(s, e, p[2]) /\ p[2] \in 1 .. l
          BY <2>6, <2>8, <3>4, <4>1, <5>1
        <5>3. p[2] = d.place \/ Before(s, d.place, p[2])
          BY <2>10, <5>2
        <5> QED
          BY <2>5, <2>8, <4>1, <5>3
      <4>2. CASE p[1] # n
        BY <2>8, <3>4, <4>2
      <4> QED
        BY <4>1, <4>2
    <3> QED
      BY <1>2, <2>3, <2>4, <2>10, <3>1, <3>2, <3>3, <3>4
  <2>11. CASE d = Entered(x, j, s) /\ \A i \in 1 .. l : i = e \/ Before(s, i, e)
    <3>1. j \in Spots(x.data) /\ j.at = Neighbour(x.data, n, s)
      BY <1>1, <2>2, IteratorGoes DEF j, A
    <3>2. /\ d \in C /\ d.node = j /\ (IsAtItem(x, d) <=> j.at # NoNode)
          /\ j.at # NoNode => \A i \in 1 .. Len(x.items[j.at]) : i = d.place \/ Before(s, d.place, i)
      BY <2>11, <3>1, NodeEntered DEF C
    <3> DEFINE After == {k \in A : Before(s, n, k)}
    <3>3. /\ After = {} => j.at = NoNode
          /\ After # {} => j.at \in After /\ \A k \in After : k = j.at \/ Before(s, j.at, k)
      <4>1. Shape(x.data, D) /\ AllFresh(x.data)
        BY <1>1 DEF Sound
      <4> QED
        BY <2>2, <3>1, <4>1, NeighbourIsNext DEF A
    <3>4. NoNode \notin A /\ \A k \in A : k \in Nat
      BY PlacesAre DEF A
    <3>5. CASE j.at = NoNode
      <4>1. After = {}
        BY <3>3, <3>4, <3>5
      <4>2. ASSUME NEW p \in P PROVE p = <<n, e>> \/ Comes(s, p, <<n, e>>)
        <5>1. CASE p[1] = n
          BY <2>5, <2>6, <2>8, <2>11, <5>1
        <5>2. CASE p[1] # n
          <6>1. Before(s, p[1], n)
            <7>1. p[1] \in A /\ ~Before(s, n, p[1]) /\ p[1] \in Nat /\ n \in Nat
              BY <2>2, <2>5, <3>4, <4>1
            <7> QED
              BY <5>2, <7>1 DEF Before
          <6> QED
            BY <2>8, <6>1
        <5> QED
          BY <5>1, <5>2
      <4>3. d \in SetStop(x)
        BY <1>3, <3>2, <3>5
      <4> QED
        BY <1>2, <2>3, <2>4, <3>2, <4>2, <4>3
    <3>6. CASE j.at # NoNode
      <4> DEFINE m == j.at
                 g == d.place
      <4>1. m \in A /\ Before(s, n, m) /\ \A k \in A : Before(s, n, k) => k = m \/ Before(s, m, k)
        BY <3>3, <3>6
      <4>2. d \notin SetStop(x) /\ ItemAt(x)[d] = <<m, g>> /\ IsAtItem(x, d)
        BY <1>3, <3>2, <3>6
      <4>3. <<m, g>> \in P
        <5>1. g \in 1 .. Len(x.items[m])
          BY <3>2, <4>2 DEF IsAtItem
        <5> QED
          BY <4>1, <5>1, PlacesAre DEF P, A
      <4>4. Comes(s, <<n, e>>, <<m, g>>)
        BY <2>7, <4>1
      <4>5. ASSUME NEW p \in P, Comes(s, <<n, e>>, p) PROVE p = <<m, g>> \/ Comes(s, <<m, g>>, p)
        <5>1. Before(s, n, p[1])
          <6>1. CASE p[1] = n
            <7>1. p[2] = e \/ Before(s, p[2], e)
              BY <2>6, <2>11, <6>1
            <7>2. p[2] \in Nat /\ e \in Nat /\ n \in Nat
              <8> DEFINE u == Len(x.items[n])
              <8>1. u \in Nat /\ l = u
                BY <2>2, PlacesAre DEF A, l
              <8> HIDE DEF u
              <8> QED
                BY <2>1, <2>2, <2>6, <3>4, <6>1, <8>1
            <7>3. Before(s, e, p[2])
              BY <2>8, <4>5, <6>1, <7>2 DEF Before
            <7> QED
              BY <7>1, <7>2, <7>3 DEF Before
          <6>2. CASE p[1] # n
            BY <2>8, <4>5, <6>2
          <6> QED
            BY <6>1, <6>2
        <5>2. p[1] = m \/ Before(s, m, p[1])
          BY <2>5, <4>1, <5>1
        <5>3. CASE p[1] = m
          <6>1. p[2] = g \/ Before(s, g, p[2])
            BY <2>5, <3>2, <3>6, <5>3
          <6> QED
            BY <2>5, <2>8, <5>3, <6>1
        <5>4. CASE Before(s, m, p[1])
          BY <2>8, <5>4
        <5> QED
          BY <5>2, <5>3, <5>4
      <4> QED
        BY <1>2, <2>3, <2>4, <3>2, <4>2, <4>3, <4>4, <4>5
    <3> QED
      BY <3>5, <3>6
  <2> QED
    BY <2>9, <2>10, <2>11
<1> QED
  BY <1>4 DEF GoesOn

\* It starts with the first one.
LEMMA ItemsStart ==
  ASSUME NEW x, SetOK(x), NEW s \in Sides
  PROVE  LET c == IF s = "left" THEN SetBegin(x) ELSE SetRBegin(x)
         IN  c \in SetCursors(x) /\ StartsAt(Places(x), ItemOrder(x, s), SetStop(x), ItemAt(x), c)
<1> DEFINE j == IF s = "left" THEN Begin(x.data) ELSE RBegin(x.data)
           c == IF s = "left" THEN SetBegin(x) ELSE SetRBegin(x)
           P == Places(x)
           R == ItemOrder(x, s)
           A == Allocated(x.data)
<1>1. PICK D : Sound(x.data, D)
  BY DEF SetOK
<1>2. j \in Spots(x.data) /\ (j.at = NoNode <=> A = {}) /\ \A k \in A : k = j.at \/ Before(s, j.at, k)
  BY <1>1, IteratorStarts
<1>3. c = Entered(x, j, s)
  BY DEF SetBegin, SetRBegin, Entered, Sides
<1> HIDE DEF c, j
<1>4. /\ c \in SetCursors(x) /\ c.node = j /\ (IsAtItem(x, c) <=> j.at # NoNode)
      /\ j.at # NoNode => \A i \in 1 .. Len(x.items[j.at]) : i = c.place \/ Before(s, c.place, i)
  BY <1>2, <1>3, NodeEntered
<1>5. (c \in SetStop(x) <=> ~IsAtItem(x, c)) /\ ItemAt(x)[c] = <<j.at, c.place>>
  BY <1>4 DEF SetStop, ItemAt
<1>6. \A p \in P : p = <<p[1], p[2]>> /\ p[1] \in A /\ p[2] \in 1 .. Len(x.items[p[1]])
  BY PlacesAre
<1>7. CASE j.at = NoNode
  <2>1. P = {}
    BY <1>2, <1>6, <1>7
  <2> QED
    BY <1>4, <1>5, <1>7, <2>1 DEF StartsAt, c
<1>8. CASE j.at # NoNode
  <2> DEFINE n == j.at
             e == c.place
  <2>1. <<n, e>> \in P
    <3>1. n \in A /\ e \in 1 .. Len(x.items[n])
      BY <1>2, <1>4, <1>8, SpotsAreNodes DEF IsAtItem
    <3> QED
      BY <3>1, PlacesAre
  <2>2. ASSUME NEW p \in P PROVE p = <<n, e>> \/ <<<<n, e>>, p>> \in R
    <3>1. p[1] = n \/ Before(s, n, p[1])
      BY <1>2, <1>6
    <3>2. p[1] = n => p[2] = e \/ Before(s, e, p[2])
      BY <1>4, <1>6, <1>8
    <3>3. <<<<n, e>>, p>> \in R <=> Before(s, n, p[1]) \/ (n = p[1] /\ Before(s, e, p[2]))
      BY <2>1 DEF ItemOrder, Comes
    <3> HIDE DEF P, R, n, e
    <3> QED
      BY <1>6, <3>1, <3>2, <3>3
  <2> QED
    BY <1>4, <1>5, <1>8, <2>2 DEF StartsAt, c
<1> QED
  BY <1>7, <1>8

\* It meets all items in their order.
LEMMA ItemsInOrder ==
  ASSUME NEW x, SetOK(x), NEW s \in Sides
  PROVE  LET q == Met(x, IF s = "left" THEN SetBegin(x) ELSE SetRBegin(x), s = "left")
         IN  Occurring(q) = Places(x) /\ Rises(q, ItemOrder(x, s))
<1> DEFINE X     == Keys \X Nat
           C     == SetCursors(x)
           P     == Places(x)
           R     == ItemOrder(x, s)
           point == ItemAt(x)
           nxt   == ItemNext(x, s)
           Stop  == SetStop(x)
           forward == s = "left"
           start == IF s = "left" THEN SetBegin(x) ELSE SetRBegin(x)
           go[w \in [at : [node : Spots(x.data), place : Nat], met : Seq(Keys \X Nat)]] ==
             IF ~IsAtItem(x, w.at) THEN w.met
             ELSE go[[at  |-> IF forward THEN SetAdvance(x, w.at) ELSE SetRetreat(x, w.at),
                      met |-> Append(w.met, <<w.at.node.at, w.at.place>>)]]
<1>1. Met(x, start, forward) = go[[at |-> start, met |-> <<>>]]
  BY DEF Met
<1>2. P \subseteq X
  <2> SUFFICES ASSUME NEW p \in P PROVE p \in X
    OBVIOUS
  <2> DEFINE l == Len(x.items[p[1]])
  <2>1. p = <<p[1], p[2]>> /\ p[1] \in Keys /\ p[2] \in 1 .. l /\ l \in Nat
    BY PlacesAre
  <2>2. p[2] \in Nat
    <3> HIDE DEF l
    <3> QED
      BY <2>1
  <2> QED
    BY <2>1, <2>2
<1>3. IsFiniteSet(P)
  <2>1. CASE P = {}
    BY <2>1, FS_EmptySet
  <2>2. CASE P # {}
    <3>1. PICK p : p \in P
      BY <2>2
    <3>2. p[1] \in Entries /\ x.items \in [Entries -> Seq(Item)]
      BY <3>1, PlacesAre DEF SetOK
    <3>3. IsFiniteSet(PlacesOf(x.items, Entries))
      BY <3>2, PlacesCount
    <3> QED
      BY <3>3, PlacesAre
  <2> QED
    BY <2>1, <2>2
<1>4. Orders(P, R) /\ GoesOn(P, R, C, Stop, point, nxt)
  BY ItemsOrder, ItemsAreWalked
<1>5. \A h : \A w \in Strides(C, X) :
        (IF w \in Stopped(C, X, Stop) THEN MetBy(C, X)[w] ELSE h[Stride(C, X, Stop, point, nxt)[w]])
        = IF ~IsAtItem(x, w.at) THEN w.met
          ELSE h[[at  |-> IF forward THEN SetAdvance(x, w.at) ELSE SetRetreat(x, w.at),
                  met |-> Append(w.met, <<w.at.node.at, w.at.place>>)]]
  <2> SUFFICES ASSUME NEW h, NEW w \in Strides(C, X)
               PROVE  (IF w \in Stopped(C, X, Stop) THEN MetBy(C, X)[w]
                       ELSE h[Stride(C, X, Stop, point, nxt)[w]])
                      = IF ~IsAtItem(x, w.at) THEN w.met
                        ELSE h[[at  |-> IF forward THEN SetAdvance(x, w.at) ELSE SetRetreat(x, w.at),
                                met |-> Append(w.met, <<w.at.node.at, w.at.place>>)]]
    OBVIOUS
  <2>1. w.at \in C /\ (w.at \in Stop <=> ~IsAtItem(x, w.at))
    BY DEF Strides, SetStop
  <2>2. /\ point[w.at] = <<w.at.node.at, w.at.place>>
        /\ nxt[w.at] = IF forward THEN SetAdvance(x, w.at) ELSE SetRetreat(x, w.at)
    BY <2>1 DEF ItemAt, ItemNext, SetGone
  <2> HIDE DEF point, nxt, Stop, C, X, forward
  <2> QED
    BY <2>1, <2>2 DEF Stopped, MetBy, Stride, Strode
<1> HIDE DEF C, point, nxt, Stop, forward, start, P, R
<1>6. \E h : h = [w \in [at : [node : Spots(x.data), place : Nat], met : Seq(Keys \X Nat)] |->
                    IF ~IsAtItem(x, w.at) THEN w.met
                    ELSE h[[at  |-> IF forward THEN SetAdvance(x, w.at) ELSE SetRetreat(x, w.at),
                            met |-> Append(w.met, <<w.at.node.at, w.at.place>>)]]]
  <2> HIDE DEF X
  <2>1. PICK f : Solves(f, Strides(C, X), Stride(C, X, Stop, point, nxt), Stopped(C, X, Stop), MetBy(C, X))
    BY <1>2, <1>4, WalkHasSolution
  <2>2. f = [w \in Strides(C, X) |->
               IF ~IsAtItem(x, w.at) THEN w.met
               ELSE f[[at  |-> IF forward THEN SetAdvance(x, w.at) ELSE SetRetreat(x, w.at),
                       met |-> Append(w.met, <<w.at.node.at, w.at.place>>)]]]
    <3>1. \A w \in Strides(C, X) :
            f[w] = IF ~IsAtItem(x, w.at) THEN w.met
                   ELSE f[[at  |-> IF forward THEN SetAdvance(x, w.at) ELSE SetRetreat(x, w.at),
                           met |-> Append(w.met, <<w.at.node.at, w.at.place>>)]]
      BY <1>5, <2>1 DEF Solves
    <3>2. f = [w \in Strides(C, X) |-> f[w]]
      BY <2>1 DEF Solves
    <3> QED
      BY <3>1, <3>2
  <2> QED
    BY <2>2 DEF Strides, C, SetCursors, X
<1>7. go = [w \in [at : [node : Spots(x.data), place : Nat], met : Seq(Keys \X Nat)] |->
              IF ~IsAtItem(x, w.at) THEN w.met
              ELSE go[[at  |-> IF forward THEN SetAdvance(x, w.at) ELSE SetRetreat(x, w.at),
                       met |-> Append(w.met, <<w.at.node.at, w.at.place>>)]]]
  BY <1>6, Zenon
<1> HIDE DEF go
<1>8. Solves(go, Strides(C, X), Stride(C, X, Stop, point, nxt), Stopped(C, X, Stop), MetBy(C, X))
  <2>1. go = [w \in Strides(C, X) |->
                IF ~IsAtItem(x, w.at) THEN w.met
                ELSE go[[at  |-> IF forward THEN SetAdvance(x, w.at) ELSE SetRetreat(x, w.at),
                         met |-> Append(w.met, <<w.at.node.at, w.at.place>>)]]]
    BY <1>7 DEF Strides, C, SetCursors, X
  <2> HIDE DEF X
  <2>2. go = [w \in Strides(C, X) |-> go[w]]
    BY <2>1
  <2>3. ASSUME NEW w \in Strides(C, X)
        PROVE  go[w] = IF ~IsAtItem(x, w.at) THEN w.met
                       ELSE go[[at  |-> IF forward THEN SetAdvance(x, w.at) ELSE SetRetreat(x, w.at),
                                met |-> Append(w.met, <<w.at.node.at, w.at.place>>)]]
    BY <2>1
  <2>4. \A w \in Strides(C, X) :
          go[w] = IF w \in Stopped(C, X, Stop) THEN MetBy(C, X)[w]
                  ELSE go[Stride(C, X, Stop, point, nxt)[w]]
    BY <1>5, <2>3
  <2> QED
    BY <2>2, <2>4 DEF Solves
<1>9. start \in C /\ StartsAt(P, R, Stop, point, start)
  BY ItemsStart DEF start, C, P, R, Stop, point
<1> DEFINE q == Met(x, start, forward)
<1>10. q \in Seq(P) /\ Rises(q, R) /\ Occurring(q) = P
  <2> HIDE DEF q, X
  <2>1. q = go[[at |-> start, met |-> <<>>]]
    BY <1>1 DEF q
  <2> QED
    BY <1>2, <1>3, <1>4, <1>8, <1>9, <2>1, WalkMeetsAll
<1> QED
  BY <1>10 DEF start, forward, P, R

\* A set as it should be counts its items.
LEMMA SetOKCounts == SetOK(set) => SetCountsItsItems
<1> SUFFICES ASSUME SetOK(set) PROVE SetCountsItsItems
  OBVIOUS
<1> DEFINE P     == Places(set)
           there == Met(set, SetBegin(set), TRUE)
           back  == Met(set, SetRBegin(set), FALSE)
           Mirrored == {<<r[2], r[1]>> : r \in Order(set)}
<1>1. set.size = Cardinality(P)
  BY DEF SetOK
<1>2. \A k \in Entries : Contains(set.data, k) <=> set.items[k] # <<>>
  <2>1. PICK D : Sound(set.data, D)
    BY DEF SetOK
  <2> QED
    BY <2>1, EntriesAssumption, SearchIsExact DEF SetOK, Sound
<1>3. \A p \in P : set.items[p[1]][p[2]].key = p[1]
  <2> SUFFICES ASSUME NEW k \in Entries, NEW i \in DOMAIN set.items[k] PROVE set.items[k][i].key = k
    BY DEF Places
  <2> QED
    BY DEF SetOK, Keyed
<1>4. "left" \in Sides /\ "right" \in Sides /\ ("left" = "left") = TRUE /\ ("right" = "left") = FALSE
  BY DEF Sides
<1>5. Occurring(there) = P /\ Rises(there, ItemOrder(set, "left"))
  <2>1. there = Met(set, IF "left" = "left" THEN SetBegin(set) ELSE SetRBegin(set), "left" = "left")
    BY <1>4
  <2> HIDE DEF there, P
  <2> QED
    BY <1>4, <2>1, ItemsInOrder DEF P
<1>6. Occurring(back) = P /\ Rises(back, ItemOrder(set, "right"))
  <2>1. back = Met(set, IF "right" = "left" THEN SetBegin(set) ELSE SetRBegin(set), "right" = "left")
    BY <1>4
  <2> HIDE DEF back, P
  <2> QED
    BY <1>4, <2>1, ItemsInOrder DEF P
<1>7. \A r \in ItemOrder(set, "left") : r \in Order(set)
  BY DEF ItemOrder, Order, Comes, Before
<1>8. \A r \in ItemOrder(set, "right") : r \in Mirrored
  <2> SUFFICES ASSUME NEW r \in ItemOrder(set, "right") PROVE r \in Mirrored
    OBVIOUS
  <2> DEFINE o == <<r[2], r[1]>>
  <2>1. r = <<r[1], r[2]>> /\ r[1] \in P /\ r[2] \in P /\ Comes("right", r[1], r[2])
    BY DEF ItemOrder
  <2>2. \A p \in P : p[1] \in Nat /\ p[2] \in Nat
    <3> SUFFICES ASSUME NEW p \in P PROVE p[1] \in Nat /\ p[2] \in Nat
      OBVIOUS
    <3> DEFINE l == Len(set.items[p[1]])
    <3>1. p[1] \in Nat /\ p[2] \in 1 .. l /\ l \in Nat
      BY PlacesAre
    <3> HIDE DEF l, P
    <3> QED
      BY <3>1
  <2>3. r[2][1] < r[1][1] \/ (r[2][1] = r[1][1] /\ r[2][2] < r[1][2])
    BY <2>1, <2>2 DEF Comes, Before
  <2>4. o \in Order(set)
    BY <2>1, <2>3 DEF Order
  <2>5. r = <<o[2], o[1]>>
    BY <2>1
  <2> QED
    BY <2>4, <2>5
<1>9. Rises(there, Order(set))
  <2> HIDE DEF there
  <2> QED
    BY <1>5, <1>7 DEF Rises
<1>10. Rises(back, Mirrored)
  <2> HIDE DEF back, Mirrored
  <2> QED
    BY <1>6, <1>8 DEF Rises
<1> QED
  BY <1>1, <1>2, <1>3, <1>5, <1>6, <1>9, <1>10 DEF SetCountsItsItems

\* Every step keeps it so.
LEMMA SetStep ==
  ASSUME SetOK(set), SetNext
  PROVE  SetOK(set')
<1>1. SetChange
  BY DEF SetNext
<1>2. ASSUME NEW k \in Entries, NEW v \in Tags, NEW multiple \in BOOLEAN,
             set' = SetInsert(set, [key |-> k, tag |-> v], multiple)
      PROVE  SetOK(set')
  <2>1. SetOK(SetInsert(set, [key |-> k, tag |-> v], multiple))
    BY SetCalls
  <2> QED
    BY <1>2, <2>1
<1>3. ASSUME NEW k \in Entries, NEW all \in BOOLEAN, set' = SetRemove(set, k, all) PROVE SetOK(set')
  <2>1. SetOK(SetRemove(set, k, all))
    BY SetCalls
  <2> QED
    BY <1>3, <2>1
<1>4. ASSUME set' = NewSet \/ set' = CopySet(set) PROVE SetOK(set')
  <2>1. SetOK(NewSet) /\ SetOK(CopySet(set))
    BY SetCalls
  <2> QED
    BY <1>4, <2>1
<1> QED
  BY <1>1, <1>2, <1>3, <1>4 DEF SetChange

\* Maps and sets are right, for every set of keys and however long they have been in use:
\* a map has the values it was given and not deprived of, every call makes of it the map
\* that it promises, and Keys() has its keys in order; a set counts its items and iterates
\* over all of them in order, both ways.
THEOREM MapsAndSetsStayRight == MapAndSetSpec => []MapsAndSetsAreRight
<1> DEFINE Both == MapOK(map) /\ SetOK(set)
<1>1. MapInit => Both
  BY NewMapIsRight, NewSetIsRight DEF MapInit
<1>2. Both /\ [(MapNext /\ UNCHANGED set) \/ (SetNext /\ UNCHANGED map)]_<<map, set>> => Both'
  <2> SUFFICES ASSUME Both, [(MapNext /\ UNCHANGED set) \/ (SetNext /\ UNCHANGED map)]_<<map, set>>
               PROVE  MapOK(map') /\ SetOK(set')
    BY DEF MapOK, SetOK, Places
  <2>1. CASE MapNext /\ UNCHANGED set
    BY <2>1, MapStep
  <2>2. CASE SetNext /\ UNCHANGED map
    BY <2>2, SetStep
  <2>3. CASE UNCHANGED <<map, set>>
    BY <2>3
  <2> QED
    BY <2>1, <2>2, <2>3
<1>3. Both => MapsAndSetsAreRight
  BY MapOKFollows, SetOKCounts DEF MapsAndSetsAreRight
<1> QED
  BY <1>1, <1>2, <1>3, PTL DEF MapAndSetSpec
=============================================================================
