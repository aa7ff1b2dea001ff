-------------------------- MODULE BinarySearchTree --------------------------
(***************************************************************************)
(* BinarySearchTree (src/core/data_objects/binarysearchtree.h): a search   *)
(* tree whose nodes point to their parents and children and cache their    *)
(* height and the ends of their subtree.  Keys are unique, so a node is    *)
(* named by its key.  An operation is an operator from trees to trees,     *)
(* built from the private functions of the class in the order it calls     *)
(* them; the loops are recursive functions.                                *)
(***************************************************************************)
EXTENDS Integers, FiniteSets

CONSTANT Keys       \* the keys the program uses (a bound)

ASSUME KeysAssumption == Keys \subseteq Nat \ {0} /\ IsFiniteSet(Keys)

VARIABLE tree       \* root, m_size and the fields of the nodes

NoNode == 0         \* the null pointer
Node   == Keys \cup {NoNode}
Links  == [Keys -> Node]

Tree == [root : Node, size : Nat, parent : Links, left : Links, right : Links,
         height : [Keys -> Nat], leftmost : Links, rightmost : Links]

\* The fields of a key that has no node are all 0.
Empty == LET blank == [k \in Keys |-> 0]
         IN  [root |-> NoNode, size |-> 0, parent |-> blank, left |-> blank, right |-> blank,
              height |-> blank, leftmost |-> blank, rightmost |-> blank]

Allocated(t) == {k \in Keys : t.leftmost[k] # NoNode}

---------------------------------------------------------------------------
(* Nodes *)

\* What child c contributes to the height of its parent.
ChildHeight(t, c) == IF c = NoNode THEN 0 ELSE 1 + t.height[c]

HeightDifference(t, n) == ChildHeight(t, t.left[n]) - ChildHeight(t, t.right[n])

Balanced(t, n) == HeightDifference(t, n) \in -1 .. 1

SideOfParent(t, n) ==
  LET p == t.parent[n]
  IN  CASE p # NoNode /\ t.left[p] = n  -> "left"
        [] p # NoNode /\ t.right[p] = n -> "right"
        [] OTHER                        -> "none"

\* _refresh_node_state: recompute what n caches from what its children cache.
Refresh(t, n) ==
  LET l == t.left[n]
      r == t.right[n]
      h == IF ChildHeight(t, l) > ChildHeight(t, r) THEN ChildHeight(t, l)
                                                    ELSE ChildHeight(t, r)
  IN  [t EXCEPT !.height[n]    = h,
                !.leftmost[n]  = IF l = NoNode THEN n ELSE t.leftmost[l],
                !.rightmost[n] = IF r = NoNode THEN n ELSE t.rightmost[r]]

\* p, if there is one, has c in the place of its child n.
ReplaceChild(t, p, n, c) ==
  IF p = NoNode THEN t
  ELSE [t EXCEPT !.left[p]  = IF @ = n THEN c ELSE @,
                 !.right[p] = IF @ = n THEN c ELSE @]

SetParent(t, n, p) == IF n = NoNode THEN t ELSE [t EXCEPT !.parent[n] = p]

\* Turn n down to its side `light`: its child on the side `heavy` takes its place.
\* (The callers have found that there is one.)
Rotate(t, n, heavy, light) ==
  LET up     == t[heavy][n]
      middle == IF up = NoNode THEN NoNode ELSE t[light][up]
      top    == SetParent(ReplaceChild(t, t.parent[n], n, up), up, t.parent[n])
      turned == [top EXCEPT !.parent[n] = up, ![light][up] = n, ![heavy][n] = middle]
  IN  Refresh(SetParent(turned, middle, n), n)

RotateRight(t, n) == Rotate(t, n, "left", "right")
RotateLeft(t, n)  == Rotate(t, n, "right", "left")

\* A bug to detect: a child that leans the other way is not turned first.
RebalanceOnce(t, n) ==
  IF HeightDifference(t, n) > 1 THEN RotateRight(t, n)
  ELSE IF HeightDifference(t, n) < -1 THEN RotateLeft(t, n) ELSE t

Rebalance(t, n) ==
  LET l == t.left[n]
      r == t.right[n]
  IN  IF HeightDifference(t, n) > 1
      THEN RotateRight(IF HeightDifference(t, l) < 0 THEN RotateLeft(t, l) ELSE t, n)
      ELSE IF HeightDifference(t, n) < -1
      THEN RotateLeft(IF HeightDifference(t, r) > 0 THEN RotateRight(t, r) ELSE t, n)
      ELSE t

\* _walk_parents_update_heights_rebalance: from n to the root, refresh every
\* node and rebalance the first unbalanced one, and no other.
WalkUp(t, n) ==
  LET walk[w \in [tree : Tree, at : Node, balanced : BOOLEAN]] ==
        IF w.at = NoNode THEN w.tree
        ELSE LET fresh == Refresh(w.tree, w.at)
                 turn  == ~w.balanced /\ ~Balanced(fresh, w.at)
                 next  == IF turn THEN Rebalance(fresh, w.at) ELSE fresh
             IN  walk[[tree |-> next, at |-> next.parent[w.at],
                       balanced |-> w.balanced \/ turn]]
  IN  walk[[tree |-> t, at |-> n, balanced |-> FALSE]]

UpdateRoot(t) ==
  LET top[n \in Node] == IF n = NoNode \/ t.parent[n] = NoNode THEN n ELSE top[t.parent[n]]
  IN  [t EXCEPT !.root = top[t.root]]

---------------------------------------------------------------------------
(* Looking up and iterating *)

\* Search: where the search for key k ends, at the node of k or at the node that
\* k would be a child of.
SearchEnd(t, k) ==
  LET go[n \in Keys] ==
        LET next == IF k < n THEN t.left[n] ELSE t.right[n]
        IN  IF n = k \/ next = NoNode THEN n ELSE go[next]
  IN  IF t.root = NoNode THEN NoNode ELSE go[t.root]

Contains(t, k) == SearchEnd(t, k) = k

Contents(t) == {k \in Keys : Contains(t, k)}

First(t) == IF t.root = NoNode THEN NoNode ELSE t.leftmost[t.root]
Last(t)  == IF t.root = NoNode THEN NoNode ELSE t.rightmost[t.root]

\* An iterator: m_begin and m_end remember where it left the tree.
Iterator(n) == [at |-> n, begin |-> NoNode, end |-> NoNode]

\* The first node from n upwards that is the child of its parent on that side.
ClimbTo(t, n, side) ==
  LET up[j \in Node] ==
        IF j = NoNode \/ SideOfParent(t, j) = side THEN j ELSE up[t.parent[j]]
  IN  up[n]

\* A bug to detect: from a leaf the iterator goes to the parent, whichever side
\* it is on.
AdvanceOneUp(t, i) ==
  IF i.at = NoNode
  THEN IF i.begin = NoNode THEN i ELSE [i EXCEPT !.at = i.begin, !.begin = NoNode]
  ELSE IF t.right[i.at] # NoNode THEN [i EXCEPT !.at = t.leftmost[t.right[i.at]]]
  ELSE [i EXCEPT !.at = t.parent[i.at], !.end = i.at]

Advance(t, i) ==
  LET jump == ClimbTo(t, i.at, "left")
  IN  IF i.at = NoNode
      THEN IF i.begin = NoNode THEN i ELSE [i EXCEPT !.at = i.begin, !.begin = NoNode]
      ELSE IF t.right[i.at] # NoNode THEN [i EXCEPT !.at = t.leftmost[t.right[i.at]]]
      ELSE IF jump # NoNode THEN [i EXCEPT !.at = t.parent[jump]]
      ELSE [i EXCEPT !.at = NoNode, !.end = i.at]

Retreat(t, i) ==
  LET jump == ClimbTo(t, i.at, "right")
  IN  IF i.at = NoNode
      THEN IF i.end = NoNode THEN i ELSE [i EXCEPT !.at = i.end, !.end = NoNode]
      ELSE IF t.left[i.at] # NoNode THEN [i EXCEPT !.at = t.rightmost[t.left[i.at]]]
      ELSE IF jump # NoNode THEN [i EXCEPT !.at = t.parent[jump]]
      ELSE [i EXCEPT !.at = NoNode, !.begin = i.at]

Begin(t)  == Iterator(First(t))
End(t)    == IF t.size > 0 THEN Advance(t, Iterator(Last(t))) ELSE Iterator(NoNode)
RBegin(t) == IF t.size > 0 THEN Iterator(Last(t)) ELSE Iterator(NoNode)
REnd(t)   == IF t.size > 0 THEN Retreat(t, Iterator(First(t))) ELSE Iterator(NoNode)

---------------------------------------------------------------------------
(* Operations *)

\* The new node of Add, below `above`.
Leaf(t, k, above) ==
  LET side == IF k < above THEN "left" ELSE "right"
      new  == [t EXCEPT !.parent[k] = above, !.leftmost[k] = k, !.rightmost[k] = k]
  IN  IF above = NoNode THEN [new EXCEPT !.root = k]
      ELSE [new EXCEPT ![side][above] = k]

Added(t, k) ==
  LET above == SearchEnd(t, k)
      grown == [Leaf(t, k, above) EXCEPT !.size = @ + 1]
  IN  IF above = NoNode THEN grown ELSE UpdateRoot(WalkUp(grown, above))

\* A bug to detect: the far end of the taller subtree is taken.
ReplacementFarEnd(t, n) ==
  IF t.height[n] = 0 THEN NoNode
  ELSE IF HeightDifference(t, n) > 0 THEN t.leftmost[t.left[n]]
  ELSE t.rightmost[t.right[n]]

\* The node that takes the place of n.
Replacement(t, n) ==
  IF t.height[n] = 0 THEN NoNode
  ELSE IF HeightDifference(t, n) > 0 THEN t.rightmost[t.left[n]]
  ELSE t.leftmost[t.right[n]]

\* The root is adjusted before n is deleted, so that a new one can be found.
LeaveRoot(t, n) ==
  IF t.root # n THEN t
  ELSE [t EXCEPT !.root = IF t.right[n] # NoNode THEN t.right[n] ELSE t.left[n]]

\* A bug to detect: the child is not told of its new parent.
TakeOutForgetful(t, n, r) ==
  IF r = NoNode \/ t.parent[r] = n THEN t
  ELSE ReplaceChild(t, t.parent[r], r, IF t.right[r] # NoNode THEN t.right[r] ELSE t.left[r])

\* The child of the replacement r, if it has one, moves into the place of r.
TakeOut(t, n, r) ==
  LET child == IF t.right[r] # NoNode THEN t.right[r] ELSE t.left[r]
      p     == t.parent[r]
  IN  IF r = NoNode \/ p = n THEN t ELSE SetParent(ReplaceChild(t, p, r, child), child, p)

\* r takes over the parent and the children of n; n is deleted.
PutInPlace(t, n, r) ==
  LET adopt  == IF r = NoNode THEN t
                ELSE [t EXCEPT !.parent[r] = t.parent[n],
                               !.left[r]   = IF t.left[n] # r THEN t.left[n] ELSE @,
                               !.right[r]  = IF t.right[n] # r THEN t.right[n] ELSE @]
      right  == IF t.right[n] # r THEN SetParent(adopt, t.right[n], r) ELSE adopt
      left   == IF t.left[n] # r THEN SetParent(right, t.left[n], r) ELSE right
      linked == ReplaceChild(left, t.parent[n], n, r)
  IN  [linked EXCEPT !.parent[n] = 0, !.left[n] = 0, !.right[n] = 0, !.height[n] = 0,
                     !.leftmost[n] = 0, !.rightmost[n] = 0]

Removed(t, n) ==
  LET r     == Replacement(t, n)
      start == IF r = NoNode THEN t.parent[n]
               ELSE IF t.parent[r] = n THEN r ELSE t.parent[r]
      moved == PutInPlace(TakeOut(LeaveRoot(t, n), n, r), n, r)
  IN  [UpdateRoot(WalkUp(moved, start)) EXCEPT !.size = @ - 1]

\* A bug to detect: the copy starts at the root, and loses the keys before it.
CopiedFromRoot(t) ==
  LET at[n \in Nat]   == IF n = 0 THEN Iterator(t.root) ELSE Advance(t, at[n - 1])
      copy[n \in Nat] == IF n = 0 THEN Empty
                         ELSE IF at[n - 1].at = NoNode THEN copy[n - 1]
                         ELSE Added(copy[n - 1], at[n - 1].at)
  IN  copy[Cardinality(Keys)]

\* The copy constructor goes through t with an iterator and adds every item that it meets.
Copied(t) ==
  LET at[n \in Nat]   == IF n = 0 THEN Begin(t) ELSE Advance(t, at[n - 1])
      copy[n \in Nat] == IF n = 0 THEN Empty
                         ELSE IF at[n - 1].at = NoNode THEN copy[n - 1]
                         ELSE Added(copy[n - 1], at[n - 1].at)
  IN  copy[Cardinality(Keys)]

\* UniqueKeyException if there is an item of that key.
Add(k) == ~Contains(tree, k) /\ tree' = Added(tree, k)

\* Nothing happens if there is none.
Remove(k) == Contains(tree, k) /\ tree' = Removed(tree, k)

ClearTree == tree' = Empty

Copy == tree' = Copied(tree)

TreeInit == tree = Empty

TreeNext == \/ \E k \in Keys : Add(k) \/ Remove(k)
            \/ ClearTree \/ Copy

TreeSpec == TreeInit /\ [][TreeNext]_tree

---------------------------------------------------------------------------
(* Correctness *)

Subtree(t, n) ==
  LET sub[m \in Node] == IF m = NoNode THEN {}
                         ELSE {m} \cup sub[t.left[m]] \cup sub[t.right[m]]
  IN  sub[n]

LinksAreSound ==
  /\ tree.root # NoNode => tree.parent[tree.root] = NoNode
  /\ Subtree(tree, tree.root) = Allocated(tree)
  /\ tree.size = Cardinality(Allocated(tree))
  /\ \A n \in Allocated(tree) :
       LET l == tree.left[n]
           r == tree.right[n]
       IN  /\ l # NoNode => tree.parent[l] = n /\ \A m \in Subtree(tree, l) : m < n
           /\ r # NoNode => tree.parent[r] = n /\ \A m \in Subtree(tree, r) : m > n
           /\ Refresh(tree, n) = tree

\* "Implements an AVL-balanced binary search tree" (class comment).
TreeIsBalanced == \A n \in Allocated(tree) : Balanced(tree, n)

\* From every position, forwards and backwards: an iterator goes to the next key
\* in order; past the last or the first key it is invalid, and it comes back.
FollowsOrder(t, keys) ==
  LET After(n)  == {k \in keys : k > n}
      Before(n) == {k \in keys : k < n}
      IsLeast(n, s)    == n \in s /\ \A k \in s : n <= k
      IsGreatest(n, s) == n \in s /\ \A k \in s : n >= k
  IN  /\ IF keys = {}
         THEN {Begin(t), End(t), RBegin(t), REnd(t)} = {Iterator(NoNode)}
         ELSE /\ IsLeast(Begin(t).at, keys) /\ Advance(t, REnd(t)) = Begin(t)
              /\ IsGreatest(RBegin(t).at, keys) /\ Retreat(t, End(t)) = RBegin(t)
      /\ \A n \in keys :
           /\ IF After(n) = {} THEN Advance(t, Iterator(n)) = End(t)
                               ELSE IsLeast(Advance(t, Iterator(n)).at, After(n))
           /\ IF Before(n) = {} THEN Retreat(t, Iterator(n)) = REnd(t)
                                ELSE IsGreatest(Retreat(t, Iterator(n)).at, Before(n))

\* Whatever was added and removed in whatever order: every node that is allocated is in
\* the tree once, in order, linked both ways, its caches are what its subtree says, the
\* root and m_size are right, and iterators go through it in order from anywhere.
TreeIsSound == LinksAreSound /\ FollowsOrder(tree, Contents(tree))

\* Add() leaves a balanced tree balanced, whatever shape it has.
AddKeepsBalance ==
  [][ TreeIsBalanced /\ tree.size < tree'.size => TreeIsBalanced' ]_tree

Items == INSTANCE KeySet WITH items <- Contents(tree)

\* What Search finds changes as a set does: whatever the shape of the tree, Add makes it
\* find the key that is added and no other one, Remove makes it miss the key that is
\* removed and no other one; Clear leaves nothing, and a copy contains the same keys.
ImplementsKeySet ==
  /\ Items!Spec
  /\ [][ tree' # tree =>
         /\ \A k \in Keys : (Items!Add(k) \/ ~Add(k)) /\ (Items!Remove(k) \/ ~Remove(k))
         /\ (Items!Clear \/ ~ClearTree) /\ (Items!Copy \/ ~Copy) ]_tree
=============================================================================
