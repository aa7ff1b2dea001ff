------------------------------- MODULE KeySet -------------------------------
(***************************************************************************)
(* What a user of the search tree sees (BinarySearchTree): a set of keys.  *)
(* A call adds one new key, removes one, or empties the set; a copy is the *)
(* same set.                                                               *)
(***************************************************************************)
CONSTANT Keys

VARIABLE items

Init == items = {}

Add(k) == k \in Keys \ items /\ items' = items \cup {k}

Remove(k) == k \in items /\ items' = items \ {k}

Clear == items' = {}

Copy == UNCHANGED items

Next == Copy \/ Clear \/ \E k \in Keys : Add(k) \/ Remove(k)

Spec == Init /\ [][Next]_items
=============================================================================
