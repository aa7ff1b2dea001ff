---------------------------- MODULE MCStructures ----------------------------
(* The instance of the single-threaded structures that TLC checks.  A behaviour *)
(* exercises one of them, so that their state spaces add up.                    *)
EXTENDS UndoStack, MapAndSet, Region

CONSTANT FewKeys,    \* a small tree has these keys,
         MinTall     \* a tall tree has all keys, and at least so many nodes (bounds)

VARIABLE subject     \* the structure that this behaviour exercises

MCInit == /\ subject \in {"undo", "small tree", "tall tree", "region", "map", "set"}
          /\ Init /\ TreeInit /\ MapInit /\ RegionInit

SmallTree == TreeNext /\ Allocated(tree') \subseteq FewKeys

\* While the tree is not tall, its keys are the first ones.
TallTree == /\ TreeNext
            /\ tree'.size >= MinTall \/ Allocated(tree') = 1 .. tree'.size

MCNext ==
  /\ UNCHANGED subject
  /\ subject # "undo" => UNCHANGED vars
  /\ subject \notin {"small tree", "tall tree"} => UNCHANGED tree
  /\ subject # "region" => UNCHANGED regions
  /\ subject # "map" => UNCHANGED map
  /\ subject # "set" => UNCHANGED set
  /\ \/ subject = "undo" /\ Next
     \/ subject = "small tree" /\ SmallTree
     \/ subject = "tall tree" /\ TallTree
     \/ subject = "region" /\ RegionNext
     \/ subject = "map" /\ MapNext
     \/ subject = "set" /\ SetNext

MCSpec == MCInit /\ [][MCNext]_<<subject, vars, tree, regions, map, set>>
=============================================================================
