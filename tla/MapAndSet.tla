----------------------------- MODULE MapAndSet -----------------------------
(***************************************************************************)
(* Map (src/core/data_objects/map.h) and Set (set.h): search trees whose   *)
(* nodes hold a vector, of the values of a key or of the items that        *)
(* compare equal.  Both tell a node by its key; the last one inserted      *)
(* counts, and a node goes when its vector is empty.  The trees are those  *)
(* of BinarySearchTree, whose operators lead from tree to tree.            *)
(***************************************************************************)
EXTENDS BinarySearchTree, Sequences

CONSTANTS Entries,    \* the keys of maps and sets (a bound)
          Tags,       \* the values of a map, and what tells equal items of a set apart
          Blank,      \* the value that V() makes
          MaxStack    \* a key has at most so many values (a bound)

ASSUME EntriesAssumption == Entries \subseteq Keys /\ Blank \in Tags /\ MaxStack \in Nat

VARIABLES map,        \* _index and the values of its pages
          set         \* data, the vectors of its nodes, and m_size

NoStacks == [k \in Entries |-> <<>>]

\* The index changes with the first and the last value of a key.
WithNode(t, k)    == IF Contains(t, k) THEN t ELSE Added(t, k)
WithoutNode(t, k) == IF Contains(t, k) THEN Removed(t, k) ELSE t

\* Where an iterator of a tree can be: at a node, or beyond an end, which it remembers.
Spots(t) == {Iterator(n) : n \in Allocated(t)}
              \cup [at : {NoNode}, begin : Allocated(t) \cup {NoNode}, end : Allocated(t) \cup {NoNode}]

---------------------------------------------------------------------------
(* Map *)

NewMap == [index |-> Empty, values |-> NoStacks]

\* A bug to detect: the values that are overwritten are kept.
InsertOver(m, k, v, overwrite) ==
  [index |-> WithNode(m.index, k), values |-> [m.values EXCEPT ![k] = Append(@, v)]]

\* _insert: the values of the key are overwritten, or v is added to them.
InsertValue(m, k, v, overwrite) ==
  [index  |-> WithNode(m.index, k),
   values |-> [m.values EXCEPT ![k] = IF overwrite THEN <<v>> ELSE Append(@, v)]]

RemoveKey(m, k) == [index |-> WithoutNode(m.index, k), values |-> [m.values EXCEPT ![k] = <<>>]]

\* RemoveAll of the vector: what is not v, in its order.
Unlike(s, v) ==
  LET go[w \in [at : Nat \ {0}, kept : Seq(Tags)]] ==
        IF w.at > Len(s) THEN w.kept
        ELSE go[[at   |-> w.at + 1,
                 kept |-> IF s[w.at] = v THEN w.kept ELSE Append(w.kept, s[w.at])]]
  IN  go[[at |-> 1, kept |-> <<>>]]

\* Remove(k, v) takes out every v, and the page with the last one.
RemoveValue(m, k, v) ==
  LET rest == Unlike(m.values[k], v)
  IN  IF ~Contains(m.index, k) THEN m
      ELSE [index  |-> IF rest = <<>> THEN Removed(m.index, k) ELSE m.index,
            values |-> [m.values EXCEPT ![k] = rest]]

\* At, Find and Values, for a key that is there: the last value, all values.
Found(m, k) == Contains(m.index, k)
Value(m, k) == m.values[k][Len(m.values[k])]

\* operator []: a key that is not there gets a blank value.
Subscript(m, k) == IF Found(m, k) THEN m ELSE InsertValue(m, k, Blank, TRUE)

\* Keys(), by the iterator.
KeysOf(m) ==
  LET go[w \in [at : Spots(m.index), met : Seq(Keys)]] ==
        IF w.at.at = NoNode THEN w.met
        ELSE go[[at |-> Advance(m.index, w.at), met |-> Append(w.met, w.at.at)]]
  IN  go[[at |-> Begin(m.index), met |-> <<>>]]

CopyMap(m) == [m EXCEPT !.index = Copied(@)]

---------------------------------------------------------------------------
(* Set: an item is a record of what the comparer looks at and a tag. *)

NewSet == [data |-> Empty, items |-> NoStacks, size |-> 0]

\* A bug to detect: the items that are overwritten are still counted.
SetInsertRecounted(s, x, multiple) ==
  [data  |-> WithNode(s.data, x.key),
   items |-> [s.items EXCEPT ![x.key] = IF multiple THEN Append(@, x) ELSE <<x>>],
   size  |-> s.size + 1]

\* Set::_insert.
SetInsert(s, x, multiple) ==
  LET equal == s.items[x.key]
  IN  [data  |-> WithNode(s.data, x.key),
       items |-> [s.items EXCEPT ![x.key] = IF multiple THEN Append(@, x) ELSE <<x>>],
       size  |-> s.size + 1 - (IF multiple THEN 0 ELSE Len(equal))]

\* Set::_remove: the last one goes, with it the node if it is empty or all are to go.
SetRemove(s, k, all) ==
  LET rest  == SubSeq(s.items[k], 1, Len(s.items[k]) - 1)
      empty == all \/ rest = <<>>
  IN  IF ~Contains(s.data, k) THEN s
      ELSE [data  |-> IF empty THEN Removed(s.data, k) ELSE s.data,
            items |-> [s.items EXCEPT ![k] = IF empty THEN <<>> ELSE rest],
            size  |-> s.size - 1 - (IF empty THEN Len(rest) ELSE 0)]

CopySet(s) == [s EXCEPT !.data = Copied(@)]

\* const_iterator: one of the tree, and a place in the vector of its node, which is
\* valid or beyond an end.
SetIterator(s, i, forward) ==
  [node |-> i, place |-> IF i.at = NoNode THEN 0 ELSE IF forward THEN 1 ELSE Len(s.items[i.at])]

IsAtItem(s, i) == i.node.at # NoNode /\ i.place \in 1 .. Len(s.items[i.node.at])

SetBegin(s)  == SetIterator(s, Begin(s.data), TRUE)
SetRBegin(s) == SetIterator(s, RBegin(s.data), FALSE)

\* Past the last item of a node to the first one of the next; beyond the last node the
\* place is no longer valid, and the iterator cannot come back.
SetAdvance(s, i) ==
  IF ~IsAtItem(s, i) THEN i
  ELSE IF i.place < Len(s.items[i.node.at]) THEN [i EXCEPT !.place = @ + 1]
  ELSE SetIterator(s, Advance(s.data, i.node), TRUE)

SetRetreat(s, i) ==
  IF ~IsAtItem(s, i) THEN i
  ELSE IF i.place > 1 THEN [i EXCEPT !.place = @ - 1]
  ELSE SetIterator(s, Retreat(s.data, i.node), FALSE)

\* The items that an iterator meets, each by its key and its place among the equal ones.
Met(s, first, forward) ==
  LET go[w \in [at : [node : Spots(s.data), place : Nat], met : Seq(Keys \X Nat)]] ==
        IF ~IsAtItem(s, w.at) THEN w.met
        ELSE go[[at  |-> IF forward THEN SetAdvance(s, w.at) ELSE SetRetreat(s, w.at),
                 met |-> Append(w.met, <<w.at.node.at, w.at.place>>)]]
  IN  go[[at |-> first, met |-> <<>>]]

---------------------------------------------------------------------------
(* Specification *)

MapInit == map = NewMap /\ set = NewSet

MapChange ==
  \/ \E k \in Entries, v \in Tags, overwrite \in BOOLEAN :
       map' = InsertValue(map, k, v, overwrite)
  \/ \E k \in Entries : map' = RemoveKey(map, k) \/ map' = Subscript(map, k)
  \/ \E k \in Entries, v \in Tags : map' = RemoveValue(map, k, v)
  \/ map' = NewMap \/ map' = CopyMap(map)

SetChange ==
  \/ \E k \in Entries, v \in Tags, multiple \in BOOLEAN :
       set' = SetInsert(set, [key |-> k, tag |-> v], multiple)
  \/ \E k \in Entries, all \in BOOLEAN : set' = SetRemove(set, k, all)
  \/ set' = NewSet \/ set' = CopySet(set)

MapNext == MapChange /\ \A k \in Entries : Len(map'.values[k]) <= MaxStack
SetNext == SetChange /\ \A k \in Entries : Len(set'.items[k]) <= MaxStack

MapAndSetSpec ==
  MapInit /\ [][(MapNext /\ UNCHANGED set) \/ (SetNext /\ UNCHANGED map)]_<<map, set>>

---------------------------------------------------------------------------
(* Properties *)

Occurring(s) == {s[n] : n \in DOMAIN s}

\* Every element comes before the next in the order R, a set of pairs.
Rises(s, R) == \A i, j \in DOMAIN s : i < j => <<s[i], s[j]>> \in R

\* A map is a function from keys to the values they were given and not deprived of,
\* whatever the shape of its tree: a key is found, and met by the iterator in its order,
\* as long as it has a value; the value that At, Find and [] give is the last inserted.
MapIs(m, f) ==
  LET keys == KeysOf(m)
  IN  /\ m.values = f
      /\ Occurring(keys) = {k \in Entries : f[k] # <<>>} /\ Rises(keys, {p \in Entries \X Entries : p[1] < p[2]})
      /\ \A k \in Entries : Found(m, k) <=> f[k] # <<>>

MapFollowsItsCalls ==
  LET f == map.values
  IN  /\ MapIs(map, f) /\ MapIs(CopyMap(map), f)
      /\ \A k \in Entries, v \in Tags :
           LET rest == RemoveValue(map, k, v).values[k]
           IN  /\ MapIs(InsertValue(map, k, v, TRUE), [f EXCEPT ![k] = <<v>>])
               /\ MapIs(InsertValue(map, k, v, FALSE), [f EXCEPT ![k] = Append(@, v)])
               /\ Value(InsertValue(map, k, v, FALSE), k) = v
               /\ MapIs(RemoveValue(map, k, v), [f EXCEPT ![k] = rest])
               /\ Occurring(rest) = Occurring(f[k]) \ {v}
      /\ \A k \in Entries :
           /\ MapIs(RemoveKey(map, k), [f EXCEPT ![k] = <<>>])
           /\ MapIs(Subscript(map, k), IF f[k] = <<>> THEN [f EXCEPT ![k] = <<Blank>>] ELSE f)

\* The items of a set, each by its key and its place among the equal ones; the keys come
\* in order, and equal items in the order of their insertion.
Places(s) == UNION {{k} \X DOMAIN s.items[k] : k \in Entries}
Order(s)  == {r \in Places(s) \X Places(s) :
               LET p == r[1] q == r[2] IN p[1] < q[1] \/ (p[1] = q[1] /\ p[2] < q[2])}

\* A set counts its items, those that compare equal one by one, and iterates over all of
\* them, in the order of their keys and the equal ones in the order of their insertion;
\* backwards it is the reverse.
SetCountsItsItems ==
  LET there == Met(set, SetBegin(set), TRUE)
      back  == Met(set, SetRBegin(set), FALSE)
  IN  /\ set.size = Cardinality(Places(set))
      /\ \A k \in Entries : Contains(set.data, k) <=> set.items[k] # <<>>
      /\ \A p \in Places(set) : set.items[p[1]][p[2]].key = p[1]
      /\ Occurring(there) = Places(set) /\ Rises(there, Order(set))
      /\ Occurring(back) = Places(set) /\ Rises(back, {<<r[2], r[1]>> : r \in Order(set)})

\* Maps and sets, however long they have been in use.
MapsAndSetsAreRight == MapFollowsItsCalls /\ SetCountsItsItems
=============================================================================
