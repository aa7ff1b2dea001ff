------------------------------- MODULE Tables -------------------------------
(***************************************************************************)
(* DataTable with its rows and columns (src/core/data_objects/datatable.h),*)
(* the Collection they are kept in (collection.h), the IUpdatable that     *)
(* says whether they have changed, and the calls that DataTableModel       *)
(* (src/qt/data_models) makes.  Indices count from 1 here.                 *)
(*                                                                         *)
(* And FlatTreeModel (src/qt/data_models/flattreemodel.cpp), which shows   *)
(* the items of a tree model as a list.  Its two maps are computed anew    *)
(* when rows of the source are inserted, removed or moved.  The source is  *)
(* external: a node is its internal id, which has to be unique.            *)
(***************************************************************************)
EXTENDS Integers, Sequences, FiniteSets

LOCAL INSTANCE SequencesExt
LOCAL INSTANCE FiniteSetsExt
LOCAL INSTANCE Functions
LOCAL INSTANCE TLC

CONSTANTS ColumnKeys,   \* the keys of columns; the constructor makes the keys 0, 1, ...
          Cells,        \* the values of cells, 0 being T() (a bound)
          MaxTableRows, \* the largest number of rows that are created (a bound)
          MaxChanges    \* the largest update count of the table; of a row it is 1 (bounds)

ASSUME TablesAssumption == ColumnKeys \subseteq Nat /\ 0 \in Cells

\* A row that is inserted has two counts of references, the table's and that of the pointer
\* that CreateRow returned, and whichever gets to zero deletes it: so the program keeps its
\* pointers to the rows in the table, and does not use one when the table has let it go.
VARIABLE table   \* columns: m_columns; map: column_map; order: the rows in the table; rows:
                 \* all rows that live; state: its IUpdatable; spoilt: whether a call has left
                 \* columns, map and rows in disagreement

Clean == [dirty |-> FALSE, count |-> 0, backup |-> 0]

NewTable == [columns |-> <<>>, map |-> [k \in {} |-> 0], order |-> <<>>, rows |-> [r \in {} |-> 0],
             state |-> Clean, spoilt |-> FALSE]

---------------------------------------------------------------------------
(* IUpdatable *)

MakeDirty(u) == [u EXCEPT !.dirty = TRUE, !.count = @ + 1]

CommitChanges(u) == [u EXCEPT !.dirty = FALSE, !.backup = u.count]

\* A bug to detect: the changes are counted although they are rejected.
RejectChangesCounted(u) == [u EXCEPT !.dirty = FALSE]

RejectChanges(u) == [u EXCEPT !.dirty = FALSE, !.count = u.backup]

---------------------------------------------------------------------------
(* Columns *)

\* The constructor with a number counts before it inserts into the map ...
OfNumber(n) ==
  [NewTable EXCEPT !.columns = [i \in 1 .. n |-> i - 1], !.map = [k \in 0 .. n - 1 |-> k + 2],
                   !.spoilt = n > 0]

\* ... and the one with names makes no columns (_init_columns).
OfNames(names) ==
  [NewTable EXCEPT !.map = [k \in Range(names) |-> CHOOSE i \in DOMAIN names : names[i] = k],
                   !.spoilt = names # <<>>]

\* A bug to detect: the columns behind the new one keep their numbers.
WithColumnOnly(t, key, i) ==
  [t EXCEPT !.columns = InsertAt(@, i, key),
            !.map     = [k \in DOMAIN @ \cup {key} |-> IF k = key THEN i ELSE @[k]],
            !.rows    = [r \in DOMAIN @ |-> IF r \notin Range(t.order) THEN @[r]
                                            ELSE [@[r] EXCEPT !.cells = InsertAt(@, i, 0)]]]

\* InsertColumn: the columns behind it are renumbered, the rows in the table get a cell.
WithColumn(t, key, i) ==
  [t EXCEPT !.columns = InsertAt(@, i, key),
            !.map     = [k \in DOMAIN @ \cup {key} |->
                           CASE k = key -> i
                             [] k # key /\ @[k] >= i -> @[k] + 1
                             [] OTHER -> @[k]],
            !.rows    = [r \in DOMAIN @ |-> IF r \notin Range(t.order) THEN @[r]
                                            ELSE [@[r] EXCEPT !.cells = InsertAt(@, i, 0)]]]

\* RemoveColumn: neither are the columns behind it renumbered nor cells removed.
WithoutColumn(t, i) ==
  [t EXCEPT !.columns = RemoveAt(@, i),
            !.map     = [k \in DOMAIN @ \ {t.columns[i]} |-> @[k]],
            !.spoilt  = i < Len(t.columns) \/ t.order # <<>>]

\* Clear: the rows are taken out one after the other, then the columns.
Cleared(t) == [NewTable EXCEPT !.state = t.state]

---------------------------------------------------------------------------
(* Rows *)

\* `named`: m_columns and m_columnMap are those of this table.
NewRow(t) == [cells |-> [c \in DOMAIN t.columns |-> 0], inTable |-> FALSE, named |-> TRUE, state |-> Clean]

\* InsertRow: pre_add marks the table as changed, and tells the row its table.
WithRow(t, r, i) ==
  [t EXCEPT !.order = InsertAt(@, i, r), !.rows[r].inTable = TRUE, !.state = MakeDirty(@)]

\* A cell is assigned: pre_item_changed, and on_make_dirty if the row was clean.
Assigned(t, r, c, x) ==
  [t EXCEPT !.rows[r].cells[c] = x,
            !.rows[r].state    = MakeDirty(@),
            !.state = IF t.rows[r].inTable /\ ~t.rows[r].state.dirty THEN MakeDirty(@) ELSE @]

\* commit_reject_changes: the rows that have changed, and then the table.
Settle(t, commit) ==
  LET Done(u) == IF commit THEN CommitChanges(u) ELSE RejectChanges(u)
  IN  [t EXCEPT !.state = Done(@),
                !.rows  = [r \in DOMAIN @ |-> IF r \in Range(t.order) /\ @[r].state.dirty
                                              THEN [@[r] EXCEPT !.state = Done(@)] ELSE @[r]]]

\* RemoveRow deletes the row.
WithoutRow(t, i) ==
  [t EXCEPT !.order = RemoveAt(@, i), !.rows = [r \in DOMAIN @ \ {t.order[i]} |-> @[r]]]

\* A copy of a table has rows of its own, which do not know it; their columns are those
\* that the copied rows have.
Copied(t) ==
  [t EXCEPT !.state = Clean,
            !.rows  = [r \in Range(t.order) |->
                         [@[r] EXCEPT !.state = Clean, !.inTable = FALSE, !.named = FALSE]]]

\* DataRow::operator [] of a name.
NamedCell(t, r, key) == t.rows[r].cells[t.map[key]]

Matches(t, c, x) == {i \in DOMAIN t.order : t.rows[t.order[i]].cells[c] = x}

\* FindRow: the first row that matches, or the end.
FindRow(t, c, x) == Min(Matches(t, c, x) \cup {Len(t.order) + 1})

\* FindLastRow steps past the last row that matches before it stops, to the one before it.
FindLastRow(t, c, x) == Max({i - 1 : i \in Matches(t, c, x)} \cup {0})

\* operator ==: the number of columns is that of the map.
Equal(t, u) ==
  /\ Len(t.order) = Len(u.order) /\ Cardinality(DOMAIN t.map) = Cardinality(DOMAIN u.map)
  /\ t.columns = u.columns
  /\ \A i \in DOMAIN t.order : t.rows[t.order[i]].cells = u.rows[u.order[i]].cells

---------------------------------------------------------------------------
(* The actions *)

TableInit == \/ table = NewTable
             \/ \E n \in 1 .. 2 : table = OfNumber(n)
             \/ \E a, b \in ColumnKeys : a # b /\ table = OfNames(<<a, b>>)

\* A table that a call has spoilt is only cleared (a bound).
Sound == ~table.spoilt

\* A key that is there already is refused (pre_add).
InsertColumn(key, i) == /\ Sound /\ i \in 1 .. Len(table.columns) + 1
                        /\ key \notin Range(table.columns)
                        /\ table' = WithColumn(table, key, i)

RemoveColumn(i) == Sound /\ i \in DOMAIN table.columns /\ table' = WithoutColumn(table, i)

\* Columns() gives the columns away without the map: DataTableModel::removeColumns.
RemoveFromColumns(i) ==
  /\ Sound /\ i \in DOMAIN table.columns
  /\ table' = [table EXCEPT !.columns = RemoveAt(@, i), !.spoilt = TRUE]

CreateRow(r) == /\ Sound /\ r \notin DOMAIN table.rows
                /\ table' = [table EXCEPT !.rows = @ @@ (r :> NewRow(table))]

\* A row that was created before the columns changed is not for a caller to insert.
InsertRow(r, i) == /\ Sound /\ r \in DOMAIN table.rows \ Range(table.order)
                   /\ Len(table.rows[r].cells) = Len(table.columns)
                   /\ i \in 1 .. Len(table.order) + 1 /\ table.state.count < MaxChanges
                   /\ table' = WithRow(table, r, i)

RemoveRow(i) == Sound /\ i \in DOMAIN table.order /\ table' = WithoutRow(table, i)

Assign(r, c, x) == /\ Sound /\ r \in DOMAIN table.rows /\ c \in DOMAIN table.rows[r].cells
                   /\ table.state.count < MaxChanges /\ table.rows[r].state.count < 1
                   /\ table' = Assigned(table, r, c, x)

SettleTable == Sound /\ \E commit \in BOOLEAN : table' = Settle(table, commit)

SettleRow(r) == /\ Sound /\ r \in DOMAIN table.rows
                /\ \E u \in {CommitChanges(table.rows[r].state), RejectChanges(table.rows[r].state)} :
                     table' = [table EXCEPT !.rows[r].state = u]

Clear == table' = Cleared(table)

\* The program goes on with a copy, and lets the table go with the rows that it made: what
\* the copied rows take for their columns is gone.
Copy == Sound /\ table' = Copied(table)

TableNext ==
  \/ \E key \in ColumnKeys, i \in 1 .. Cardinality(ColumnKeys) : InsertColumn(key, i)
  \/ \E i \in 1 .. Cardinality(ColumnKeys) : RemoveColumn(i) \/ RemoveFromColumns(i)
  \/ \E r \in 1 .. MaxTableRows : CreateRow(r)
  \/ \E r, i \in 1 .. MaxTableRows : InsertRow(r, i)
  \/ \E i \in 1 .. MaxTableRows : RemoveRow(i) \/ SettleRow(i)
  \/ \E r \in 1 .. MaxTableRows, c \in 1 .. Cardinality(ColumnKeys), x \in Cells : Assign(r, c, x)
  \/ SettleTable \/ Clear \/ Copy

---------------------------------------------------------------------------
(* Properties *)

\* Unless a call has spoilt it, the map of the table numbers its columns, and every row has
\* a cell for each of them, which is found by name in a row that was made by this table.  A
\* table is clean only if all its rows that know it are, and an object is clean exactly if
\* its update count is that of the last commit (IUpdatable).  FindRow finds the first row that
\* matches, FindLastRow none where there is none; and a copy is equal to its table.  Nothing
\* is said of names in a copied row, nor of what FindLastRow finds where there is something.
TableIsSound ==
  /\ Sound =>
       /\ DOMAIN table.map = Range(table.columns)
       /\ \A c \in DOMAIN table.columns : table.map[table.columns[c]] = c
       /\ \A r \in Range(table.order) :
            /\ Len(table.rows[r].cells) = Len(table.columns)
            /\ table.rows[r].named => \A c \in DOMAIN table.columns :
                 NamedCell(table, r, table.columns[c]) = table.rows[r].cells[c]
       /\ \A c \in DOMAIN table.columns, x \in Cells :
            LET matches == SelectInSeq(table.order, LAMBDA r : table.rows[r].cells[c] = x)
            IN  /\ FindRow(table, c, x) = IF matches = 0 THEN Len(table.order) + 1 ELSE matches
                /\ matches = 0 => FindLastRow(table, c, x) = 0
       /\ Equal(table, Copied(table))
  /\ \A r \in Range(table.order) :
       table.rows[r].inTable /\ table.rows[r].state.dirty => table.state.dirty
  /\ \A u \in {table.state} \cup {table.rows[r].state : r \in DOMAIN table.rows} :
       u.dirty <=> u.count # u.backup

---------------------------------------------------------------------------
(* FlatTreeModel *)

CONSTANT Nodes   \* the items of the source (a bound)

ASSUME NodesAssumption == IsFiniteSet(Nodes) /\ 0 \notin Nodes

VARIABLE flat   \* kids: the children of each node, 0 being the root; toSource, fromSource:
                \* the maps; total: _total_rows

Root == 0
RowOf(kids, n) == CHOOSE i \in DOMAIN kids[Root] \cup UNION {DOMAIN kids[p] : p \in Nodes} :
                    \E p \in DOMAIN kids : i \in DOMAIN kids[p] /\ kids[p][i] = n
ParentOf(kids, n) == CHOOSE p \in DOMAIN kids : n \in Range(kids[p])

RECURSIVE InTree(_, _)
InTree(kids, n) == {n} \cup UNION {InTree(kids, c) : c \in Range(kids[n])}

Items(kids) == InTree(kids, Root) \ {Root}

---------------------------------------------------------------------------
(* The maps *)

\* _count_child_indexes: the items from this one downwards.
RECURSIVE CountChildren(_, _)
CountChildren(kids, n) == 1 + FoldLeft(LAMBDA sum, c : sum + CountChildren(kids, c), 0, kids[n])

\* A bug to detect: the siblings are counted without what is below them.
RECURSIVE CountPreceedingSiblings(_, _, _)
CountPreceedingSiblings(kids, record, n) ==
  IF n = Root THEN 0
  ELSE RowOf(kids, n) + CountPreceedingSiblings(kids, record, ParentOf(kids, n))

\* _count_preceeding_indexes: itself, the trees of the siblings before it, and its parent's.
RECURSIVE CountPreceeding(_, _, _)
CountPreceeding(kids, record, n) ==
  IF n = Root THEN 0
  ELSE LET p == ParentOf(kids, n)
           before == SubSeq(kids[p], 1, RowOf(kids, n) - 1)
       IN  1 + FoldLeft(LAMBDA sum, c : sum + record[c], 0, before) + CountPreceeding(kids, record, p)

\* source_model_reset: first the numbers of items, then the maps.  Rows count from 0.
Reset(kids) ==
  LET record == [n \in Items(kids) |-> CountChildren(kids, n)]
      row    == [n \in Items(kids) |-> CountPreceeding(kids, record, n) - 1]
  IN  [kids |-> kids, fromSource |-> row,
       toSource |-> [r \in Range(row) |-> CHOOSE n \in DOMAIN row : row[n] = r],
       total |-> FoldLeft(LAMBDA sum, c : sum + record[c], 0, kids[Root])]

\* mapFromSource takes row 0 for an index that is not valid.
MapFromSource(f, n) == IF f.fromSource[n] = 0 THEN -1 ELSE f.fromSource[n]

---------------------------------------------------------------------------
(* The source *)

FlatInit == flat = Reset([n \in Nodes \cup {Root} |-> <<>>])

InsertNode(n, p, i) ==
  /\ n \notin Items(flat.kids) /\ p \in Items(flat.kids) \cup {Root}
  /\ i \in 1 .. Len(flat.kids[p]) + 1
  /\ flat' = Reset([flat.kids EXCEPT ![p] = InsertAt(@, i, n)])

\* An item is removed with all that is below it.
RemoveNode(n) ==
  /\ n \in Items(flat.kids)
  /\ LET gone == InTree(flat.kids, n)
     IN  flat' = Reset([p \in DOMAIN flat.kids |->
                          IF p \in gone THEN <<>> ELSE SelectSeq(flat.kids[p], LAMBDA c : c # n)])

MoveNode(n, p, i) ==
  /\ n \in Items(flat.kids) /\ p \in (Items(flat.kids) \cup {Root}) \ InTree(flat.kids, n)
  /\ LET without == [q \in DOMAIN flat.kids |-> SelectSeq(flat.kids[q], LAMBDA c : c # n)]
     IN  /\ i \in 1 .. Len(without[p]) + 1
         /\ flat' = Reset([without EXCEPT ![p] = InsertAt(@, i, n)])

FlatNext ==
  \/ \E n \in Nodes : RemoveNode(n)
  \/ \E n \in Nodes, p \in Nodes \cup {Root}, i \in 1 .. Cardinality(Nodes) :
       InsertNode(n, p, i) \/ MoveNode(n, p, i)

---------------------------------------------------------------------------
(* Properties *)

\* The items below a node, in the order in which they are written.
RECURSIVE Written(_, _)
Written(kids, n) == FlattenSeq([i \in DOMAIN kids[n] |-> <<kids[n][i]>> \o Written(kids, kids[n][i])])

\* The rows of the list are the items of the tree, each once, in the order of the tree, and
\* the maps are inverse to each other.  Nothing is said of mapFromSource of the first item.
FlatIsInOrder ==
  LET list == Written(flat.kids, Root)
  IN  /\ flat.total = Len(list)
      /\ DOMAIN flat.toSource = 0 .. Len(list) - 1
      /\ \A r \in DOMAIN flat.toSource :
           /\ flat.toSource[r] = list[r + 1]
           /\ r # 0 => MapFromSource(flat, flat.toSource[r]) = r
=============================================================================
