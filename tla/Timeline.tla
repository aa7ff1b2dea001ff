------------------------------ MODULE Timeline ------------------------------
(***************************************************************************)
(* TimelineView (src/qt/model_views/timelineview.cpp): items of a model    *)
(* with a start and an end, drawn along a line of time.  Items whose times *)
(* conflict share the width of the view (reset); items are dragged with    *)
(* the mouse, new ones are drawn, and times are typed into an editor.      *)
(* Points are pixels from the upper end of the line, so that the           *)
(* scrollbars and the margin are left out.                                 *)
(***************************************************************************)
EXTENDS Integers, Sequences, FiniteSets

LOCAL INSTANCE FiniteSetsExt
LOCAL INSTANCE SequencesExt
LOCAL INSTANCE Functions

CONSTANTS MaxTime,       \* the line shows times from 0 to this at most (a bound)
          MaxRows,       \* the model has at most so many rows (a bound)
          BusyRows,      \* and at most so many when the user changes something (a bound)
          Height,        \* the length of the line in pixels
          Windows,       \* the pairs of times that the line may start and end with (a bound)
          Xs, Ys         \* where the mouse goes (bounds)

ASSUME TimelineAssumption == MaxTime \in Nat \ {0} /\ MaxRows \in Nat /\ Height >= MaxTime

VARIABLE view   \* items: the rows of the model; cache: their places; from, to, resolution;
                \* drag: the item that is dragged (lost: its row is not what it was);
                \* rect: the new item that is drawn; editor: the time that is edited

NoTime   == -1000
NoDrag   == [row |-> 0, start |-> NoTime, end |-> NoTime, offset |-> -1, lost |-> FALSE]
NoEditor == [row |-> 0, which |-> "start"]

\* TIMELINE_ITEM_WIDTH, TIMELINE_ITEM_OVERLAP, DRAG_ADJUSTMENT_MARGIN and
\* TIMELINE_TOPBOTTOM_MARGIN.
ItemWidth   == 400
ItemOverlap == 20
DragMargin  == 10
Margin      == 11

Intervals == {i \in [start : 0 .. MaxTime, end : 0 .. MaxTime] : i.start <= i.end}

---------------------------------------------------------------------------
(* The places of the items *)

Conflict(i, j) == i.start <= j.end /\ j.start <= i.end

\* SymmetricMatrix: a number for every two rows; the diagonal is not used.
Pairs(rows) == {{i, j} : i, j \in rows} \ {{i} : i \in rows}

\* Of the largest numbers the first by columns, and in a column by rows.
FindMaxValue(matrix) ==
  LET max  == Max({matrix[p] : p \in DOMAIN matrix})
      at   == {p \in DOMAIN matrix : matrix[p] = max}
      col  == Min({Min(p) : p \in at})
  IN  [max |-> max, col |-> col, row |-> Min({Max(p) : p \in {q \in at : Min(q) = col}})]

\* The most conflicted pair {r, c} still to do: its item c, and then the others that
\* conflict with r, get the places from the back; those that have one keep it.
RECURSIVE Spread(_, _, _)
Spread(depth, pending, cache) ==
  LET found  == FindMaxValue(depth)
      most   == found.max
      c      == found.col
      r      == found.row
      isNew  == {r, c} \in pending
      others == SetToSortSeq({i \in DOMAIN cache \ {r, c} : depth[{r, i}] > 0 /\ {r, i} \in pending}, <)
      order  == IF isNew THEN <<c>> \o others ELSE others
      place(i) == CASE i \in ToSet(order) ->
                         [total |-> most + 1,
                          position |-> most + 1 - (CHOOSE k \in 1 .. Len(order) : order[k] = i)]
                    [] i = r /\ isNew -> [cache[r] EXCEPT !.total = most + 1]
                    [] OTHER -> cache[i]
  IN  IF \A p \in DOMAIN depth : depth[p] = 0 THEN cache
      ELSE Spread([depth EXCEPT ![{r, c}] = 0],
                  pending \ {{r, i} : i \in ToSet(order)},
                  [i \in DOMAIN cache |-> place(i)])

\* reset: who conflicts with whom, and how many conflict with both.
PlacesOf(items) ==
  LET rows  == DOMAIN items
      conflicts == {p \in Pairs(rows) : \A i, j \in p : Conflict(items[i], items[j])}
      depth == [p \in Pairs(rows) |->
                  IF p \notin conflicts THEN 0
                  ELSE 1 + Cardinality({k \in rows \ p : \A i \in p : {k, i} \in conflicts})]
  IN  Spread(depth, conflicts, [i \in rows |-> [total |-> 1, position |-> 0]])

\* A change of the model: the view computes the places anew and throws the editor away.
\* It keeps the row that is dragged (an index that does not follow the item).
WithItems(v, items) ==
  [v EXCEPT !.items = items, !.cache = PlacesOf(items), !.editor = NoEditor]

\* The item of the dragged row; there may be none.
Dragged(v) == IF v.drag.row \in DOMAIN v.items THEN v.items[v.drag.row]
                                              ELSE [start |-> NoTime, end |-> NoTime]

---------------------------------------------------------------------------
(* Points and times *)

\* A conversion of a double to an integer.
Truncated(a, b) == IF a >= 0 THEN a \div b ELSE -((-a) \div b)

Seconds(v) == v.to - v.from

DateTimeToPoint(v, t) == Truncated(Margin * Seconds(v) + (t - v.from) * Height, Seconds(v)) - Margin

\* A bug to detect: without the fudge factor.
PointToDateTimeExactly(v, y) ==
  v.from + Truncated(y * (Seconds(v) \div v.resolution), Height) * v.resolution

PointToDateTime(v, y) ==
  v.from + Truncated((y + 1) * (Seconds(v) \div v.resolution), Height) * v.resolution

LeftOf(c)  == IF c.total > 1
              THEN Truncated(c.position * ItemWidth, c.total) - (IF c.position = 0 THEN 0 ELSE ItemOverlap)
              ELSE 0
RightOf(c) == IF c.total > 1
              THEN LeftOf(c) + ItemWidth \div c.total + (IF c.position = 0 THEN 0 ELSE ItemOverlap)
              ELSE ItemWidth

TopOf(v, row)    == DateTimeToPoint(v, v.items[row].start)
BottomOf(v, row) == DateTimeToPoint(v, v.items[row].end)

\* indexAt: the first row whose rectangle contains the point, or 0.
ItemAt(v, x, y) ==
  LET under == {i \in DOMAIN v.items : /\ LeftOf(v.cache[i]) <= x /\ x <= RightOf(v.cache[i])
                                       /\ TopOf(v, i) <= y /\ y <= BottomOf(v, i)}
  IN  IF under = {} THEN 0 ELSE Min(under)

Distance(a, b) == IF a < b THEN b - a ELSE a - b

\* paintEvent goes over the items again and again, each time drawing those of the next
\* position; an item outside of the range is never drawn, nor one of a negative position.
NeverDrawn(v) ==
  {i \in DOMAIN v.items : \/ v.items[i].start >= v.to \/ v.items[i].end <= v.from
                          \/ i # v.drag.row /\ v.cache[i].position < 0}

PaintingEnds(v) == Seconds(v) <= 0 \/ NeverDrawn(v) = {}

---------------------------------------------------------------------------
(* The mouse *)

\* _commit_dateTime_editor: the model gets the time that was typed.  It refuses an item
\* that would end before it starts, as it must.
Committed(v, typed) ==
  LET item == [v.items[v.editor.row] EXCEPT ![v.editor.which] = typed]
  IN  IF item.start > item.end THEN [v EXCEPT !.editor = NoEditor]
      ELSE WithItems(v, [v.items EXCEPT ![v.editor.row] = item])

\* mousePressEvent.  Near an end of the item that end is dragged, else the item; on the
\* empty canvas a new item is begun.
Pressed(v, x, y) ==
  LET row   == ItemAt(v, x, y)
      toTop == Distance(y, TopOf(v, row))
      toEnd == Distance(y, BottomOf(v, row))
      start == PointToDateTime(v, TopOf(v, row))
      end   == PointToDateTime(v, BottomOf(v, row))
      part  == CASE toTop > DragMargin /\ toEnd > DragMargin -> "whole"
                 [] toTop < toEnd /\ toTop <= DragMargin     -> "start"
                 [] OTHER                                    -> "end"
  IN  IF row = 0 THEN [v EXCEPT !.rect = <<y, y>>]
      ELSE [v EXCEPT !.drag = [row    |-> row,
                               start  |-> IF part = "end" THEN NoTime ELSE start,
                               end    |-> IF part = "start" THEN NoTime ELSE end,
                               offset |-> IF part = "end" THEN -toEnd ELSE toTop,
                               lost   |-> FALSE]]

\* A bug to detect: the dragged ends follow the mouse even past each other.
MovedPastEnd(v, y) ==
  LET d      == v.drag
      top    == DateTimeToPoint(v, IF d.start = NoTime THEN Dragged(v).start ELSE d.start)
      bottom == DateTimeToPoint(v, IF d.end = NoTime THEN Dragged(v).end ELSE d.end)
      dy     == y - d.offset - (IF d.start = NoTime THEN bottom ELSE top)
  IN  IF v.rect # <<>> THEN [v EXCEPT !.rect[2] = y]
      ELSE [v EXCEPT !.drag.start = IF @ = NoTime THEN @ ELSE PointToDateTime(v, top + dy),
                     !.drag.end   = IF @ = NoTime THEN @ ELSE PointToDateTime(v, bottom + dy)]

\* mouseMoveEvent: the dragged ends follow the mouse, unless they would pass each other.
Moved(v, y) ==
  LET d      == v.drag
      top    == DateTimeToPoint(v, IF d.start = NoTime THEN Dragged(v).start ELSE d.start)
      bottom == DateTimeToPoint(v, IF d.end = NoTime THEN Dragged(v).end ELSE d.end)
      dy     == y - d.offset - (IF d.start = NoTime THEN bottom ELSE top)
      start  == IF d.start = NoTime THEN Dragged(v).start ELSE PointToDateTime(v, top + dy)
      end    == IF d.end = NoTime THEN Dragged(v).end ELSE PointToDateTime(v, bottom + dy)
  IN  IF v.rect # <<>> THEN [v EXCEPT !.rect[2] = y]
      ELSE IF d.row = 0 \/ dy = 0 \/ end < start THEN v
      ELSE [v EXCEPT !.drag.start = IF @ = NoTime THEN @ ELSE start,
                     !.drag.end   = IF @ = NoTime THEN @ ELSE end]

\* The item that the dragged one becomes.
Dropped(v) ==
  [start |-> IF v.drag.start = NoTime THEN Dragged(v).start ELSE v.drag.start,
   end   |-> IF v.drag.end = NoTime THEN Dragged(v).end ELSE v.drag.end]

\* The new item that is asked for, unless the mouse hardly moved: NewItemRequested.
Requested(v) ==
  LET times == {PointToDateTime(v, v.rect[1]), PointToDateTime(v, v.rect[2])}
  IN  IF Distance(v.rect[1], v.rect[2]) > 2 THEN {[start |-> Min(times), end |-> Max(times)]} ELSE {}

\* mouseReleaseEvent: the program hears of the new item, which it adds, or the model of
\* the new times, if they are new; it refuses an end before the start, and a row that is gone.
Released(v) ==
  LET items == CASE v.rect # <<>> /\ Requested(v) # {} /\ Len(v.items) < MaxRows ->
                      Append(v.items, CHOOSE i \in Requested(v) : TRUE)
                 [] /\ v.rect = <<>> /\ v.drag.row \in DOMAIN v.items
                    /\ Dropped(v).start <= Dropped(v).end -> [v.items EXCEPT ![v.drag.row] = Dropped(v)]
                 [] OTHER -> v.items
  IN  [(IF items = v.items THEN v ELSE WithItems(v, items)) EXCEPT !.drag = NoDrag, !.rect = <<>>]

\* mouseDoubleClickEvent: an editor for the end of the item that is near.
DoubleClicked(v, x, y) ==
  LET row == ItemAt(v, x, y)
  IN  CASE row = 0 -> v
        [] row # 0 /\ Distance(y, TopOf(v, row)) < DragMargin ->
             [v EXCEPT !.editor = [row |-> row, which |-> "start"]]
        [] row # 0 /\ Distance(y, TopOf(v, row)) >= DragMargin
             /\ Distance(y, BottomOf(v, row)) < DragMargin ->
             [v EXCEPT !.editor = [row |-> row, which |-> "end"]]
        [] OTHER -> v

---------------------------------------------------------------------------
(* The actions *)

Quiet(v) == v.drag = NoDrag /\ v.rect = <<>>

TimelineInit ==
  view = [items |-> <<>>, cache |-> <<>>, from |-> 0, to |-> MaxTime, resolution |-> 1,
          drag |-> NoDrag, rect |-> <<>>, editor |-> NoEditor]

\* The program adds and removes rows (rowsInserted, _model_rows_removed) whenever it likes.
\* More than a few only while the line is as at first, and the mouse rests (a bound).
RowInserted(i) ==
  /\ \/ Len(view.items) < BusyRows
     \/ /\ Len(view.items) < MaxRows /\ Quiet(view)
        /\ <<view.from, view.to, view.resolution>> = <<0, MaxTime, 1>>
  /\ view' = WithItems(view, Append(view.items, i))

\* The rows behind it move up, under the drag too.
RowRemoved(row) ==
  /\ row \in DOMAIN view.items
  /\ view' = [WithItems(view, RemoveAt(view.items, row)) EXCEPT !.drag.lost = @ \/ row <= view.drag.row]

\* The user acts while the window is painted, on few items (a bound).
Usable == PaintingEnds(view) /\ Seconds(view) > 0 /\ Len(view.items) <= BusyRows

\* The line is changed while the mouse rests (a bound).
SetStartAndEndTime(from, to) == /\ Quiet(view) /\ Len(view.items) <= BusyRows
                                /\ view' = [view EXCEPT !.from = from, !.to = to]

SetTimeResolution(t) == /\ Quiet(view) /\ Len(view.items) <= BusyRows
                        /\ view' = [view EXCEPT !.resolution = t]

Press(x, y) == /\ Usable /\ Quiet(view) /\ view.editor = NoEditor
               /\ view' = Pressed(view, x, y)

\* A press of the mouse, or the return key (eventFilter), ends the editor.
Commit(typed) == /\ Usable /\ Quiet(view) /\ view.editor # NoEditor
                 /\ view' = Committed(view, typed)

\* Times leave the modelled ones only by a drag (a bound).
Move(y) == /\ Usable /\ ~Quiet(view)
           /\ view' = Moved(view, y)
           /\ {view'.drag.start, view'.drag.end} \subseteq {NoTime} \cup 0 .. MaxTime

Release == Usable /\ ~Quiet(view) /\ view' = Released(view)

DoubleClick(x, y) == /\ Usable /\ Quiet(view) /\ view.editor = NoEditor
                     /\ view' = DoubleClicked(view, x, y)

TimelineNext ==
  \/ \E i \in Intervals : RowInserted(i)
  \/ \E row \in 1 .. MaxRows : RowRemoved(row)
  \/ \E w \in Windows : SetStartAndEndTime(w[1], w[2])
  \/ \E t \in 1 .. 2 : SetTimeResolution(t)
  \/ \E x \in Xs, y \in Ys : Press(x, y) \/ DoubleClick(x, y)
  \/ \E typed \in 0 .. MaxTime : Commit(typed)
  \/ \E y \in Ys : Move(y)
  \/ Release

---------------------------------------------------------------------------
(* Properties *)

Conflicting(v, i, j) == i # j /\ Conflict(v.items[i], v.items[j])

\* Items that conflict with an item conflict with each other.
Transitive(v) ==
  \A i, j, k \in DOMAIN v.items :
    Conflicting(v, i, j) /\ Conflicting(v, j, k) /\ i # k => Conflicting(v, i, k)

\* Every end of an item is a time that the mouse can point at.
OnGrid(v) ==
  LET grid == {t \in v.from .. v.to : (t - v.from) % v.resolution = 0}
  IN  v.to \in grid /\ \A i \in Range(v.items) : {i.start, i.end} \subseteq grid

Duration(i) == i.end - i.start

\* Items that conflict, all of them with each other, share the width in equal parts; up to
\* three have each a part of its own, not four (reset); all are drawn (_draw_items).
\* Where the mouse can point at every time of an item, a drag does not turn it
\* upside down (mouseMoveEvent), a click does not change it, and a drag of the whole item,
\* wherever it leads, keeps its duration but for one step (PointToDateTime).
TimelineIsRight ==
  /\ view.drag.row # 0 /\ ~view.drag.lost /\ OnGrid(view) => Duration(Dropped(view)) >= 0
  /\ Transitive(view) =>
       \A i \in DOMAIN view.items :
         LET others == {j \in DOMAIN view.items : Conflicting(view, i, j)}
         IN  /\ view.cache[i].total = 1 + Cardinality(others)
             /\ view.cache[i].position \in 0 .. Cardinality(others)
             /\ Cardinality(others) <= 2 =>
                  \A j \in others : view.cache[i].position # view.cache[j].position
  /\ Usable /\ Quiet(view) /\ OnGrid(view) =>
       \A x \in Xs, y \in Ys :
         LET pressed == Pressed(view, x, y)
         IN  /\ Released(pressed).items = view.items
             /\ pressed.drag.start # NoTime /\ pressed.drag.end # NoTime =>
                  \A to \in Ys :
                    Distance(Duration(Dropped(Moved(pressed, to))),
                             Duration(view.items[pressed.drag.row])) <= view.resolution
=============================================================================
