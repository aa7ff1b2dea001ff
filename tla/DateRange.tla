----------------------------- MODULE DateRange -----------------------------
(***************************************************************************)
(* SelectDateRange (src/qt/controls/selectdaterange.cpp): a control with   *)
(* which a range of dates is selected.  A combo box says whether it is a   *)
(* day, a week, a month, a year, all time, or what two date edits with     *)
(* check boxes say.  The slots of the widgets run at once, and change      *)
(* other widgets, whose slots then run.  Dates are the days since the end  *)
(* of 1999; the widgets are external, and start at 2000-01-01.             *)
(***************************************************************************)
EXTENDS Integers, FiniteSets

CONSTANTS Dates,     \* the dates that the user chooses (a bound)
          SetRanges  \* the pairs of dates, or null, that the program sets (a bound)

ASSUME DatesAssumption ==
  /\ Dates \subseteq 1 .. 397
  /\ SetRanges \subseteq ({-1000} \cup 1 .. 397) \X ({-1000} \cup 1 .. 397)

VARIABLE control   \* combo; edit: m_dateEdit; start, end: m_dateTimeStart, m_dateTimeEnd;
                   \* checked: the check boxes; range: m_dateStart, m_dateEnd; suppress:
                   \* m_suppressUpdates; known: the range that the rest of the program knows

NoDate == -1000
Both   == {"start", "end"}
Kinds  == {"Day", "Week", "Month", "Year", "AllTime", "Custom"}
None   == [start |-> NoDate, end |-> NoDate]

---------------------------------------------------------------------------
(* The calendar: 2000-01-01 was a Saturday *)

DayOfWeek(d) == ((d + 4) % 7) + 1
MonthStarts  == {1, 32, 61, 92, 122, 153, 183, 214, 245, 275, 306, 336, 367, 398}
YearStarts   == {1, 367, 732}
YearLater(d) == d + (IF d <= 60 THEN 366 ELSE 365)

\* The last start of S until d, and the day before the next one.
Begins(d, S) == CHOOSE s \in S : s <= d /\ \A t \in S : t <= d => t <= s
Ends(d, S)   == (CHOOSE s \in S : s > d /\ \A t \in S : t > d => s <= t) - 1

---------------------------------------------------------------------------
(* The slots *)

\* _refresh_date_range: what the widgets say.
Selected(c) ==
  CASE c.combo = "Day"     -> [start |-> c.edit, end |-> c.edit]
    [] c.combo = "Week"    -> [start |-> c.edit + 1 - DayOfWeek(c.edit), end |-> c.edit + 7 - DayOfWeek(c.edit)]
    [] c.combo = "Month"   -> [start |-> Begins(c.edit, MonthStarts), end |-> Ends(c.edit, MonthStarts)]
    [] c.combo = "Year"    -> [start |-> Begins(c.edit, YearStarts), end |-> Ends(c.edit, YearStarts)]
    [] c.combo = "AllTime" -> None
    [] c.combo = "Custom"  -> [start |-> IF "start" \in c.checked THEN c.start ELSE NoDate,
                               end   |-> IF "end" \in c.checked THEN c.end ELSE NoDate]

\* ... and SelectionChanged, if it is something new.
RangeRefreshed(c) ==
  IF c.suppress \/ Selected(c) = c.range THEN c
  ELSE [c EXCEPT !.range = Selected(c), !.known = Selected(c)]

\* A bug to detect: the date edits keep what they show.
DateUpdatedAlone(c) == RangeRefreshed(c)

\* _date_updated: the widgets of a custom range show the range first.
DateUpdated(c) ==
  RangeRefreshed(
    IF c.combo # "Custom" THEN c
    ELSE [c EXCEPT !.checked = {e \in Both : c.range[e] # NoDate},
                   !.start = IF c.range.start = NoDate THEN @ ELSE c.range.start,
                   !.end   = IF c.range.end = NoDate THEN @ ELSE c.range.end])

\* SetComboBoxSelection, and _combobox_index_changed if the index changes.
WithCombo(c, kind) == IF c.combo = kind THEN c ELSE DateUpdated([c EXCEPT !.combo = kind])

\* QDateEdit::setDate, and the slot if the date changes.
WithEdit(c, d)  == IF c.edit = d THEN c ELSE DateUpdated([c EXCEPT !.edit = d])
WithStart(c, d) == IF c.start = d THEN c ELSE DateUpdated([c EXCEPT !.start = d])
WithEnd(c, d)   == IF c.end = d THEN c ELSE DateUpdated([c EXCEPT !.end = d])

\* The kind of range that SetDateRange thinks fits.
KindOf(r) ==
  IF r = None THEN "AllTime"
  ELSE IF NoDate \in {r.start, r.end} THEN "Custom"
  ELSE IF r.start = r.end THEN "Day"
  ELSE IF r.end - r.start = 6 /\ DayOfWeek(r.start) = 1 THEN "Week"
  ELSE IF {r.start, r.end} \subseteq MonthStarts /\ r.end - r.start \in 27 .. 31 THEN "Month"
  ELSE IF r.start \in MonthStarts /\ r.end = YearLater(r.start) - 1 THEN "Year"
  ELSE "Custom"

\* SetDateRange throws for a range that ends before it starts, updates suppressed.
Throws(r) == NoDate \notin {r.start, r.end} /\ r.end < r.start

WithRange(c, r) ==
  LET kind == KindOf(r)
      d    == WithCombo([c EXCEPT !.suppress = TRUE, !.range = r, !.known = r], kind)
      e    == CASE kind = "AllTime" -> d
                [] kind = "Custom"  ->
                     LET s == IF r.start = NoDate THEN d ELSE WithStart(d, r.start)
                     IN  IF r.end = NoDate THEN s ELSE WithEnd(s, r.end)
                [] OTHER -> WithEdit(d, r.start)
  IN  IF Throws(r) THEN [c EXCEPT !.suppress = TRUE] ELSE [e EXCEPT !.suppress = FALSE]

---------------------------------------------------------------------------
(* The actions *)

ControlInit ==
  \E kind \in Kinds :
    control = DateUpdated([combo |-> kind, edit |-> 1, start |-> 1, end |-> 1, checked |-> Both,
                           range |-> None, suppress |-> FALSE, known |-> None])

ChooseKind(kind) == control' = WithCombo(control, kind)

\* An edit that is shown and enabled.
EditDate(d) == /\ control.combo \notin {"AllTime", "Custom"}
               /\ control' = WithEdit(control, d)

EditStart(d) == /\ control.combo = "Custom" /\ "start" \in control.checked
                /\ control' = WithStart(control, d)

EditEnd(d) == /\ control.combo = "Custom" /\ "end" \in control.checked
              /\ control' = WithEnd(control, d)

\* A check box is connected to _refresh_date_range.
Toggle(e) ==
  /\ control.combo = "Custom"
  /\ control' = RangeRefreshed([control EXCEPT !.checked = IF e \in @ THEN @ \ {e} ELSE @ \cup {e}])

\* __apply_new_bound: an excluded lower bound, and an included upper one, are a day later.
AppliedBound(d, included, lower) ==
  IF (lower /\ ~included) \/ (~lower /\ included) THEN d + 1 ELSE d

\* The bounds of a range of which those of included belong to it.  Whether a bound belongs to
\* the range is also what is passed for whether it is the lower one: no bound ever moves.
Bounds(pair, included) ==
  LET Applied(d, e) == IF d = NoDate THEN NoDate ELSE AppliedBound(d, e \in included, e \in included)
  IN  [start |-> Applied(pair[1], "start"), end |-> Applied(pair[2], "end")]

SetDateRange(pair, included) == control' = WithRange(control, Bounds(pair, included))

\* It lays the widgets out again.
SetDayFormat == control' = DateUpdated(control)

ControlNext ==
  \/ \E kind \in Kinds : ChooseKind(kind)
  \/ \E d \in Dates : EditDate(d) \/ EditStart(d) \/ EditEnd(d)
  \/ \E e \in Both : Toggle(e)
  \/ \E pair \in SetRanges, included \in SUBSET Both : SetDateRange(pair, included)
  \/ SetDayFormat

ControlSpec == ControlInit /\ [][ControlNext]_control

---------------------------------------------------------------------------
(* Properties *)

Settled(c) == ~c.suppress /\ Selected(c) = c.range

\* What the rest of the program was told, by SelectionChanged or by its own SetDateRange, is
\* the selection.  A selection that the widgets show stays what they show, whatever kind is
\* chosen and shown: the date belongs to its week, month and year, and choosing a custom
\* range keeps the range.  A range that the program sets, its bounds included, is the
\* selection; the widgets show it unless the range goes from the first of a month to the
\* first of the next, is a year that does not start in January, or the control already
\* showed a custom range.  Of a range without one of its bounds nothing is said.
RangeIsShown ==
  /\ control.known = control.range
  /\ Settled(control) =>
       /\ \A kind \in Kinds :
            LET c == WithCombo(control, kind)
            IN  /\ Settled(c)
                /\ kind \in {"Day", "Week", "Month", "Year"} =>
                     c.range.start <= c.edit /\ c.edit <= c.range.end
                /\ kind = "Custom" => c.range = control.range
       /\ \A pair \in SetRanges :
            LET r == [start |-> pair[1], end |-> pair[2]]
                c == WithRange(control, Bounds(pair, Both))
            IN  ~Throws(r) => /\ c.range = r
                              /\ \/ Settled(c) \/ c.combo = "Month" \/ {c.combo, control.combo} = {"Custom"}
                                 \/ c.combo = "Year" /\ r.start \notin YearStarts
=============================================================================
