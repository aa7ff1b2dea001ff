------------------------------- MODULE Region -------------------------------
(***************************************************************************)
(* Range and Region (src/core/data_objects/range.h): sets of values of an  *)
(* ordered type, kept as bounds.  A region is a list of ranges; Union and  *)
(* Complement work on the lists, and the other operations are made of      *)
(* these two.  The type is dense: between two Values there is a point that *)
(* is no bound.                                                            *)
(***************************************************************************)
EXTENDS Integers, Sequences

CONSTANTS Values,    \* the numbers that occur as bounds (a bound)
          Points     \* the Values, and numbers between any two and beyond them (a bound)

\* A null bound reads as NullValue and is compared to others: see README.
ASSUME ValuesAssumption == Values \subseteq Points /\ Values \subseteq Nat \ {0}

\* The type is dense and has no least or largest value.
ASSUME PointsAssumption ==
  /\ Points \subseteq Int /\ Points # {}
  /\ \A v \in Values : (\E p \in Points : p < v) /\ (\E p \in Points : p > v)
  /\ \A v, w \in Values : v < w => \E p \in Points : v < p /\ p < w

VARIABLES region, operand    \* two regions of the program

regions == <<region, operand>>

NullValue == 0       \* what a null bound holds, for a type of numbers

---------------------------------------------------------------------------
(* Bounds and ranges *)

NullBound  == [null |-> TRUE, value |-> NullValue, included |-> TRUE]
Bound      == [null : {FALSE}, value : Values, included : BOOLEAN]

Universe   == [lower |-> NullBound, upper |-> NullBound, null |-> FALSE]
EmptyRange == [Universe EXCEPT !.null = TRUE]

HasLowerBound(r) == ~r.lower.null
HasUpperBound(r) == ~r.upper.null

\* By convention, [v, v) and (v, v] are everything.
CreateDoubleBound(l, u) ==
  IF l.value = u.value /\ l.included # u.included THEN Universe
  ELSE [lower |-> l, upper |-> u, null |-> FALSE]

CreateLowerBound(l) == [Universe EXCEPT !.lower = l]
CreateUpperBound(u) == [Universe EXCEPT !.upper = u]

\* What the factory functions make.
Ranges == {EmptyRange, Universe}
            \cup {CreateLowerBound(b) : b \in Bound} \cup {CreateUpperBound(b) : b \in Bound}
            \cup {CreateDoubleBound(l, u) : l \in Bound, u \in Bound}

\* _compare_bounds: of two equal values, the kinds of bounds decide.
Compare(b, c, kind) ==
  CASE b.value < c.value                -> -1
    [] b.value > c.value                -> 1
    [] b.value = c.value /\ b.included # c.included ->
         IF kind = (IF b.included THEN "lower" ELSE "upper") THEN -1 ELSE 1
    [] OTHER                            -> IF kind = "both" /\ ~b.included THEN 1 ELSE 0

CompareLower(r, s) == Compare(r.lower, s.lower, "lower")
CompareUpper(r, s) == Compare(r.upper, s.upper, "upper")

\* Two ranges reach each other: the lower bound of r is not above the upper of s.
Reaches(r, s) == Compare(r.lower, s.upper, "both") <= 0

IsUniverse(r)          == ~r.null /\ ~HasLowerBound(r) /\ ~HasUpperBound(r)
IsBounded(r)           == r.null \/ (HasLowerBound(r) /\ HasUpperBound(r) /\ Reaches(r, r))
IsUnbounded(r)         == IsUniverse(r) \/ (HasLowerBound(r) /\ HasUpperBound(r) /\ ~Reaches(r, r))
IsUnboundedPositive(r) == ~r.null /\ ~HasUpperBound(r)
IsUnboundedNegative(r) == ~r.null /\ ~HasLowerBound(r)

RangeContains(r, p) ==
  LET above == HasLowerBound(r) =>
                 r.lower.value < p \/ (r.lower.included /\ r.lower.value = p)
      below == HasUpperBound(r) =>
                 p < r.upper.value \/ (r.upper.included /\ r.upper.value = p)
  IN  ~r.null /\ IF IsUnbounded(r) THEN above \/ below ELSE above /\ below

Flip(b) == IF b.null THEN NullBound ELSE [b EXCEPT !.included = ~@]

ComplementOfRange(r) ==
  IF r.null THEN Universe
  ELSE IF IsUniverse(r) THEN EmptyRange
  ELSE [r EXCEPT !.lower = Flip(r.upper), !.upper = Flip(r.lower)]

\* Intersects(r, s), where r is not bounded on both sides.
UnboundedIntersects(r, s) ==
  CASE IsUnboundedPositive(r) -> \/ IsUnboundedPositive(s)
                                 \/ HasLowerBound(s) /\ CompareLower(r, s) <= 0
                                 \/ HasUpperBound(s) /\ Reaches(r, s)
    [] IsUnboundedNegative(r) -> \/ IsUnboundedNegative(s)
                                 \/ HasUpperBound(s) /\ CompareUpper(r, s) >= 0
                                 \/ HasLowerBound(s) /\ Reaches(s, r)
    [] OTHER                  -> \/ IsUnbounded(s) \/ IsUnboundedNegative(s)
                                 \/ IsUnboundedPositive(s)
                                 \/ CompareLower(r, s) <= 0 \/ Reaches(r, s)
                                 \/ CompareUpper(r, s) >= 0 \/ Reaches(s, r)

IsSubset(r, s) ==
  LET Above == CompareLower(r, s) >= 0
      Below == CompareUpper(r, s) <= 0
  IN  \/ IsUniverse(s) \/ r.null
      \/ /\ ~IsUniverse(r) /\ ~s.null
         /\ CASE IsUnbounded(s) ->
                  \/ IsUnbounded(r) /\ Above /\ Below
                  \/ IsBounded(r) /\ (Above \/ Below)
                  \/ IsUnboundedPositive(r) /\ Above
                  \/ IsUnboundedNegative(r) /\ Below
              [] IsUnboundedPositive(s) -> (IsBounded(r) \/ IsUnboundedPositive(r)) /\ Above
              [] IsUnboundedNegative(s) -> (IsBounded(r) \/ IsUnboundedNegative(r)) /\ Below
              [] OTHER                  -> IsBounded(r) /\ Above /\ Below

Intersects(r, s) ==
  /\ ~r.null /\ ~s.null
  /\ \/ IsUniverse(r) \/ IsUniverse(s)
     \/ IF ~IsBounded(r) THEN UnboundedIntersects(r, s)
        ELSE IF ~IsBounded(s) THEN UnboundedIntersects(s, r)
        ELSE \/ CompareLower(r, s) <= 0 /\ Reaches(s, r)
             \/ CompareUpper(r, s) >= 0 /\ Reaches(r, s)
             \/ CompareLower(r, s) >= 0 /\ CompareUpper(r, s) <= 0

\* Two ranges touch in a value that belongs to one of them.
IsAdjacent(r, s) ==
  LET Touch(b, c) == ~b.null /\ ~c.null /\ b.value = c.value /\ b.included # c.included
  IN  Touch(r.upper, s.lower) \/ Touch(r.lower, s.upper)

---------------------------------------------------------------------------
(* Regions *)

EmptyRegion == [ranges |-> <<>>, universe |-> FALSE]
Everything  == [ranges |-> <<>>, universe |-> TRUE]

IsEmpty(a) == ~a.universe /\ a.ranges = <<>>

\* Region(r): a range with a part missing in the centre is split in two.
RegionOf(r) ==
  IF r.null THEN EmptyRegion
  ELSE IF IsUniverse(r) THEN Everything
  ELSE [universe |-> FALSE,
        ranges   |-> IF IsUnbounded(r)
                     THEN <<CreateUpperBound(r.upper), CreateLowerBound(r.lower)>>
                     ELSE <<r>>]

\* RangeContaining: the list is in order, and the search ends at the first range
\* whose lower bound is above p.
ContainsPoint(a, p) ==
  LET stops == {i \in 1 .. Len(a.ranges) :
                  RangeContains(a.ranges[i], p) \/ a.ranges[i].lower.value > p}
  IN  a.universe \/ \E i \in stops : /\ \A j \in stops : i <= j
                                     /\ RangeContains(a.ranges[i], p)

\* The union of two ranges that intersect or are adjacent.
MergeRanges(r, s) ==
  [r EXCEPT
    !.lower = IF IsUnboundedNegative(r) \/ IsUnboundedNegative(s) THEN NullBound
              ELSE IF CompareLower(r, s) > 0 THEN s.lower ELSE @,
    !.upper = IF IsUnboundedPositive(r) \/ IsUnboundedPositive(s) THEN NullBound
              ELSE IF CompareUpper(r, s) < 0 THEN s.upper ELSE @]

RangeLessThan(r, s) ==
  ~IsUnboundedPositive(r) /\ ~Reaches(s, r)

\* A bug to detect: ranges that only touch stay apart.
Overlap(r, s) == Intersects(r, s)

Meets(r, s) == Intersects(r, s) \/ IsAdjacent(r, s)

\* The loop of Union: its iterators stand after `last`, the range of ours that was looked
\* at last (none at first), and before the ranges of ours and of theirs that come next.
Merging(behind, last, ours, theirs) ==
  [behind |-> behind, last |-> last, ours |-> ours, theirs |-> theirs]

\* The next range meets the last one.
Extends(m, next) == m.last # <<>> /\ next # <<>> /\ Meets(Head(m.last), Head(next))

Widened(m, r) == <<MergeRanges(Head(m.last), r)>>

BecameUniverse(m) == m.last # <<>> /\ IsUniverse(Head(m.last))

IsMerged(m) == BecameUniverse(m) \/ (m.ours = <<>> /\ m.theirs = <<>>)

\* One turn of the loop, and none after its end.
MergeNext(m) ==
  LET our    == m.ours # <<>>
      their  == m.theirs # <<>>
      passed == m.behind \o m.last
  IN  IF IsMerged(m) THEN m
      ELSE IF Extends(m, m.ours) THEN
        Merging(m.behind, Widened(m, Head(m.ours)), Tail(m.ours), m.theirs)
      ELSE IF Extends(m, m.theirs) THEN
        Merging(m.behind, Widened(m, Head(m.theirs)), m.ours, Tail(m.theirs))
      ELSE IF our /\ their /\ Meets(Head(m.ours), Head(m.theirs)) THEN
        Merging(passed, <<MergeRanges(Head(m.ours), Head(m.theirs))>>, Tail(m.ours), Tail(m.theirs))
      ELSE IF their /\ (our => RangeLessThan(Head(m.theirs), Head(m.ours))) THEN
        Merging(passed, <<Head(m.theirs)>>, m.ours, Tail(m.theirs))
      ELSE
        Merging(passed, <<Head(m.ours)>>, Tail(m.ours), m.theirs)

MergeLists(ours, theirs) ==
  LET turns == Len(ours) + Len(theirs)    \* every turn takes a range
      m[n \in 0 .. turns] == IF n = 0 THEN Merging(<<>>, <<>>, ours, theirs) ELSE MergeNext(m[n - 1])
      end == m[turns]
  IN  IF BecameUniverse(end) THEN Everything
      ELSE [ranges |-> end.behind \o end.last, universe |-> FALSE]

Union(a, b) ==
  IF a.universe \/ IsEmpty(b) THEN a
  ELSE IF b.universe \/ IsEmpty(a) THEN b
  ELSE MergeLists(a.ranges, b.ranges)

\* A bug to detect: the bound that was carried is not forgotten when it is used.
CarryTwice(r, acc) ==
  LET mem == IF r.upper.null THEN acc.mem ELSE r.upper
  IN  IF HasLowerBound(r)
      THEN [mem |-> mem, ranges |-> <<[r EXCEPT !.upper = acc.mem]>> \o acc.ranges]
      ELSE [acc EXCEPT !.mem = r.upper]

\* One turn of the loop of Complement: the complemented range r keeps its lower
\* bound and takes the upper bound of the range after it.
Carry(r, acc) ==
  IF HasLowerBound(r)
  THEN [mem |-> r.upper, ranges |-> <<[r EXCEPT !.upper = acc.mem]>> \o acc.ranges]
  ELSE [acc EXCEPT !.mem = r.upper]

Complement(a) ==
  LET size  == Len(a.ranges)
      \* The last n ranges were handled, from the last to the first.
      carried[n \in 0 .. size] ==
        IF n = 0 THEN [mem |-> NullBound, ranges |-> <<>>]
        ELSE Carry(ComplementOfRange(a.ranges[size - n + 1]), carried[n - 1])
      mem   == carried[size].mem
      first == IF mem.null THEN <<>> ELSE <<CreateUpperBound(mem)>>
  IN  IF a.universe THEN EmptyRegion
      ELSE IF IsEmpty(a) THEN Everything
      ELSE [a EXCEPT !.ranges = first \o carried[size].ranges]

Intersect(a, b)           == Complement(Union(Complement(a), Complement(b)))
Difference(a, b)          == Intersect(a, Complement(b))
SymmetricDifference(a, b) == Difference(Union(a, b), Intersect(a, b))
ComplementIn(a, b)        == IF b.universe THEN Complement(a) ELSE Difference(b, a)

---------------------------------------------------------------------------
(* The program: it computes with region and operand, two different objects. *)

AssignRange(r) == region' = RegionOf(r) /\ UNCHANGED operand
Assign         == operand' = region /\ UNCHANGED region

Operate ==
  /\ region' \in {Union(region, operand), Intersect(region, operand),
                  Difference(region, operand), SymmetricDifference(region, operand),
                  Complement(region), ComplementIn(region, operand)}
  /\ UNCHANGED operand

RegionInit == region = EmptyRegion /\ operand = EmptyRegion

RegionNext == (\E r \in Ranges : AssignRange(r)) \/ Assign \/ Operate

RegionSpec == RegionInit /\ [][RegionNext]_regions

---------------------------------------------------------------------------
(* Correctness *)

PointsOf(r) == {p \in Points : RangeContains(r, p)}

RangesOf(a) == {a.ranges[i] : i \in DOMAIN a.ranges}

Denoted(a) == IF a.universe THEN Points ELSE UNION {PointsOf(r) : r \in RangesOf(a)}

\* What Union asks of two ranges of regions is answered rightly, and so is
\* IsSubset of these ranges and of their complements, which have a part missing
\* in the centre.
RangesCompareRight(r, s) ==
  /\ Intersects(r, s) <=> PointsOf(r) \cap PointsOf(s) # {}
  /\ \A u \in {r, ComplementOfRange(r)}, v \in {s, ComplementOfRange(s)} :
       IsSubset(u, v) <=> PointsOf(u) \subseteq PointsOf(v)

ListIsMinimal ==
  /\ region.universe => region.ranges = <<>>
  /\ \A i, j \in DOMAIN region.ranges :
       i < j => /\ RangeLessThan(region.ranges[i], region.ranges[j])
                /\ ~Meets(region.ranges[i], region.ranges[j])
  /\ \A p \in Points : ContainsPoint(region, p) <=> p \in Denoted(region)
  /\ Denoted(region) = Denoted(operand) => region = operand

OperationsAreExact ==
  LET ours   == Denoted(region)
      theirs == Denoted(operand)
  IN  /\ Denoted(Union(region, operand)) = ours \cup theirs
      /\ Denoted(Intersect(region, operand)) = ours \cap theirs
      /\ Denoted(Difference(region, operand)) = ours \ theirs
      /\ Denoted(SymmetricDifference(region, operand)) = (ours \ theirs) \cup (theirs \ ours)
      /\ Denoted(Complement(region)) = Points \ ours
      /\ Denoted(ComplementIn(region, operand)) = theirs \ ours
      /\ \A r \in RangesOf(region), s \in RangesOf(operand) : RangesCompareRight(r, s)

\* Whatever operations it went through, a region is a list of ranges in order, no two of
\* which could be one; so Contains() may stop early, and two regions of the same points
\* are the same list.  Union and Complement, and what is made of them, are the operations
\* on sets.
RegionIsExact == ListIsMinimal /\ OperationsAreExact
=============================================================================
