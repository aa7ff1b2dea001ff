----------------------------- MODULE PagedList -----------------------------
(***************************************************************************)
(* ListImp (src/core/data_objects/list.h): a list in pages of 1, 2, 4, ... *)
(* elements, so that growing moves nothing.  An index is turned into a     *)
(* page and a place on it by its highest bit.  As in Vector, using a place *)
(* that holds no object, or overwriting one that does, is a fault, and so  *)
(* is using the null pointer.                                              *)
(***************************************************************************)
EXTENDS ElementSequences

LOCAL INSTANCE SequencesExt

VARIABLE list          \* the pages (d, m_pageCount) and m_size

Hole == 0              \* a place that holds no object

NoList == [pages |-> <<>>, size |-> 0, fault |-> FALSE]

PageSize(p) == 2 ^ p
ListCapacity(l) == PageSize(Len(l.pages)) - 1

\* FSB32 and TRUNCATE_LEFT_32: the highest bit of n, and n without it.
HighestBit(n) == CHOOSE b \in 0 .. n : 2 ^ b <= n /\ n < 2 ^ (b + 1)

\* A place is a page and an offset; the null pointer has offset -1.
PlaceAt(i) == LET p == HighestBit(i + 1) IN [page |-> p, off |-> i + 1 - PageSize(p)]
NoPlace(p) == [page |-> p, off |-> -1]
IndexAt(a) == PageSize(a.page) + a.off - 1

IsPlace(l, a) == a.off # -1 /\ a.page \in 0 .. Len(l.pages) - 1

Read(l, a) == IF IsPlace(l, a) THEN l.pages[a.page + 1][a.off] ELSE Hole

Write(l, a, x, expected) ==
  IF ~IsPlace(l, a) THEN [l EXCEPT !.fault = TRUE]
  ELSE [l EXCEPT !.pages[a.page + 1][a.off] = x,
                 !.fault = @ \/ (Read(l, a) # Hole) # expected]

MakeAt(l, a, x)    == IF x = Hole THEN [l EXCEPT !.fault = TRUE] ELSE Write(l, a, x, FALSE)
AssignAt(l, a, x)  == IF x = Hole THEN [l EXCEPT !.fault = TRUE] ELSE Write(l, a, x, TRUE)
DestroyAt(l, a)    == Write(l, a, Hole, TRUE)

---------------------------------------------------------------------------
(* Iterators *)

NextPlace(l, a) ==
  CASE a.off # -1 /\ a.off + 1 < PageSize(a.page) -> [a EXCEPT !.off = @ + 1]
    [] a.page + 1 >= Len(l.pages)                 -> NoPlace(a.page + 1)
    [] OTHER                                      -> [page |-> a.page + 1, off |-> 0]

\* A bug to detect: going back over a page leads to its first place.
PriorPlaceFirst(a) ==
  CASE a.off > 0                -> [a EXCEPT !.off = @ - 1]
    [] a.off <= 0 /\ a.page = 0 -> NoPlace(-1)
    [] OTHER                    -> [page |-> a.page - 1, off |-> 0]

PriorPlace(a) ==
  CASE a.off > 0                -> [a EXCEPT !.off = @ - 1]
    [] a.off <= 0 /\ a.page = 0 -> NoPlace(-1)
    [] OTHER                    -> [page |-> a.page - 1, off |-> PageSize(a.page - 1) - 1]

FirstPlace(l) == IF l.pages = <<>> THEN NoPlace(0) ELSE PlaceAt(0)
EndPlace(l)   == IF l.size = 0 THEN FirstPlace(l) ELSE NextPlace(l, PlaceAt(l.size - 1))

\* The difference of two iterators: the rest of each page in between.  For the end of
\* a list without room left the code reads the page after the last one; then the
\* result is left open.
Between(l, e, b) ==
  LET rest(p) == IF p = b.page THEN PageSize(p) - b.off ELSE PageSize(p)
      pages   == FoldLeft(LAMBDA n, p : n + rest(p), 0, UpTo(b.page, e.page - 1))
  IN  IF e.page = b.page THEN e.off - b.off ELSE pages + e.off

---------------------------------------------------------------------------
(* Operations *)

RECURSIVE ReservePages(_, _)
ReservePages(l, n) ==
  IF ListCapacity(l) >= n THEN l
  ELSE ReservePages([l EXCEPT !.pages = Append(@, [o \in 0 .. PageSize(Len(@)) - 1 |-> Hole])], n)

\* Insertion in the middle: the last element is copied behind itself, the hole goes
\* down by exchanges with the element before it.  Only the index is made room for.
RECURSIVE SinkHole(_, _, _, _)
SinkHole(l, hole, i, at) ==
  LET prior == PriorPlace(hole)
      moved == AssignAt(AssignAt(l, hole, Read(l, prior)), prior, Read(l, hole))
  IN  IF i <= at THEN l ELSE SinkHole(moved, prior, i - 1, at)

PutAt(l, x, at) ==
  LET roomy == ReservePages(l, at + 1)
      end   == EndPlace(roomy)
      last  == PlaceAt(l.size - 1)
      opened == SinkHole(MakeAt(roomy, end, Read(roomy, last)), PriorPlace(end), l.size - 1, at)
      full  == IF at < l.size THEN AssignAt(opened, PlaceAt(at), x)
                              ELSE MakeAt(roomy, PlaceAt(l.size), x)
  IN  [full EXCEPT !.size = @ + 1]

\* Removal: the element is destroyed, the hole goes up to the end.
RECURSIVE RaiseHole(_, _, _)
RaiseHole(l, hole, i) ==
  LET next  == NextPlace(l, hole)
      moved == AssignAt(AssignAt(l, hole, Read(l, next)), next, Read(l, hole))
  IN  IF i >= l.size - 1 THEN DestroyAt(l, hole) ELSE RaiseHole(moved, next, i + 1)

RemoveFrom(l, at) ==
  LET a    == PlaceAt(at)
      next == NextPlace(l, a)
      gone == DestroyAt(l, a)
      closed == IF at < l.size - 1 THEN RaiseHole(MakeAt(gone, a, Read(l, next)), next, at + 1)
                                   ELSE gone
  IN  [closed EXCEPT !.size = @ - 1]

Element(l, i) == Read(l, PlaceAt(i))

IndicesOf(l, x) == {i \in 0 .. l.size - 1 : Element(l, i) = x}

RemoveOneOf(l, x) ==
  IF IndicesOf(l, x) = {} THEN l
  ELSE RemoveFrom(l, CHOOSE i \in IndicesOf(l, x) : \A j \in IndicesOf(l, x) : i <= j)

RemoveLastIn(l, x) ==
  IF IndicesOf(l, x) = {} THEN l
  ELSE RemoveFrom(l, CHOOSE i \in IndicesOf(l, x) : \A j \in IndicesOf(l, x) : i >= j)

\* RemoveAll counts from the end, of a list that a removal makes shorter.
RECURSIVE RemoveEach(_, _, _)
RemoveEach(l, x, i) ==
  LET at == l.size - 1 - i
  IN  IF i >= l.size THEN l
      ELSE RemoveEach(IF Element(l, at) = x THEN RemoveFrom(l, at) ELSE l, x, i + 1)

RemoveAllIn(l, x) == RemoveEach(l, x, 0)

\* Empty destroys the elements from begin() to end(), Clear frees the pages as well.
RECURSIVE DestroyFrom(_, _, _)
DestroyFrom(l, a, e) == IF a = e THEN l ELSE DestroyFrom(DestroyAt(l, a), NextPlace(l, a), e)

EmptyList(l) == [DestroyFrom(l, FirstPlace(l), EndPlace(l)) EXCEPT !.size = 0]
ClearList(l) == [EmptyList(l) EXCEPT !.pages = <<>>]

RECURSIVE ElementsFrom(_, _, _)
ElementsFrom(l, a, e) == IF a = e THEN <<>> ELSE <<Read(l, a)>> \o ElementsFrom(l, NextPlace(l, a), e)

ListContents(l) == ElementsFrom(l, FirstPlace(l), EndPlace(l))

AppendAll(l, xs)  == FoldLeft(LAMBDA k, x : PutAt(k, x, k.size),
                              ReservePages(l, l.size + Len(xs)), xs)
PrependAll(l, xs) == FoldLeft(LAMBDA k, i : PutAt(k, xs[i + 1], i),
                              ReservePages(l, l.size + Len(xs)), UpTo(0, Len(xs) - 1))

CopyList(l) == AppendAll(ReservePages(NoList, ListCapacity(l)), ListContents(l))

\* Sort exchanges two elements, or merges two sorted halves through a buffer; on a tie
\* the element of the left half goes first.
RECURSIVE MergeHalves(_, _, _)
MergeHalves(s, t, ascending) ==
  CASE s = <<>> -> t
    [] t = <<>> -> s
    [] OTHER    -> IF OutOfOrder(Head(s), Head(t), ascending)
                   THEN <<Head(t)>> \o MergeHalves(s, Tail(t), ascending)
                   ELSE <<Head(s)>> \o MergeHalves(Tail(s), t, ascending)

RECURSIVE SortPlaces(_, _, _, _)
SortPlaces(l, b, e, ascending) ==
  LET diff  == Between(l, e, b)
      m     == FoldLeft(LAMBDA a, k : NextPlace(l, a), b, UpTo(1, diff \div 2))
      both  == SortPlaces(SortPlaces(l, b, m, ascending), m, e, ascending)
      sorted == MergeHalves(ElementsFrom(both, b, m), ElementsFrom(both, m, e), ascending)
      x     == Read(l, b)
      last  == PriorPlace(e)
      y     == Read(l, last)
      written == FoldLeft(LAMBDA w, y1 : [l |-> AssignAt(w.l, w.at, y1), at |-> NextPlace(l, w.at)],
                          [l |-> both, at |-> b], sorted)
  IN  CASE diff < 2 -> l
        [] diff = 2 -> IF OutOfOrder(x, y, ascending)
                       THEN AssignAt(AssignAt(l, b, y), last, x) ELSE l
        [] OTHER    -> written.l

SortList(l, ascending) == SortPlaces(l, FirstPlace(l), EndPlace(l), ascending)

\* The search goes on to the end; the one backwards stops at rend() only if the code
\* finds a null pointer where it looks for page 255, so it is for elements that are there.
FirstIndexOf(l, x, start) ==
  LET found == {i \in IndicesOf(l, x) : i >= start}
  IN  IF found = {} THEN NoItem ELSE CHOOSE i \in found : \A j \in found : i <= j

FinalIndexOf(l, x, start) ==
  CHOOSE i \in IndicesOf(l, x) : i <= start /\ \A j \in IndicesOf(l, x) : j <= start => j <= i

---------------------------------------------------------------------------
(* Specification *)

IsFull(l) == l.size = ListCapacity(l)

ListInit == list = NoList

\* Insertion in the middle of a full list uses the null pointer, and sorting a full
\* list reads a page that is not there.
ListChange ==
  \/ \E x \in Elements, i \in 0 .. list.size :
       ~(IsFull(list) /\ i < list.size) /\ list' = PutAt(list, x, i)
  \/ \E i \in 0 .. list.size - 1 : list' = RemoveFrom(list, i)
  \/ \E x \in Elements : \/ list' = RemoveOneOf(list, x)
                         \/ list' = RemoveLastIn(list, x)
                         \/ list' = RemoveAllIn(list, x)
  \/ \E xs \in Arrays(2) : \/ list' = AppendAll(list, xs)
                           \/ list' = PrependAll(list, xs)
  \/ \E n \in 0 .. MaxLength : list' = ReservePages(list, n)
  \/ \E up \in BOOLEAN : ~IsFull(list) /\ list' = SortList(list, up)
  \/ list' = EmptyList(list)
  \/ list' = ClearList(list)
  \/ list' = CopyList(list)

ListNext == ListChange /\ list'.size <= MaxLength

---------------------------------------------------------------------------
(* Properties *)

ListIsSound(l) ==
  /\ ~l.fault /\ l.size <= ListCapacity(l)
  /\ \A i \in 0 .. ListCapacity(l) - 1 : /\ (Element(l, i) # Hole) = (i < l.size)
                                         /\ IndexAt(PlaceAt(i)) = i

ListHas(l, s) == ListIsSound(l) /\ [i \in 1 .. l.size |-> Element(l, i - 1)] = s

\* A list is the sequence that its calls make, iteration over the pages meets the
\* elements in the order of their indices, and no place is used without its object.
\* Nothing is said of insertion in the middle of a list that has no room left, of sorting
\* one, nor of what RemoveAll removes of an element that is there more than once.
PagedListKeepsItsElements ==
  LET s == ListContents(list)
  IN  /\ ListHas(list, s)
      /\ \A x \in Elements, i \in 0 .. Len(s) :
           (IsFull(list) /\ i < Len(s)) \/ ListHas(PutAt(list, x, i), Spliced(s, i, <<x>>))
      /\ \A i \in 0 .. Len(s) - 1 : ListHas(RemoveFrom(list, i), Without(s, i, 1))
      /\ \A x \in ToSet(s) :
           \E i, j \in IndicesOf(list, x) :
             /\ \A k \in IndicesOf(list, x) : i <= k /\ k <= j
             /\ ListHas(RemoveOneOf(list, x), Without(s, i, 1))
             /\ ListHas(RemoveLastIn(list, x), Without(s, j, 1))
             /\ FirstIndexOf(list, x, 0) = i /\ FinalIndexOf(list, x, Len(s) - 1) = j
             /\ (i = j) => ListHas(RemoveAllIn(list, x), Without(s, i, 1))
             /\ ListIsSound(RemoveAllIn(list, x))
      /\ ~IsFull(list) => \A up \in BOOLEAN : ListHas(SortList(list, up), StablySorted(s, up))
      /\ \A xs \in Arrays(2) : /\ ListHas(AppendAll(list, xs), s \o xs)
                               /\ ListHas(PrependAll(list, xs), xs \o s)
      /\ ListHas(CopyList(list), s)
      /\ ListHas(EmptyList(list), <<>>)
=============================================================================
