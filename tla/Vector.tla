------------------------------- MODULE Vector -------------------------------
(***************************************************************************)
(* VectorImp (src/core/data_objects/vector.h): an array that reserves more *)
(* memory than it uses.  The model keeps what the code must get right by   *)
(* hand: which slots of the memory hold an object.  A slot that is written *)
(* as if it held one, or overwritten although it does, is a fault.         *)
(* Indices start at 0, as in the code.                                     *)
(***************************************************************************)
EXTENDS ElementSequences

LOCAL INSTANCE SequencesExt

VARIABLE vector        \* the memory, m_capacity and m_size

Raw    == 0            \* a slot that holds no object

Slots(n) == 0 .. n - 1

\* `movable` is IsMovableType<T>: elements may be moved with memmove.
NoVector(movable) ==
  [movable |-> movable, data |-> [i \in {} |-> Raw], capacity |-> 0, size |-> 0, fault |-> FALSE]

Contents(v) == [i \in 1 .. v.size |-> v.data[i - 1]]

---------------------------------------------------------------------------
(* Objects in the memory *)

Construct(v, i, x) ==
  IF i \in DOMAIN v.data THEN [v EXCEPT !.data[i] = x, !.fault = @ \/ v.data[i] # Raw \/ x = Raw]
                         ELSE [v EXCEPT !.fault = TRUE]

Destroy(v, i) == [v EXCEPT !.data[i] = Raw, !.fault = @ \/ v.data[i] = Raw]

Overwrite(v, i, x) == [v EXCEPT !.data[i] = x, !.fault = @ \/ v.data[i] = Raw \/ x = Raw]

\* memmove of n slots; the bytes left behind are no objects any more.
Memmove(v, to, from, n) ==
  [v EXCEPT !.data = [i \in DOMAIN v.data |->
      IF i \in to .. to + n - 1 THEN v.data[i - to + from]
      ELSE IF i \in from .. from + n - 1 THEN Raw ELSE v.data[i]]]

SetLength(v, n) == [v EXCEPT !.size = n]

---------------------------------------------------------------------------
(* Memory *)

\* _compute_capacity: the next number 2^k - 1.
ComputeCapacity(n) == IF n <= 0 THEN 0
                      ELSE CHOOSE c \in {2 ^ k - 1 : k \in 1 .. n} : n <= c /\ c < 2 * n

\* ReserveExactly: a smaller memory loses the elements at the end.
ReserveExactly(v, n) ==
  LET cut == SetLength(FoldLeft(Destroy, v, UpTo(n, v.size - 1)), n)
      old == IF n < v.size THEN cut ELSE v
  IN  IF n = v.capacity THEN v
      ELSE [old EXCEPT
              !.data     = [i \in Slots(n) |-> IF i < old.size THEN old.data[i] ELSE Raw],
              !.capacity = n,
              !.fault    = @ \/ \E i \in DOMAIN old.data : i >= old.size /\ old.data[i] # Raw]

ReserveFor(v, n) == ReserveExactly(v, ComputeCapacity(n))

ClearVector(v) == ReserveExactly(v, 0)

\* Empty keeps the memory.
EmptyVector(v) == SetLength(FoldLeft(Destroy, v, UpTo(0, v.size - 1)), 0)

---------------------------------------------------------------------------
(* Insertion *)

InsertItem(v, x, at) ==
  LET len   == v.size
      roomy == IF len = v.capacity THEN ReserveFor(v, len + 1) ELSE v
      \* the elements from `at` on, one slot to the right
      shift == FoldLeft(LAMBDA w, i : Overwrite(w, i, w.data[i - 1]),
                        Construct(roomy, len, roomy.data[len - 1]), DownTo(len - 1, at + 1))
      full  == IF at = len THEN Construct(roomy, at, x)
               ELSE IF v.movable THEN Construct(Memmove(roomy, at + 1, at, len - at), at, x)
               ELSE Overwrite(shift, at, x)
  IN  IF at > len THEN v                 \* IndexOutOfRangeException
      ELSE SetLength(full, len + 1)

\* The array is not part of the vector.
InsertArray(v, xs, at) ==
  LET len  == v.size
      size == Len(xs)
      roomy   == IF len + size > v.capacity THEN ReserveFor(v, len + size) ELSE v
      append(w) == FoldLeft(LAMBDA u, i : Construct(u, at + i, xs[i + 1]), w, UpTo(0, size - 1))
      \* without memmove: copies of the last elements, then the ones before, then the new
      copied  == FoldLeft(LAMBDA w, i : Construct(w, len + size - i, w.data[len - i]), roomy,
                          UpTo(1, IF size < len THEN size ELSE len))
      shifted == FoldLeft(LAMBDA w, i : Overwrite(w, i, w.data[i - size]), copied,
                          DownTo(len - 1, at + size + 1))
      written == FoldLeft(LAMBDA w, i : IF i < len THEN Overwrite(w, at + i, xs[i + 1])
                                        ELSE Construct(w, at + i, xs[i + 1]),
                          shifted, UpTo(0, size - 1))
      full    == IF at = len THEN append(roomy)
                 ELSE IF v.movable THEN append(Memmove(roomy, at + size, at, len - at))
                 ELSE written
  IN  IF at > len THEN v ELSE SetLength(full, len + size)

---------------------------------------------------------------------------
(* Removal *)

RemoveItems(v, at, num) ==
  LET len  == v.size
      hole == FoldLeft(Destroy, v, UpTo(at, at + num - 1))
      \* without memmove: copies into the hole, then assignments, then the end is destroyed
      filled  == FoldLeft(LAMBDA w, i : Construct(w, i, w.data[i + num]), hole,
                          SelectSeq(UpTo(at, at + num - 1), LAMBDA i : i < len - num))
      shifted == FoldLeft(LAMBDA w, i : Overwrite(w, i, w.data[i + num]), filled,
                          UpTo(at + num, len - num - 1))
      closed  == FoldLeft(Destroy, shifted,
                          UpTo(IF len - num > at + num THEN len - num ELSE at + num, len - 1))
  IN  IF len = 0 \/ at + num > len THEN v      \* IndexOutOfRangeException
      ELSE SetLength(IF v.movable THEN Memmove(hole, at, at + num, len - at - num) ELSE closed,
                     len - num)

Places(v, x) == {i \in Slots(v.size) : v.data[i] = x}

RemoveFirstOf(v, x) ==
  IF Places(v, x) = {} THEN v
  ELSE RemoveItems(v, CHOOSE i \in Places(v, x) : \A j \in Places(v, x) : i <= j, 1)

RemoveLastOf(v, x) ==
  IF Places(v, x) = {} THEN v
  ELSE RemoveItems(v, CHOOSE i \in Places(v, x) : \A j \in Places(v, x) : i >= j, 1)

\* A bug to detect: RemoveAll goes forwards.
RemoveAllOfUp(v, x) ==
  FoldLeft(LAMBDA w, i : IF i < w.size /\ w.data[i] = x THEN RemoveItems(w, i, 1) ELSE w, v,
           UpTo(0, v.size - 1))

\* RemoveAll goes backwards, so that a removal does not move what is still to come.
RemoveAllOf(v, x) ==
  FoldLeft(LAMBDA w, i : IF w.data[i] = x THEN RemoveItems(w, i, 1) ELSE w, v,
           DownTo(v.size - 1, 0))

\* Resize cuts elements off one by one, or adds copies of x.
ResizeTo(v, n, x) ==
  LET roomy == IF n > v.capacity THEN ReserveFor(v, n) ELSE v
      cut   == FoldLeft(LAMBDA w, i : RemoveItems(w, n, 1), roomy, DownTo(v.size, n + 1))
      grown == FoldLeft(LAMBDA w, i : Construct(w, i, x), roomy, UpTo(v.size, n - 1))
  IN  SetLength(IF n < v.size THEN cut ELSE grown, n)

---------------------------------------------------------------------------
(* Construction and assignment *)

MakeRoom(movable, n, exactly) == IF exactly THEN ReserveExactly(NoVector(movable), n)
                                            ELSE ReserveFor(NoVector(movable), n)

\* The constructors from an array, and from n copies of an element.
FromArray(movable, xs, exactly) ==
  FoldLeft(LAMBDA w, i : Construct(w, i, xs[i + 1]),
           SetLength(MakeRoom(movable, Len(xs), exactly), Len(xs)), UpTo(0, Len(xs) - 1))

FromCopies(movable, x, n, exactly) == FromArray(movable, [i \in 1 .. n |-> x], exactly)

\* A copy reserves as much as the original, or exactly what it needs.
CopyOf(v, exactly) ==
  LET room == MakeRoom(v.movable, IF exactly THEN v.size ELSE v.capacity, exactly)
  IN  IF v.capacity = 0 THEN NoVector(v.movable)
      ELSE FoldLeft(LAMBDA w, i : Construct(w, i, v.data[i]), SetLength(room, v.size),
                    UpTo(0, v.size - 1))

AssignVector(v, xs) == InsertArray(EmptyVector(v), xs, 0)

\* v = v finds itself empty when it copies itself.
AssignItself(v) == AssignVector(v, Contents(EmptyVector(v)))

---------------------------------------------------------------------------
(* Search, comparison and sorting *)

IndexOf(v, x, start) ==
  LET found == {i \in Places(v, x) : i >= start}
  IN  IF found = {} THEN NoItem ELSE CHOOSE i \in found : \A j \in found : i <= j

\* operator ==: a vector with memory never equals one without.
EqualVectors(v, w) == /\ v.size = w.size
                      /\ (v.capacity = 0) = (w.capacity = 0)
                      /\ \A i \in Slots(v.size) : v.data[i] = w.data[i]

\* The merge of two sorted runs: on a tie the left one goes first.
RECURSIVE MergeRuns(_, _, _)
MergeRuns(s, t, ascending) ==
  CASE s = <<>> -> t
    [] t = <<>> -> s
    [] OTHER    -> IF OutOfOrder(Head(s), Head(t), ascending)
                   THEN <<Head(t)>> \o MergeRuns(s, Tail(t), ascending)
                   ELSE <<Head(s)>> \o MergeRuns(Tail(s), t, ascending)

RECURSIVE MergeSort(_, _)
MergeSort(s, ascending) ==
  LET half == Len(s) \div 2
  IN  CASE Len(s) < 2 -> s
        [] Len(s) = 2 -> IF OutOfOrder(s[1], s[2], ascending) THEN <<s[2], s[1]>> ELSE s
        [] OTHER      -> MergeRuns(MergeSort(SubSeq(s, 1, half), ascending),
                                   MergeSort(SubSeq(s, half + 1, Len(s)), ascending), ascending)

SortVector(v, ascending) ==
  LET sorted == MergeSort(Contents(v), ascending)
  IN  FoldLeft(LAMBDA w, i : Overwrite(w, i, sorted[i + 1]), v, UpTo(0, v.size - 1))

---------------------------------------------------------------------------
(* Specification *)

VectorInit == \E movable \in BOOLEAN : vector = NoVector(movable)

\* The calls for which Insert(array) goes wrong without memmove: there is more
\* behind the place than is inserted, or more is inserted than there was.
InsertArrayIsWrong(v, xs, at) ==
  /\ ~v.movable /\ xs # <<>> /\ at < v.size
  /\ Len(xs) < v.size - at \/ (Len(xs) > v.size /\ at > 0)

VectorCall ==
  \/ \E x \in Elements, i \in 0 .. vector.size : vector' = InsertItem(vector, x, i)
  \/ \E xs \in Arrays(2), i \in 0 .. vector.size :
       ~InsertArrayIsWrong(vector, xs, i) /\ vector' = InsertArray(vector, xs, i)
  \/ \E i \in Slots(vector.size), n \in 1 .. 2 : vector' = RemoveItems(vector, i, n)
  \/ \E x \in Elements : \/ vector' = RemoveFirstOf(vector, x)
                         \/ vector' = RemoveLastOf(vector, x)
                         \/ vector' = RemoveAllOf(vector, x)
  \/ \E n \in 0 .. MaxLength, x \in Elements : vector' = ResizeTo(vector, n, x)
  \/ \E n \in 0 .. MaxLength : \/ vector' = ReserveExactly(vector, n)
                               \/ vector' = ReserveFor(vector, n)
  \/ \E up \in BOOLEAN : vector' = SortVector(vector, up)
  \/ \E xs \in Arrays(2) : vector' = AssignVector(vector, xs)
  \/ \E exactly \in BOOLEAN :
       \/ vector' = CopyOf(vector, exactly)
       \/ \E xs \in Arrays(2) : vector' = FromArray(vector.movable, xs, exactly)
  \/ vector' = ClearVector(vector)
  \/ vector' = EmptyVector(vector)
  \/ vector' = AssignItself(vector)

VectorNext == VectorCall /\ vector'.size <= MaxLength

---------------------------------------------------------------------------
(* Properties *)

VectorIsSound(v) == /\ ~v.fault
              /\ v.size <= v.capacity /\ DOMAIN v.data = Slots(v.capacity)
              /\ \A i \in Slots(v.capacity) : (v.data[i] # Raw) = (i < v.size)

VectorHas(v, s) == VectorIsSound(v) /\ Contents(v) = s

\* A vector is what its calls say, a sequence, and exactly its elements are
\* objects in its memory: none is leaked, destroyed twice or used after it was
\* destroyed, whichever way a call moves the elements.  The insertions of an array that
\* go wrong (InsertArrayIsWrong) are left out, and so are LastIndexOf and the constructor
\* from two iterators, which are not modelled.
VectorKeepsItsElements ==
  LET s == Contents(vector)
  IN  /\ VectorIsSound(vector)
      /\ \A i \in 0 .. vector.size, x \in Elements :
           VectorHas(InsertItem(vector, x, i), Spliced(s, i, <<x>>))
      /\ \A i \in 0 .. vector.size, xs \in Arrays(3) :
           InsertArrayIsWrong(vector, xs, i) \/ VectorHas(InsertArray(vector, xs, i), Spliced(s, i, xs))
      /\ \A i \in Slots(vector.size), n \in 1 .. vector.size :
           i + n <= vector.size => VectorHas(RemoveItems(vector, i, n), Without(s, i, n))
      /\ \A x \in Elements :
           /\ VectorHas(RemoveAllOf(vector, x), SelectSeq(s, LAMBDA y : y # x))
           /\ Contains(s, x) =>
                \E i, j \in Places(vector, x) :
                  /\ \A k \in Places(vector, x) : i <= k /\ k <= j
                  /\ IndexOf(vector, x, 0) = i /\ IndexOf(vector, x, j) = j
                  /\ IndexOf(vector, x, j + 1) = NoItem
                  /\ VectorHas(RemoveFirstOf(vector, x), Without(s, i, 1))
                  /\ VectorHas(RemoveLastOf(vector, x), Without(s, j, 1))
      /\ \A n \in 0 .. MaxLength, x \in Elements :
           VectorHas(ResizeTo(vector, n, x),
               [i \in 1 .. n |-> IF i <= Len(s) THEN s[i] ELSE x])
      /\ \A up \in BOOLEAN : VectorHas(SortVector(vector, up), StablySorted(s, up))
      /\ \A exactly \in BOOLEAN : VectorHas(CopyOf(vector, exactly), s)
      /\ \A xs \in Arrays(2) :
           /\ VectorHas(AssignVector(vector, xs), xs)
           /\ s # <<>> => EqualVectors(vector, FromArray(vector.movable, xs, TRUE)) = (s = xs)
      /\ \A x \in Elements, n \in 0 .. MaxLength, exactly \in BOOLEAN :
           VectorHas(FromCopies(vector.movable, x, n, exactly), [i \in 1 .. n |-> x])
=============================================================================
