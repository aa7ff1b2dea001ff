------------------------------ MODULE Strings ------------------------------
(***************************************************************************)
(* String (src/core/data_objects/string.h, string.cpp): a vector of chars  *)
(* that keeps a terminating null behind its last one, which every          *)
(* operation has to write and make room for, and the searches in it.       *)
(* Characters are numbers; Unicode and the encodings are in module         *)
(* Encodings.                                                              *)
(***************************************************************************)
EXTENDS Integers, Sequences, FiniteSets

LOCAL INSTANCE SequencesExt

CONSTANTS Letters,     \* the characters; 2 is the upper case of 1
          MaxText      \* a string has at most so many (a bound)

ASSUME LettersAssumption == Letters \subseteq Nat \ {0} /\ MaxText \in Nat

VARIABLE text          \* the memory of a string and its length

Nul     == 0          \* the terminator
Unset    == -1         \* memory that nothing was written to
NotFound == -1         \* the index GUINT32_MAX

NoText == [cells |-> [i \in {} |-> Unset], size |-> 0, fault |-> FALSE]

Room(t)  == Cardinality(DOMAIN t.cells)
Chars(t) == [i \in 1 .. t.size |-> t.cells[i - 1]]

Texts(n) == UNION {[1 .. k -> Letters] : k \in 0 .. n}

---------------------------------------------------------------------------
(* Memory *)

\* n characters are written from `at` on.
PutChars(t, at, s) ==
  [t EXCEPT !.cells = [i \in DOMAIN t.cells |->
                         IF i \in at .. at + Len(s) - 1 THEN s[i - at + 1] ELSE t.cells[i]],
            !.fault = @ \/ (s # <<>> /\ at + Len(s) > Room(t))]

\* operator [](n) = '\0' at the new length.
Terminate(t, n) == [PutChars(t, n, <<Nul>>) EXCEPT !.size = n]

\* Vector::Reserve: the next number 2^k - 1.  What is written is kept as far as there is
\* room for it.
ReserveCells(t, n) ==
  LET room == CHOOSE c \in {2 ^ k - 1 : k \in 0 .. n} : n <= c /\ (n = 0 \/ c < 2 * n)
  IN  [t EXCEPT !.cells = [i \in 0 .. room - 1 |-> IF i < Room(t) THEN t.cells[i] ELSE Unset],
                !.size  = IF room < @ THEN room ELSE @]

\* String::Reserve.
Reserve(t, n) == ReserveCells(t, n + 1)

WithRoom(t, n) == IF n + 1 > Room(t) THEN Reserve(t, n + 1) ELSE t

---------------------------------------------------------------------------
(* Construction and change *)

\* String(capacity): the null is written at the end of the memory.
OfCapacity(n) == PutChars(ReserveCells(NoText, n + 1), n, <<Nul>>)

OfChars(s) == Terminate(PutChars(ReserveCells(NoText, Len(s) + 1), 0, s), Len(s))

OfCopies(c, n) == IF n = 0 THEN NoText ELSE OfChars([i \in 1 .. n |-> c])

\* A bug to detect: the room for the null is forgotten.
ResizeTight(t, n) == Terminate(IF Room(t) < n THEN ReserveCells(t, n) ELSE t, n)

Resize(t, n) == Terminate(IF Room(t) <= n THEN Reserve(t, n + 1) ELSE t, n)

ResizeWith(t, n, c) ==
  PutChars(Resize(t, n), t.size, IF t.size < n THEN [i \in 1 .. n - t.size |-> c] ELSE <<>>)

\* _copy_init: a null string is copied to a null string.
CopyText(t) == IF Room(t) = 0 THEN NoText ELSE PutChars(Resize(NoText, t.size), 0, Chars(t))

\* Insert: an index behind the end is an IndexOutOfRangeException.
Insert(t, s, at) ==
  LET roomy == WithRoom(t, t.size + Len(s))
      moved == PutChars(roomy, at, s \o SubSeq(Chars(t), at + 1, t.size))
  IN  IF at > t.size THEN t ELSE Terminate(moved, t.size + Len(s))

AppendText(t, s)  == Insert(t, s, t.size)
PrependText(t, s) == Insert(t, s, 0)

\* Vector::RemoveAt moves the characters behind the hole.
CloseGap(t, at, n) == [PutChars(t, at, SubSeq(Chars(t), at + n + 1, t.size)) EXCEPT !.size = @ - n]

RemoveBytesAt(t, at, n) ==
  IF t.size = 0 \/ at + n > t.size THEN t ELSE Terminate(CloseGap(t, at, n), t.size - n)

\* RemoveAll(byte) is Vector's: nobody writes the null.
RemoveEvery(t, c) ==
  FoldLeft(LAMBDA u, i : IF u.cells[i] = c THEN CloseGap(u, i, 1) ELSE u, t,
           [k \in 1 .. t.size |-> t.size - k])

Chop(t, n) == IF n >= t.size THEN Resize(t, 0) ELSE Terminate(t, t.size - n)

\* Length() - N of unsigned numbers: for N > Length() it is greater than any length.
Truncate(t, n) == IF n > t.size THEN Chop(t, t.size) ELSE Chop(t, t.size - n)

ClearText == NoText

\* Of a null string nothing is left but a null string.
SubString(t, at, n) == IF Room(t) = 0 THEN NoText ELSE OfChars(SubSeq(Chars(t), at + 1, at + n))

Left(t, n)  == SubString(t, 0, n)
Right(t, n) == SubString(t, t.size - n, n)

---------------------------------------------------------------------------
(* Search *)

\* _string_compare: whether the characters of s are at position i of u; beyond the
\* memory of u is something else.
IsAt(s, u, i) == \A k \in 1 .. Len(s) : i + k \in 1 .. Len(u) /\ u[i + k] = s[k]

\* A bug to detect: the last place is left out.
IndexOfTextShort(u, s, start) ==
  LET found == {i \in start .. Len(u) - Len(s) - 1 : IsAt(s, u, i)}
  IN  IF s = <<>> \/ found = {} THEN NotFound ELSE CHOOSE i \in found : \A j \in found : i <= j

IndexOfText(u, s, start) ==
  LET found == {i \in start .. Len(u) - Len(s) : IsAt(s, u, i)}
  IN  IF s = <<>> \/ found = {} THEN NotFound ELSE CHOOSE i \in found : \A j \in found : i <= j

\* A start that leaves no room for s is the last place of s for the pointer, but not for
\* the index that is returned: they go down together.
LastIndexOfText(u, s, start) ==
  LET pointer == IF Len(u) - start < Len(s) THEN Len(u) - (Len(s) - 1) ELSE start
      found   == {i \in 0 .. start : IsAt(s, u, pointer - (start - i))}
  IN  IF s = <<>> \/ Len(u) < Len(s) \/ start >= Len(u) \/ found = {} THEN NotFound
      ELSE CHOOSE i \in found : \A j \in found : i >= j

LastIndexAnywhere(u, s) == IF Len(u) < Len(s) THEN NotFound ELSE LastIndexOfText(u, s, Len(u) - Len(s))

Replaced(u, at, n, r) == SubSeq(u, 1, at) \o r \o SubSeq(u, at + n + 1, Len(u))

Lowered(u) == [i \in DOMAIN u |-> IF u[i] = 2 THEN 1 ELSE u[i]]

\* Replace works on two copies, of which one may be in lower case and finds the places.
\* If the replacement is shorter they are replaced from the end, else from the front; a
\* place that overlaps the one before is left alone.
RECURSIVE ReplaceDown(_, _, _, _, _)
ReplaceDown(u, low, find, r, at) ==
  LET shorter == Replaced(low, at, Len(find), r)
  IN  IF at = NotFound THEN u
      ELSE ReplaceDown(Replaced(u, at, Len(find), r), shorter, find, r,
                       IF at < Len(find) THEN NotFound
                       ELSE LastIndexOfText(shorter, find, at - Len(find)))

RECURSIVE ReplaceUp(_, _, _, _, _)
ReplaceUp(u, low, find, r, at) ==
  LET longer == Replaced(low, at, Len(find), r)
  IN  IF at = NotFound THEN u
      ELSE ReplaceUp(Replaced(u, at, Len(find), r), longer, find, r,
                     IF at > Len(longer) - Len(find) THEN NotFound
                     ELSE IndexOfText(longer, find, at + Len(r)))

Replace(u, find, r, sensitive) ==
  LET low == IF sensitive THEN u ELSE Lowered(u)
      f   == IF sensitive THEN find ELSE Lowered(find)
  IN  IF u = <<>> \/ find = <<>> THEN u
      ELSE IF Len(r) < Len(find) THEN ReplaceDown(u, low, f, r, LastIndexAnywhere(low, f))
      ELSE ReplaceUp(u, low, f, r, IndexOfText(low, f, 0))

\* Split: the parts between separators.  An empty text has no part at all.
Split(u, sep, keepEmpty) ==
  LET from[prev \in 0 .. Len(u)] ==
        LET i    == IndexOfText(u, sep, prev)
            part == SubSeq(u, prev + 1, IF i = NotFound THEN Len(u) ELSE i)
            this == IF keepEmpty \/ part # <<>> THEN <<part>> ELSE <<>>
        IN  IF i = NotFound THEN this ELSE this \o from[i + Len(sep)]
  IN  IF u = <<>> THEN <<>> ELSE from[0]

Join(parts, sep) ==
  FlattenSeq([i \in 1 .. Len(parts) |-> parts[i] \o (IF i < Len(parts) THEN sep ELSE <<>>)])

\* operator < and its like: the first difference decides, or else the length.
LessThan(u, v) ==
  \E n \in 0 .. Len(u) : /\ n <= Len(v) /\ SubSeq(u, 1, n) = SubSeq(v, 1, n)
                         /\ IF n = Len(u) THEN n < Len(v) ELSE n < Len(v) /\ u[n + 1] < v[n + 1]

---------------------------------------------------------------------------
(* Specification *)

TextInit == text = NoText

TextChange ==
  \/ \E s \in Texts(2) : \/ text' = OfChars(s)
                         \/ \E i \in 0 .. text.size : text' = Insert(text, s, i)
  \/ \E c \in Letters, n \in 0 .. 2 : text' = OfCopies(c, n)
  \/ \E n \in 0 .. 2 : text' = OfCapacity(n)
  \/ \E n \in 0 .. MaxText : \/ text' = Resize(text, n) /\ n <= text.size
                             \/ \E c \in Letters : text' = ResizeWith(text, n, c)
                             \/ text' = Chop(text, n)
                             \/ text' = Truncate(text, n)
                             \/ text' = Reserve(text, n) /\ n >= text.size
  \/ \E i \in 0 .. text.size, n \in 1 .. 2 : text' = RemoveBytesAt(text, i, n)
  \/ \E c \in Letters : text' = RemoveEvery(text, c)
  \/ text' = CopyText(text)
  \/ text' = ClearText

TextNext == TextChange /\ text'.size <= MaxText

---------------------------------------------------------------------------
(* Properties *)

IsText(t, s)     == ~t.fault /\ t.size <= Room(t) /\ Chars(t) = s
IsTerminated(t)  == t.size < Room(t) /\ t.cells[t.size] = Nul
Reads(t, s)      == IsText(t, s) /\ IsTerminated(t)

\* Whatever a string went through - a null string, one without room for its null, one
\* that has lost it by RemoveAll(byte) or was made with a capacity only - every other call
\* leaves the characters that it says with the null behind them, inside the memory.  Of
\* RemoveAll only the characters are looked at, and nothing is said of Truncate beyond the
\* length.
EveryCallTerminates ==
  LET s == Chars(text)
  IN  /\ IsText(text, s)
      /\ \A n \in 0 .. MaxText, c \in Letters :
           /\ n <= text.size => Reads(Resize(text, n), SubSeq(s, 1, n))
           /\ Reads(ResizeWith(text, n, c),
                    [i \in 1 .. n |-> IF i <= Len(s) THEN s[i] ELSE c])
           /\ Reads(Chop(text, n), SubSeq(s, 1, Len(s) - n))
           /\ n <= Len(s) => Reads(Truncate(text, n), SubSeq(s, 1, n))
           /\ Room(text) > 0 /\ n <= Len(s) =>
                /\ Reads(Left(text, n), SubSeq(s, 1, n))
                /\ Reads(Right(text, n), SubSeq(s, Len(s) - n + 1, Len(s)))
      /\ \A u \in Texts(2), i \in 0 .. Len(s) :
           Reads(Insert(text, u, i), SubSeq(s, 1, i) \o u \o SubSeq(s, i + 1, Len(s)))
      /\ \A i \in 0 .. Len(s), n \in 1 .. 2 :
           i + n <= Len(s) =>
             Reads(RemoveBytesAt(text, i, n), SubSeq(s, 1, i) \o SubSeq(s, i + n + 1, Len(s)))
      /\ \A c \in Letters : IsText(RemoveEvery(text, c), SelectSeq(s, LAMBDA d : d # c))
      /\ Room(text) > 0 => Reads(CopyText(text), s)

\* The searches and what is built on them.  Replace exchanges the occurrences that do
\* not overlap, and none that its replacements make; without regard to case it finds
\* those of the lower case and leaves the rest as it was; Join undoes Split.  With
\* LastIndexOf the index is right unless the start is too close to the end.
SearchesAgree ==
  LET u == Chars(text)
  IN  \A find \in Texts(2) \ {<<>>} :
        /\ Join(Split(u, find, TRUE), find) = u
        /\ \A part \in ToSet(Split(u, find, TRUE)) : ~\E i \in 0 .. Len(part) : IsAt(find, part, i)
        /\ Split(u, find, FALSE) = SelectSeq(Split(u, find, TRUE), LAMBDA p : p # <<>>)
        /\ \A r \in Texts(2) :
             /\ Len(r) >= Len(find) => Replace(u, find, r, TRUE) = Join(Split(u, find, TRUE), r)
             /\ Len(r) < Len(find) =>
                  Replace(u, find, r, TRUE) = Reverse(Join(Split(Reverse(u), Reverse(find), TRUE), Reverse(r)))
             /\ Replace(Lowered(u), find, r, FALSE) = Replace(Lowered(u), Lowered(find), r, TRUE)
             /\ Lowered(Replace(u, find, r, FALSE)) = Replace(Lowered(u), Lowered(find), Lowered(r), TRUE)
        /\ \A start \in 0 .. Len(u) - Len(find) :
             LastIndexOfText(u, find, start) =
               (IF \E i \in 0 .. start : IsAt(find, u, i)
                THEN CHOOSE i \in 0 .. start :
                       IsAt(find, u, i) /\ \A j \in i + 1 .. start : ~IsAt(find, u, j)
                ELSE NotFound)
        /\ LessThan(u, find) = ~(LessThan(find, u) \/ u = find)
=============================================================================
