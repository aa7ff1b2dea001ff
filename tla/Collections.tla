---------------------------- MODULE Collections ----------------------------
(***************************************************************************)
(* ObservableCollection (src/core/data_objects/collection.h): a list whose *)
(* changes are announced to its observers, who are called in the order in  *)
(* which they were added.  Before a change they may refuse it by an        *)
(* exception, or alter an item that comes in; afterwards they may alter    *)
(* the new item, and an exception then comes too late.  Every observer of  *)
(* the model keeps a mirror of the collection from what it is told.  The   *)
(* list is taken for a sequence (see PagedList).                           *)
(*                                                                         *)
(* And two that are made of a vector: Heap (heap.h), a binary heap, whose  *)
(* places count from 1, so that the parent of i is i \div 2; and BitVector *)
(* (bitvector.h), bits in words.                                           *)
(*                                                                         *)
(* And two small types: Flags (flags.h), the bits of a word, and           *)
(* CircularInt (core/utils/circularint.h), a number that rolls over.       *)
(***************************************************************************)
EXTENDS ElementSequences, FiniteSets

LOCAL INSTANCE SequencesExt
LOCAL INSTANCE FiniteSetsExt

CONSTANTS Observers,
          Things,        \* the items
          DefaultThing,  \* T()
          MaxThings,     \* a collection has at most so many items (a bound)
          MaxObserving,  \* and so many observers, one added twice counted so (a bound)
          WordBits,      \* the bits of a word, 32 in the code
          MaxBits,       \* a vector has at most so many bits (a bound)
          MaxHeap,       \* a heap has at most so many items (a bound)
          FlagBits,      \* the bits of flags, 32 in the code
          CircleEnds     \* the bounds of circular integers (a bound)

ASSUME CollectionsAssumption ==
  /\ DefaultThing \in Things /\ Things \subseteq Nat \ {0}
  /\ {MaxThings, MaxObserving, MaxBits, MaxHeap} \subseteq Nat /\ WordBits \in Nat \ {0}
  /\ FlagBits \in Nat /\ CircleEnds \subseteq Int

VARIABLES
  collection,  \* items and observers; the mirrors; history: lost, the observers that missed
               \* a change, and stale, those that did not see the last value of one
  bits,        \* m_size and m_data; history: given, the bits as they were set; popped
  heap,        \* the vector
  biggestFirst,\* whether this is a MaxHeap
  flags,       \* word: the flags that are set, by their numbers; history: given, as they were
               \* set, and passed, those behind a range that was set
  circle       \* value, min and max of a CircularInt

\* Among the answers of a callback: an exception.
Exception == 0

Nothing == [items |-> <<>>, observers |-> <<>>, mirror |-> [o \in Observers |-> <<>>],
            lost |-> {}, stale |-> {}]

---------------------------------------------------------------------------
(* One change, and what the observers make of it *)

\* An item that comes in at a place, goes, or is replaced.
Change(kind, at, item) == [kind |-> kind, at |-> at, item |-> item]

Changed(s, ch) ==
  CASE ch.kind = "add"    -> InsertAt(s, ch.at, ch.item)
    [] ch.kind = "remove" -> RemoveAt(s, ch.at)
    [] ch.kind = "set"    -> ReplaceAt(s, ch.at, ch.item)

\* At most one callback of a call does other than accept: that of the observer at this
\* place, before ("pre") or after ("post") the change, throws or alters the item.
Accepted == [when |-> "never", at |-> 0, what |-> Exception]
Answers(c) ==
  {Accepted} \cup [when : {"pre", "post"}, at : DOMAIN c.observers, what : Things \cup {Exception}]

Refuses(t)  == t.when = "pre" /\ t.what = Exception
TooLate(t)  == t.when = "post" /\ t.what = Exception
Alters(t)   == t.when # "never" /\ t.what # Exception

\* The item as it comes in, and as the observer at a place is told of it.
Incoming(ch, t)  == IF ch.kind = "add" /\ t.when = "pre" /\ Alters(t) THEN t.what ELSE ch.item
ToldItem(ch, t, k) ==
  IF ch.kind # "remove" /\ t.when = "post" /\ Alters(t) /\ k >= t.at THEN t.what ELSE Incoming(ch, t)

\* Insert, Remove and SetValue: pre_*, the change, post_*.
OneChange(c, ch, t) ==
  LET places    == DOMAIN c.observers
      told      == {k \in places : TooLate(t) => k < t.at}
      item      == ToldItem(ch, t, Len(c.observers))
      lost      == c.lost \cup {c.observers[k] : k \in places \ told}
      seenBy(o) == Max({k \in told : c.observers[k] = o})
  IN  IF Refuses(t) THEN c
      ELSE [c EXCEPT
             !.items  = Changed(@, [ch EXCEPT !.item = item]),
             !.lost   = lost,
             !.stale  = @ \cup {c.observers[k] : k \in {j \in told : ToldItem(ch, t, j) # item}},
             !.mirror = [o \in Observers |->
                          IF o \in lost THEN <<>>
                          ELSE IF o \notin ToSet(c.observers) THEN @[o]
                          ELSE Changed(@[o], [ch EXCEPT !.item = ToldItem(ch, t, seenBy(o))])]]

---------------------------------------------------------------------------
(* Calls of several changes.  An exception ends them; `turn` is the change it comes at. *)

Taken(c, i, turn, t) == OneChange(c, Change("remove", i, DefaultThing), IF turn = 1 THEN t ELSE Accepted)
EndsCall(turn, t)        == turn = 1 /\ ~Alters(t) /\ t.when # "never"

\* IndexOf, counted from 1: 0 if there is none.
FindFrom(s, x, from) ==
  LET found == {i \in from .. Len(s) : s[i] = x}
  IN  IF found = {} THEN 0 ELSE Min(found)

RECURSIVE TakeEveryFrom(_, _, _, _, _)
TakeEveryFrom(c, x, from, turn, t) ==
  LET i == FindFrom(c.items, x, from)
      d == Taken(c, i, turn, t)
  IN  IF i = 0 THEN c
      ELSE IF EndsCall(turn, t) THEN d ELSE TakeEveryFrom(d, x, i, turn - 1, t)

\* A bug to detect: the item that comes to the place of a removed one is skipped.
RECURSIVE TakeEveryBehind(_, _, _, _, _)
TakeEveryBehind(c, x, from, turn, t) ==
  LET i == FindFrom(c.items, x, from)
      d == Taken(c, i, turn, t)
  IN  IF i = 0 THEN c
      ELSE IF EndsCall(turn, t) THEN d ELSE TakeEveryBehind(d, x, i + 1, turn - 1, t)

TakeEverySkipping(c, x, turn, t) == TakeEveryBehind(c, x, 1, turn, t)
TakeEvery(c, x, turn, t)         == TakeEveryFrom(c, x, 1, turn, t)

\* RemoveOne.
TakeOneOf(c, x, t) ==
  LET i == FindFrom(c.items, x, 1) IN IF i = 0 THEN c ELSE Taken(c, i, 1, t)

\* Clear, and Resize to fewer: from the back.
RECURSIVE CutTo(_, _, _, _)
CutTo(c, size, turn, t) ==
  LET d == Taken(c, Len(c.items), turn, t)
  IN  IF Len(c.items) <= size THEN c
      ELSE IF EndsCall(turn, t) THEN d ELSE CutTo(d, size, turn - 1, t)

\* Resize to more: Add(T()).
RECURSIVE GrowTo(_, _, _, _)
GrowTo(c, size, turn, t) ==
  LET d == OneChange(c, Change("add", Len(c.items) + 1, DefaultThing), IF turn = 1 THEN t ELSE Accepted)
  IN  IF Len(c.items) >= size THEN c
      ELSE IF EndsCall(turn, t) THEN d ELSE GrowTo(d, size, turn - 1, t)

---------------------------------------------------------------------------
(* Steps *)

CollectionInit == collection = Nothing

\* AddCollectionObserver, by one who copies the items first.  Who is added twice is called
\* twice, and keeps no mirror.
Observe(o) ==
  LET twice == o \in ToSet(collection.observers)
  IN  /\ Len(collection.observers) < MaxObserving
      /\ collection' = [collection EXCEPT
                         !.observers = Append(@, o),
                         !.lost      = IF twice THEN @ \cup {o} ELSE @,
                         !.mirror[o] = IF twice THEN <<>> ELSE collection.items]

\* RemoveCollectionObserver: every time it was added.
Unobserve(o) ==
  collection' = [collection EXCEPT !.observers = SelectSeq(@, LAMBDA p : p # o),
                                   !.lost = @ \ {o}, !.stale = @ \ {o}, !.mirror[o] = <<>>]

ItemPlaces == DOMAIN collection.items

CollectionNext ==
  \/ \E t \in Answers(collection) :
       \/ \E i \in 1 .. Len(collection.items) + 1, x \in Things :
            /\ Len(collection.items) < MaxThings
            /\ collection' = OneChange(collection, Change("add", i, x), t)
       \/ \E i \in ItemPlaces : collection' = Taken(collection, i, 1, t)
       \/ \E i \in ItemPlaces, x \in Things : collection' = OneChange(collection, Change("set", i, x), t)
       \/ \E x \in Things : collection' = TakeOneOf(collection, x, t)
       \/ \E turn \in 1 .. 2 :
            \/ \E x \in Things : collection' = TakeEvery(collection, x, turn, t)
            \/ \E size \in 0 .. MaxThings : \/ collection' = CutTo(collection, size, turn, t)
                                            \/ collection' = GrowTo(collection, size, turn, t)
  \/ \E o \in Observers : Observe(o) \/ Unobserve(o)

---------------------------------------------------------------------------
(* BitVector *)

\* Vector(init_val, size) allocates as many words as there are to be bits.
OfBits(value, n) ==
  [size |-> n, data |-> [w \in 1 .. n |-> [b \in 1 .. WordBits |-> value]],
   given |-> [i \in 1 .. n |-> value], popped |-> FALSE]

WordOf(i) == (i \div WordBits) + 1
BitOf(i)  == (i % WordBits) + 1

\* Whether the bit i lies in a word that m_data has; the code does not ask.
Stored(v, i) == WordOf(i) <= Len(v.data)

SetBit(v, i, value) ==
  [v EXCEPT !.data[WordOf(i)][BitOf(i)] = value, !.given[i + 1] = value]

\* PushBack(val), into a word there is.  A word is added only if more than the next one is
\* missing, so that the bit would lie beyond m_data all the same.
PushBit(v, value) ==
  SetBit([v EXCEPT !.size = @ + 1, !.given = Append(@, FALSE)], v.size, value)

\* PopBack: a word goes if there are more than the bit before the last but one needs.  With
\* one bit the index wraps, and no word goes.
PopBit(v) ==
  [size   |-> v.size - 1,
   data   |-> IF v.size > 1 /\ (v.size - 2) \div WordBits < Len(v.data) THEN Front(v.data) ELSE v.data,
   given  |-> Front(v.given),
   popped |-> TRUE]

BitsInit == \E value \in BOOLEAN, n \in 0 .. MaxBits : bits = OfBits(value, n)

\* What is written and read lies in a word of m_data; other calls are undefined.
BitsNext ==
  \/ \E i \in 0 .. bits.size - 1, value \in BOOLEAN :
       Stored(bits, i) /\ bits' = SetBit(bits, i, value)
  \/ \E value \in BOOLEAN :
       bits.size < MaxBits /\ Stored(bits, bits.size) /\ bits' = PushBit(bits, value)
  \/ bits.size > 0 /\ bits' = PopBit(bits)

---------------------------------------------------------------------------
(* Flags *)

FlagPlaces == 0 .. FlagBits - 1

\* GEN_BITMASK: the bits "up to index i".
Mask(i)       == 0 .. i
Shifted(w, n) == {b + n : b \in w} \cap FlagPlaces

\* A bug to detect: a flag is only ever set.
SetFlagOnly(w, f, on) == w \cup {f}

SetFlag(w, f, on) == IF on THEN w \cup {f} ELSE w \ {f}

ToggleFlag(w, f) == SetFlag(w, f, f \notin w)

\* The mask is made of the number of the flags, and so has one bit more than they.
TestRange(w, start, end) == Shifted(w, -start) \cap Mask(end - start + 1)
SetRange(w, start, end, data) ==
  LET mask == Mask(end - start + 1)
  IN  (w \ Shifted(mask, start)) \cup Shifted(data \cap mask, start)

\* Ranges for which the mask is not shifted by the whole word, which is undefined.
FlagRanges == {r \in FlagPlaces \X FlagPlaces : r[1] <= r[2] /\ r[2] - r[1] + 2 < FlagBits}

\* With what each flag was set to last, and the flags that were overwritten since.
FlagsInit == \E on \in BOOLEAN :
  flags = [word   |-> IF on THEN FlagPlaces ELSE {},
           given  |-> [f \in FlagPlaces |-> on],
           passed |-> {}]

FlagsNext ==
  \/ \E f \in FlagPlaces, on \in BOOLEAN :
       flags' = [word   |-> SetFlag(flags.word, f, on),
                 given  |-> [flags.given EXCEPT ![f] = on],
                 passed |-> flags.passed \ {f}]
  \/ \E f \in FlagPlaces :
       flags' = [flags EXCEPT !.word = ToggleFlag(@, f), !.given[f] = ~@]
  \/ \E r \in FlagRanges, data \in SUBSET FlagPlaces :
       LET range == r[1] .. r[2]
       IN  flags' = [word   |-> SetRange(flags.word, r[1], r[2], data),
                     given  |-> [f \in FlagPlaces |->
                                  IF f \in range THEN f - r[1] \in data ELSE flags.given[f]],
                     passed |-> (flags.passed \ range) \cup ({r[2] + 1} \cap FlagPlaces)]

---------------------------------------------------------------------------
(* CircularInt *)

\* A bug to detect: the largest value is never reached.
IncrementShort(c) == [c EXCEPT !.value = IF @ + 1 >= c.max THEN c.min ELSE @ + 1]

Increment(c) == [c EXCEPT !.value = IF @ + 1 > c.max THEN c.min ELSE @ + 1]
Decrement(c) == [c EXCEPT !.value = IF @ - 1 < c.min THEN c.max ELSE @ - 1]

\* += and -=.
RECURSIVE Incremented(_, _), Decremented(_, _)
Incremented(c, n) == IF n = 0 THEN c ELSE Incremented(Increment(c), n - 1)
Decremented(c, n) == IF n = 0 THEN c ELSE Decremented(Decrement(c), n - 1)

\* Reset, with bounds that are not nonsensical.
Circles == {c \in [value : CircleEnds, min : CircleEnds, max : CircleEnds] :
             c.min <= c.value /\ c.value <= c.max}

CircleInit == circle \in Circles

CircleSteps == 0 .. 5

CircleNext == \/ circle' \in Circles
              \/ \E n \in CircleSteps : circle' \in {Incremented(circle, n), Decremented(circle, n)}

---------------------------------------------------------------------------
(* Heap *)

\* FlexibleTypeComparer, or the one of MaxHeap, which is turned round.
Compare(x, y) == IF biggestFirst THEN Key(y) - Key(x) ELSE Key(x) - Key(y)

Swapped(h, i, j) == [h EXCEPT ![i] = h[j], ![j] = h[i]]

RECURSIVE HeapifyUp(_, _)
HeapifyUp(h, i) ==
  LET parent == i \div 2
  IN  IF parent = 0 THEN h
      ELSE IF Compare(h[i], h[parent]) >= 0 THEN h
      ELSE HeapifyUp(Swapped(h, i, parent), parent)

RECURSIVE HeapifyDown(_, _)
HeapifyDown(h, i) ==
  LET left  == 2 * i
      least == IF left + 1 > Len(h) THEN left
               ELSE IF Compare(h[left], h[left + 1]) <= 0 THEN left ELSE left + 1
  IN  IF left > Len(h) THEN h
      ELSE IF Compare(h[i], h[least]) <= 0 THEN h
      ELSE HeapifyDown(Swapped(h, i, least), least)

PushItem(h, x) == HeapifyUp(Append(h, x), Len(h) + 1)

\* A bug to detect: the item that replaces the top stays there.
PopItemLazily(h) == IF h = <<>> THEN h ELSE Front(Swapped(h, 1, Len(h)))

\* The top changes places with the last item, which then goes down.
PopItem(h) ==
  IF h = <<>> THEN h
  ELSE LET rest == Front(Swapped(h, 1, Len(h)))
       IN  IF rest = <<>> THEN rest ELSE HeapifyDown(rest, 1)

Top(h) == IF h = <<>> THEN NoItem ELSE h[1]

HeapInit == heap = <<>> /\ biggestFirst \in BOOLEAN

HeapNext == /\ \/ \E x \in Elements : Len(heap) < MaxHeap /\ heap' = PushItem(heap, x)
               \/ heap' = PopItem(heap)
            /\ UNCHANGED biggestFirst

---------------------------------------------------------------------------
(* Properties *)

\* How many of n changes happen before an exception at `turn` ends them: one that comes
\* too late does not undo its own.
Happen(n, turn, t) ==
  IF t.when = "never" \/ Alters(t) THEN n
  ELSE Min({n, IF Refuses(t) THEN turn - 1 ELSE turn})

\* s without the first n items equal to x.
WithoutFirst(s, x, n) ==
  LET gone == {i \in DOMAIN s : s[i] = x /\ Cardinality({j \in 1 .. i : s[j] = x}) <= n}
      kept == SetToSortSeq(DOMAIN s \ gone, <)
  IN  [k \in DOMAIN kept |-> s[kept[k]]]

\* An observer that keeps to what it is told knows the collection, except for values that
\* another one altered after it was told, and unless an exception after a change has kept
\* the change from it: the collection keeps such a change.  A call of several changes that
\* is refused halfway leaves those it has made, and only those.
CollectionIsObserved ==
  LET c == collection
  IN  /\ \A o \in ToSet(c.observers) \ c.lost :
           /\ Len(c.mirror[o]) = Len(c.items)
           /\ o \notin c.stale => c.mirror[o] = c.items
      /\ \A t \in Answers(c), turn \in 1 .. 2 :
           /\ \A x \in Things :
                TakeEvery(c, x, turn, t).items =
                  WithoutFirst(c.items, x, Happen(Len(c.items), turn, t))
           /\ LET gone == Happen(Len(c.items), turn, t)
              IN  CutTo(c, 0, turn, t).items = SubSeq(c.items, 1, Len(c.items) - gone)

\* The bits that can be read are those that were set, and as long as none was removed all
\* of them can be.  (Removing a bit takes a word away even if the bits that remain need it,
\* and none is ever added in time.)
BitsAreKept ==
  /\ \A i \in 0 .. bits.size - 1 :
       Stored(bits, i) => bits.data[WordOf(i)][BitOf(i)] = bits.given[i + 1]
  /\ ~bits.popped => \A i \in 0 .. bits.size - 1 : Stored(bits, i)

\* A flag is as it was set last, but for those behind a range that was set, and TestRange
\* tells of every flag of the range, and of one more.
FlagsAreKept ==
  /\ \A f \in FlagPlaces \ flags.passed : f \in flags.word <=> flags.given[f]
  /\ \A r \in FlagRanges :
       LET read == TestRange(flags.word, r[1], r[2])
       IN  /\ \A f \in r[1] .. r[2] : f - r[1] \in read <=> f \in flags.word
           /\ read \subseteq 0 .. r[2] - r[1] + 1

\* Any number of steps in one direction and back ends where it began, after as many turns as
\* the range goes into that number.
CircleRolls ==
  \A n \in CircleSteps :
    /\ Decremented(Incremented(circle, n), n) = circle
    /\ Incremented(circle, n).value =
         circle.min + ((circle.value - circle.min + n) % (circle.max - circle.min + 1))

Times(s, x) == Len(SelectSeq(s, LAMBDA y : y = x))

\* A heap is the bag of the items pushed and not popped, and its top is one that no
\* other comes before; a push or pop changes nothing else.
HeapIsABag ==
  /\ \A x \in Elements : Compare(Top(heap), x) > 0 => heap = <<>> \/ Times(heap, x) = 0
  /\ \A x, y \in Elements :
       Times(PushItem(heap, x), y) = Times(heap, y) + (IF x = y THEN 1 ELSE 0)
  /\ heap # <<>> =>
       \A y \in Elements : Times(PopItem(heap), y) = Times(heap, y) - (IF y = Top(heap) THEN 1 ELSE 0)
=============================================================================
