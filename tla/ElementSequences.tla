-------------------------- MODULE ElementSequences --------------------------
(***************************************************************************)
(* The sequences of elements that the containers of src/core/data_objects  *)
(* stand for, and what their operations are to do to them.  Indices start  *)
(* at 0, as in the code.                                                   *)
(***************************************************************************)
EXTENDS Integers, Sequences

LOCAL INSTANCE SequencesExt

CONSTANTS Elements,    \* the elements
          MaxLength    \* a container has at most so many elements (a bound)

ASSUME ElementsAssumption == Elements \subseteq Nat \ {0} /\ MaxLength \in Nat

NoItem == -1           \* the index GUINT32_MAX

\* What the comparer looks at: the elements 2 and 3 are equivalent to it.
Key(x) == x \div 2

UpTo(a, b)   == [k \in 1 .. b - a + 1 |-> a + k - 1]
DownTo(b, a) == [k \in 1 .. b - a + 1 |-> b - k + 1]

\* The sequences of at most n elements.
Arrays(n) == UNION {[1 .. k -> Elements] : k \in 0 .. n}

\* The condition under which the sorting algorithms exchange x and the later y.
OutOfOrder(x, y, ascending) == IF ascending THEN Key(x) > Key(y) ELSE Key(x) < Key(y)

\* The elements in the order of their keys, those of one key in the order they had.
StablySorted(s, ascending) ==
  LET keys == SetToSortSeq({Key(x) : x \in Elements},
                           LAMBDA k, l : IF ascending THEN k < l ELSE k > l)
  IN  FlattenSeq([k \in 1 .. Len(keys) |-> SelectSeq(s, LAMBDA x : Key(x) = keys[k])])

\* t inserted before the index `at`, and num elements removed from there on.
Spliced(s, at, t)   == SubSeq(s, 1, at) \o t \o SubSeq(s, at + 1, Len(s))
Without(s, at, num) == SubSeq(s, 1, at) \o SubSeq(s, at + num + 1, Len(s))
=============================================================================
