---------------------------- MODULE LinkedLists ----------------------------
(***************************************************************************)
(* DListImp (src/core/data_objects/dlist.h): a doubly-linked list, changed *)
(* in place through iterators, and sorted by relinking its nodes.  Nodes   *)
(* are numbered in the order in which the memory hands them out; a freed   *)
(* number is used again.                                                   *)
(*                                                                         *)
(* And SListImp (src/core/data_objects/slist.h): a singly-linked list.  An *)
(* iterator also remembers the node before its own, the one that has to be *)
(* relinked when the list is changed there.                                *)
(***************************************************************************)
EXTENDS ElementSequences

LOCAL INSTANCE SequencesExt

VARIABLES dlist,       \* m_first, m_last, m_size and the nodes
          cursor       \* an iterator of the program's

Null     == 0
DNodes   == 1 .. MaxLength
NoDNodes == [n \in DNodes |-> Null]

\* A node whose data is Null is not allocated.
EmptyDList == [first |-> Null, last |-> Null, size |-> 0,
               next |-> NoDNodes, prev |-> NoDNodes, data |-> NoDNodes]

\* An iterator: where it stands, and where ++ and -- shall go if that is set.
DIterator(cur, next, prev) == [cur |-> cur, next |-> next, prev |-> prev]

DBegin(l)  == DIterator(l.first, IF l.first = Null THEN Null ELSE l.next[l.first], Null)
DEnd(l)    == DIterator(Null, Null, l.last)
DRBegin(l) == DIterator(l.last, Null, IF l.last = Null THEN Null ELSE l.prev[l.last])
DREnd(l)   == DIterator(Null, l.first, Null)

DAdvance(l, i) ==
  CASE i.next # Null -> DIterator(i.next, Null, Null)
    [] i.next = Null /\ i.cur # Null ->
         DIterator(l.next[i.cur], Null, IF l.next[i.cur] = Null THEN i.cur ELSE Null)
    [] OTHER -> i

\* Going back from the front remembers the node it came from in the same field.
DRetreat(l, i) ==
  CASE i.prev # Null -> DIterator(i.prev, Null, Null)
    [] i.prev = Null /\ i.cur # Null ->
         DIterator(l.prev[i.cur], Null, IF l.prev[i.cur] = Null THEN i.cur ELSE Null)
    [] OTHER -> i

---------------------------------------------------------------------------
(* Insertion and removal *)

\* _insert: the new node comes before the node of the iterator, or at the end.
LinkNode(l, x, i) ==
  LET new  == CHOOSE n \in DNodes : l.data[n] = Null /\ \A m \in 1 .. n - 1 : l.data[m] # Null
      cur  == i.cur
      at   == [l EXCEPT !.data[new] = x, !.next[new] = cur, !.size = @ + 1]
      \* p, if there is one, is followed by the new node
      after(p) == [at EXCEPT !.prev[new] = p, !.next = IF p = Null THEN @ ELSE [@ EXCEPT ![p] = new]]
  IN  IF cur # Null
      THEN [after(l.prev[cur]) EXCEPT !.prev[cur] = new,
                                      !.first = IF cur = l.first THEN new ELSE @]
      ELSE [after(l.last) EXCEPT !.first = IF l.last = Null THEN new ELSE @, !.last = new]

\* A bug to detect: the last node is forgotten.
UnlinkNodeLast(l, i) ==
  LET p == l.prev[i.cur]
      n == l.next[i.cur]
  IN  IF i.cur = Null THEN l
      ELSE [l EXCEPT !.data[i.cur] = Null, !.size = @ - 1,
                     !.first = IF i.cur = l.first THEN n ELSE @,
                     !.next  = IF p = Null THEN @ ELSE [@ EXCEPT ![p] = n],
                     !.prev  = IF n = Null THEN @ ELSE [@ EXCEPT ![n] = p]]

\* _remove.  The node is freed without the destructor of its element.
UnlinkNode(l, i) ==
  LET cur  == i.cur
      free == [l EXCEPT !.data[cur] = Null, !.next[cur] = Null, !.prev[cur] = Null, !.size = @ - 1]
      p    == l.prev[cur]
      n    == l.next[cur]
  IN  IF cur = Null THEN l
      ELSE [free EXCEPT !.first = IF cur = l.first THEN n ELSE @,
                        !.last  = IF cur = l.last THEN p ELSE @,
                        !.next  = IF p = Null THEN @ ELSE [@ EXCEPT ![p] = n],
                        !.prev  = IF n = Null THEN @ ELSE [@ EXCEPT ![n] = p]]

\* Insert and Remove at an iterator: the list, and where the iterator is then.
DInsert(l, x, i) ==
  LET linked == LinkNode(l, x, i)
  IN  IF l.size > 0 /\ i.cur = Null /\ i.prev = Null THEN [list |-> l, at |-> i]   \* an exception
      ELSE [list |-> linked,
            at   |-> IF i.cur # Null THEN DIterator(linked.prev[i.cur], Null, Null)
                                     ELSE DIterator(Null, Null, linked.last)]

DRemove(l, i) ==
  IF i.cur = Null THEN [list |-> l, at |-> i]
  ELSE [list |-> UnlinkNode(l, i), at |-> DIterator(l.next[i.cur], Null, l.prev[i.cur])]

DPushFront(l, x) == DInsert(l, x, DBegin(l)).list
DPushBack(l, x)  == DInsert(l, x, DEnd(l)).list
DPopFront(l)     == DRemove(l, DBegin(l)).list
DPopBack(l)      == DRemove(l, DRBegin(l)).list

\* Remove(iter, n): at most n elements from the iterator on.
RECURSIVE DRemoveFrom(_, _, _)
DRemoveFrom(l, i, n) ==
  IF n = 0 \/ l.size = 0 THEN l
  ELSE LET r == DRemove(l, i) IN DRemoveFrom(r.list, r.at, n - 1)

DClear(l) == DRemoveFrom(l, DBegin(l), l.size)

\* Remove(first, last): from one iterator to another.
RECURSIVE DRemoveRange(_, _, _)
DRemoveRange(l, i, last) ==
  IF l.size = 0 \/ i.cur = last.cur THEN l
  ELSE LET r == DRemove(l, i) IN DRemoveRange(r.list, r.at, last)

\* The elements as an iterator meets them, and the copy that pushes them to its back.
RECURSIVE DElements(_, _)
DElements(l, i) ==
  IF i.cur = Null THEN <<>> ELSE <<l.data[i.cur]>> \o DElements(l, DAdvance(l, i))

DCopy(l) == FoldLeft(DPushBack, EmptyDList, DElements(l, DBegin(l)))

---------------------------------------------------------------------------
(* Sorting *)

\* n takes the place after p: in p, or as the first node of the list.
LinkAfter(l, p, n) == IF p = Null THEN [l EXCEPT !.first = n] ELSE [l EXCEPT !.next[p] = n]

\* n takes the place before the iterator's node, or as the last node of the list.
LinkBefore(l, i, n) == IF i.cur = Null THEN [l EXCEPT !.last = n] ELSE [l EXCEPT !.prev[i.cur] = n]

\* The nodes from i1 and i2 on, up to the cut of either run, linked after `tail`.
RECURSIVE DMerge(_, _, _, _, _)
DMerge(l, i1, i2, tail, ascending) ==
  LET second == \/ i1.cur = Null
                \/ i2.cur # Null /\ OutOfOrder(l.data[i1.cur], l.data[i2.cur], ascending)
      n      == IF second THEN i2.cur ELSE i1.cur
      linked == LinkAfter([l EXCEPT !.prev[n] = tail], tail, n)
  IN  IF i1.cur = Null /\ i2.cur = Null THEN [list |-> l, tail |-> tail]
      ELSE IF second THEN DMerge(linked, i1, DAdvance(linked, i2), n, ascending)
                     ELSE DMerge(linked, DAdvance(linked, i1), i2, n, ascending)

\* The number of nodes from i to e, and the iterator i advanced n times.
RECURSIVE DDistance(_, _, _)
DDistance(l, i, e) == IF i.cur = e.cur THEN 0 ELSE 1 + DDistance(l, DAdvance(l, i), e)

DStep(l, i, n) == FoldLeft(LAMBDA j, k : DAdvance(l, j), i, UpTo(1, n))

\* Two nodes are exchanged when they are out of order.
SortTwo(l, b, e, ascending) ==
  LET cur  == b.cur
      last == l.next[cur]
      swapped == [l EXCEPT !.next[cur] = l.next[last], !.prev[last] = l.prev[cur],
                           !.next[last] = cur, !.prev[cur] = last]
  IN  IF ~OutOfOrder(l.data[cur], l.data[last], ascending) THEN [list |-> l, b |-> b, e |-> e]
      ELSE [list |-> LinkBefore(LinkAfter(swapped, l.prev[cur], last), e, cur),
            b |-> DIterator(last, cur, l.prev[cur]),
            e |-> [e EXCEPT !.prev = cur]]

\* The run from i1 and the run from m, which is sorted and ends before `stop`, cut off
\* from what follows them and merged in between.
JoinRuns(l, i1, m, stop, ascending) ==
  LET start == l.prev[i1.cur]
      cut1  == [l EXCEPT !.next[l.prev[m.cur]] = Null]
      cut2  == IF stop.cur = Null THEN cut1
               ELSE [cut1 EXCEPT !.next[cut1.prev[stop.cur]] = Null]
      i2    == IF stop.cur # Null /\ m.cur = cut1.prev[stop.cur] THEN [m EXCEPT !.next = Null] ELSE m
      merged == DMerge(cut2, i1, i2, start, ascending)
      ended  == LinkBefore([merged.list EXCEPT !.next[merged.tail] = stop.cur], stop, merged.tail)
      first  == IF start = Null THEN ended.first ELSE ended.next[start]
  IN  [list |-> ended,
       b |-> DIterator(first, ended.next[first], ended.prev[first]),
       e |-> [stop EXCEPT !.prev = merged.tail]]

\* _merge_sort: sort from b to before e, and correct both iterators.
RECURSIVE DMergeSort(_, _, _, _)
DMergeSort(l, b, e, ascending) ==
  LET diff  == DDistance(l, b, e)
      left  == DMergeSort(l, b, DStep(l, b, (diff + 1) \div 2), ascending)
      right == DMergeSort(left.list, left.e, e, ascending)
  IN  CASE diff < 2 -> [list |-> l, b |-> b, e |-> e]
        [] diff = 2 -> SortTwo(l, b, e, ascending)
        [] OTHER    -> JoinRuns(right.list, left.b, right.b, right.e, ascending)

DSort(l, ascending) == DMergeSort(l, DBegin(l), DEnd(l), ascending).list

---------------------------------------------------------------------------
(* Specification *)

DListInit == dlist = EmptyDList /\ cursor = DEnd(EmptyDList)

\* Calls with the iterator, which stays usable, and calls without.
CursorCall ==
  \/ \E x \in Elements :
       LET r == DInsert(dlist, x, cursor)
       IN  dlist.size < MaxLength /\ dlist' = r.list /\ cursor' = r.at
  \/ LET r == DRemove(dlist, cursor) IN dlist' = r.list /\ cursor' = r.at
  \/ dlist' = dlist /\ cursor' \in {DAdvance(dlist, cursor), DRetreat(dlist, cursor)}
  \/ dlist' = dlist /\ cursor' \in {DBegin(dlist), DEnd(dlist), DRBegin(dlist), DREnd(dlist)}

\* A push leaves every iterator as it is; after the other calls the program
\* takes a new one.
ListCall ==
  \/ \E x \in Elements : /\ dlist.size < MaxLength /\ cursor' = cursor
                         /\ dlist' \in {DPushFront(dlist, x), DPushBack(dlist, x)}
  \/ /\ \/ dlist' \in {DPopFront(dlist), DPopBack(dlist), DClear(dlist), DCopy(dlist)}
        \/ \E i \in 0 .. dlist.size, j \in 0 .. dlist.size :
             i <= j /\ dlist' = DRemoveRange(dlist, DStep(dlist, DBegin(dlist), i),
                                             DStep(dlist, DBegin(dlist), j))
        \/ \E up \in BOOLEAN : dlist' = DSort(dlist, up)
     /\ cursor' = DBegin(dlist')

DListNext == CursorCall \/ ListCall

---------------------------------------------------------------------------
(* Properties *)

\* The nodes in the order of the links, from the front.
RECURSIVE DChain(_, _, _)
DChain(l, n, most) == IF n = Null \/ most = 0 THEN <<>> ELSE <<n>> \o DChain(l, l.next[n], most - 1)

DContents(l) == LET c == DChain(l, l.first, MaxLength) IN [i \in 1 .. Len(c) |-> l.data[c[i]]]

\* The links forward and backward describe one chain of all the nodes.
DListIsSound(l) ==
  LET c == DChain(l, l.first, MaxLength)
  IN  /\ IsInjective(c) /\ ToSet(c) = {n \in DNodes : l.data[n] # Null} /\ Len(c) = l.size
      /\ l.first = (IF c = <<>> THEN Null ELSE c[1])
      /\ l.last = (IF c = <<>> THEN Null ELSE c[Len(c)])
      /\ \A i \in 1 .. Len(c) : /\ l.next[c[i]] = (IF i = Len(c) THEN Null ELSE c[i + 1])
                                /\ l.prev[c[i]] = (IF i = 1 THEN Null ELSE c[i - 1])

DListHas(l, s) == DListIsSound(l) /\ DContents(l) = s

\* Where an iterator stands: at an index, before the front (-1), at the end (the
\* size), or nowhere: it has been left behind by a push, or went back over the front.
Nowhere == -2
DPosition(l, i) ==
  LET c == DChain(l, l.first, MaxLength)
  IN  CASE i.cur # Null -> (CHOOSE k \in 1 .. Len(c) : c[k] = i.cur) - 1
        [] i.cur = Null /\ i.prev = l.last -> l.size
        [] i = DREnd(l) /\ l.size > 0 -> -1
        [] OTHER -> Nowhere

\* What an iterator remembers is the neighbour that the list has, or had before a push.
DFresh(l, i) == /\ i.next # Null /\ i.cur # Null => i.next = l.next[i.cur]
                /\ i.prev # Null /\ i.cur # Null => i.prev = l.prev[i.cur]

\* The calls without the iterator do to the list what they do to the sequence s.
ListCallsAreRight(s) ==
  /\ \A up \in BOOLEAN : DListHas(DSort(dlist, up), StablySorted(s, up))
  /\ DListHas(DCopy(dlist), s)
  /\ DListHas(DClear(dlist), <<>>)
  /\ s # <<>> => /\ DListHas(DPopFront(dlist), Tail(s))
                 /\ DListHas(DPopBack(dlist), Front(s))
  /\ \A i, j \in 0 .. Len(s) : i <= j =>
       DListHas(DRemoveRange(dlist, DStep(dlist, DBegin(dlist), i),
                             DStep(dlist, DBegin(dlist), j)), Without(s, i, j - i))

\* A doubly-linked list is the sequence that its calls make, its links in both
\* directions agree, and an iterator with which the list is changed stands where the
\* header says: on the new element, or on the one after the removed one.  (What the
\* calls without it do is looked at once for every list, with the iterator at the end.)
DListKeepsItsElements ==
  LET s  == DContents(dlist)
      at == DPosition(dlist, cursor)
      on == 0 <= at /\ at < Len(s)
      removed == DRemove(dlist, cursor)
      forward == DPosition(dlist, DAdvance(dlist, cursor))
      back    == DPosition(dlist, DRetreat(dlist, cursor))
  IN  /\ DListIsSound(dlist)
      /\ at # Nowhere /\ dlist.size < MaxLength => \A x \in Elements :
           LET added == DInsert(dlist, x, cursor)
           IN  IF at >= 0 THEN /\ DListHas(added.list, Spliced(s, at, <<x>>))
                               /\ DPosition(added.list, added.at) = IF on THEN at ELSE at + 1
               ELSE added.list = dlist
      /\ on => /\ DListHas(removed.list, Without(s, at, 1))
               /\ DPosition(removed.list, removed.at) = at
               /\ DFresh(dlist, cursor) => forward = at + 1
               /\ DFresh(dlist, cursor) /\ at > 0 => back = at - 1
      /\ at = Len(s) /\ at > 0 => back = at - 1
      /\ at = -1 => forward = 0
      /\ cursor = DEnd(dlist) => ListCallsAreRight(s)

---------------------------------------------------------------------------
(* The singly-linked list *)

VARIABLES slist,       \* m_first, m_last, m_count and the nodes
          place        \* an iterator of the program's

Nil      == 0
SNodes   == 1 .. MaxLength
NoSNodes == [n \in SNodes |-> Nil]

EmptySList == [first |-> Nil, last |-> Nil, count |-> 0, next |-> NoSNodes, data |-> NoSNodes]

SIterator(cur, parent) == [cur |-> cur, parent |-> parent]

SBegin(l) == SIterator(l.first, Nil)
SEnd(l)   == SIterator(Nil, l.last)

SAdvance(l, i) == IF i.cur = Nil THEN i ELSE SIterator(l.next[i.cur], i.cur)

---------------------------------------------------------------------------
(* Insertion and removal: the list, and where the iterator is then *)

\* n follows p, or is the first node of the list.
Follow(l, p, n) == IF p = Nil THEN [l EXCEPT !.first = n] ELSE [l EXCEPT !.next[p] = n]

\* A bug to detect: the iterator keeps its parent.
SInsertBehind(l, x, i) ==
  LET new == CHOOSE n \in SNodes : l.data[n] = Nil /\ \A m \in 1 .. n - 1 : l.data[m] # Nil
      at  == [l EXCEPT !.data[new] = x, !.next[new] = i.cur, !.count = @ + 1,
                       !.last = IF i.cur = Nil THEN new ELSE @]
  IN  [list |-> Follow(at, i.parent, new), at |-> i]

SInsert(l, x, i) ==
  LET new == CHOOSE n \in SNodes : l.data[n] = Nil /\ \A m \in 1 .. n - 1 : l.data[m] # Nil
      at  == [l EXCEPT !.data[new] = x, !.next[new] = i.cur, !.count = @ + 1,
                       !.last = IF i.cur = Nil THEN new ELSE @]
  IN  [list |-> Follow(at, i.parent, new), at |-> [i EXCEPT !.parent = new]]

SRemove(l, i) ==
  LET n    == l.next[i.cur]
      free == [l EXCEPT !.data[i.cur] = Nil, !.next[i.cur] = Nil, !.count = @ - 1,
                        !.last = IF @ = i.cur THEN i.parent ELSE @]
  IN  IF i.cur = Nil THEN [list |-> l, at |-> i]
      ELSE [list |-> Follow(free, i.parent, n), at |-> [i EXCEPT !.cur = n]]

SPushFront(l, x) == SInsert(l, x, SBegin(l)).list
SPushBack(l, x)  == SInsert(l, x, SEnd(l)).list
SPopFront(l)     == SRemove(l, SBegin(l)).list

RECURSIVE SRemoveRest(_, _)
SRemoveRest(l, i) == IF i.cur = Nil THEN l
                     ELSE LET r == SRemove(l, i) IN SRemoveRest(r.list, r.at)

SClear(l) == SRemoveRest(l, SBegin(l))

\* The copy inserts at one iterator, which stays behind the last new element.
RECURSIVE SCopyNodes(_, _, _)
SCopyNodes(from, n, to) ==
  IF n = Nil THEN to.list ELSE SCopyNodes(from, from.next[n], SInsert(to.list, from.data[n], to.at))

SCopy(l) == SCopyNodes(l, l.first, [list |-> EmptySList, at |-> SEnd(EmptySList)])

---------------------------------------------------------------------------
(* Sorting *)

RECURSIVE SDistance(_, _, _)
SDistance(l, i, e) == IF i.cur = e.cur THEN 0 ELSE 1 + SDistance(l, SAdvance(l, i), e)

SStep(l, i, n) == FoldLeft(LAMBDA j, k : SAdvance(l, j), i, UpTo(1, n))

\* The iterator's node, or the end of the list, now comes after n.
Precede(l, i, n) == IF i.cur = Nil THEN [l EXCEPT !.last = n] ELSE l

SSortTwo(l, b, e, ascending) ==
  LET cur  == b.cur
      last == l.next[cur]
      swapped == [l EXCEPT !.next[cur] = l.next[last], !.next[last] = cur]
  IN  IF ~OutOfOrder(l.data[cur], l.data[last], ascending) THEN [list |-> l, b |-> b, e |-> e]
      ELSE [list |-> Precede(Follow(swapped, b.parent, last), e, cur),
            b |-> SIterator(last, b.parent), e |-> SIterator(e.cur, cur)]

\* The three loops that link the two runs behind `tail`, the smaller element first.
RECURSIVE SMerge(_, _, _, _, _)
SMerge(l, i1, i2, tail, ascending) ==
  LET second == \/ i1.cur = Nil
                \/ i2.cur # Nil /\ OutOfOrder(l.data[i1.cur], l.data[i2.cur], ascending)
      n      == IF second THEN i2.cur ELSE i1.cur
      linked == Follow(l, tail, n)
  IN  IF i1.cur = Nil /\ i2.cur = Nil THEN [list |-> l, tail |-> tail]
      ELSE IF second THEN SMerge(linked, i1, SAdvance(linked, i2), n, ascending)
                     ELSE SMerge(linked, SAdvance(linked, i1), i2, n, ascending)

\* _merge_sort: sort from b to before e, and correct both iterators.
RECURSIVE SMergeSort(_, _, _, _)
SMergeSort(l, b, e, ascending) ==
  LET diff   == SDistance(l, b, e)
      left   == SMergeSort(l, b, SStep(l, b, (diff + 1) \div 2), ascending)
      right  == SMergeSort(left.list, left.e, e, ascending)
      cut    == [right.list EXCEPT !.next[right.b.parent] = Nil, !.next[right.e.parent] = Nil]
      merged == SMerge(cut, left.b, right.b, b.parent, ascending)
      ended  == Precede([merged.list EXCEPT !.next[merged.tail] = e.cur], e, merged.tail)
      first  == IF b.parent = Nil THEN ended.first ELSE ended.next[b.parent]
  IN  CASE diff < 2 -> [list |-> l, b |-> b, e |-> e]
        [] diff = 2 -> SSortTwo(l, b, e, ascending)
        [] OTHER    -> [list |-> ended, b |-> SIterator(first, b.parent),
                        e |-> SIterator(e.cur, merged.tail)]

SSort(l, ascending) == SMergeSort(l, SBegin(l), SEnd(l), ascending).list

---------------------------------------------------------------------------
(* Specification *)

SListInit == slist = EmptySList /\ place = SEnd(EmptySList)

PlaceCall ==
  \/ \E x \in Elements : LET r == SInsert(slist, x, place)
                         IN  slist.count < MaxLength /\ slist' = r.list /\ place' = r.at
  \/ LET r == SRemove(slist, place) IN slist' = r.list /\ place' = r.at
  \/ slist' = slist /\ place' \in {SAdvance(slist, place), SBegin(slist), SEnd(slist)}

\* After a call without the iterator the program takes a new one.
ContainerCall ==
  /\ \/ \E x \in Elements : slist.count < MaxLength /\ slist' \in {SPushFront(slist, x), SPushBack(slist, x)}
     \/ slist' \in {SPopFront(slist), SClear(slist), SCopy(slist)}
     \/ \E up \in BOOLEAN : slist' = SSort(slist, up)
  /\ place' = SBegin(slist')

SListNext == PlaceCall \/ ContainerCall

---------------------------------------------------------------------------
(* Properties *)

RECURSIVE SChain(_, _, _)
SChain(l, n, most) == IF n = Nil \/ most = 0 THEN <<>> ELSE <<n>> \o SChain(l, l.next[n], most - 1)

SContents(l) == LET c == SChain(l, l.first, MaxLength) IN [i \in 1 .. Len(c) |-> l.data[c[i]]]

SListIsSound(l) ==
  LET c == SChain(l, l.first, MaxLength)
  IN  /\ IsInjective(c) /\ ToSet(c) = {n \in SNodes : l.data[n] # Nil} /\ Len(c) = l.count
      /\ c # <<>> => l.last = c[Len(c)] /\ l.next[l.last] = Nil
      /\ c = <<>> => l.last = Nil

SListHas(l, s) == SListIsSound(l) /\ SContents(l) = s

\* The index of an iterator whose parent is the node before its own.
SPosition(l, i) ==
  LET c  == SChain(l, l.first, MaxLength)
      at == {k \in 0 .. Len(c) : /\ i.cur = (IF k = Len(c) THEN Nil ELSE c[k + 1])
                                 /\ i.parent = (IF k = 0 THEN Nil ELSE c[k])}
  IN  IF at = {} THEN -1 ELSE CHOOSE k \in at : TRUE

\* A singly-linked list is the sequence that its calls make, and an iterator keeps
\* the parent that the list has: it stays on its element when another one is inserted
\* there, and goes to the next when its own is removed.
SListKeepsItsElements ==
  LET s  == SContents(slist)
      at == SPosition(slist, place)
      removed == SRemove(slist, place)
  IN  /\ SListIsSound(slist)
      /\ at \in 0 .. Len(s)
      /\ slist.count < MaxLength => \A x \in Elements :
           LET added == SInsert(slist, x, place)
           IN  /\ SListHas(added.list, Spliced(s, at, <<x>>))
               /\ SPosition(added.list, added.at) = at + 1
               /\ SListHas(SPushFront(slist, x), <<x>> \o s)
               /\ SListHas(SPushBack(slist, x), Append(s, x))
      /\ at < Len(s) => /\ SListHas(removed.list, Without(s, at, 1))
                        /\ SPosition(removed.list, removed.at) = at
                        /\ SPosition(slist, SAdvance(slist, place)) = at + 1
      /\ \A up \in BOOLEAN : SListHas(SSort(slist, up), StablySorted(s, up))
      /\ SListHas(SCopy(slist), s)
      /\ SListHas(SClear(slist), <<>>)
=============================================================================
