---------------------------- MODULE ThreadProofs ----------------------------
(***************************************************************************)
(* What threads share in memory, for any number of them.                   *)
(*                                                                         *)
(* The queue of QueuedLogger: the invariant Inv is inductive; FIFO order,  *)
(* the absence of lost wakeups and the all-or-nothing shutdown follow from *)
(* it, and so does the refinement of LogChannel.  The objects of           *)
(* SharedPointer: PInv is inductive, and the counts are exact.             *)
(***************************************************************************)
EXTENDS QueuedLogger, SharedPointer, SequenceTheorems, FiniteSetTheorems, TLAPS

Inv == TypeOK /\ InOrder /\ NoLostWakeup /\ WorkerPosition

---------------------------------------------------------------------------
(* Moving entries along delivered \o inHand \o queue *)

\* Pushing at the back of the queue appends to the whole.
LEMMA PushAppends ==
  ASSUME NEW S, NEW d \in Seq(S), NEW h \in Seq(S), NEW q \in Seq(S), NEW e \in S
  PROVE  (d \o h) \o Append(q, e) = Append((d \o h) \o q, e)
<1>1. d \o h \in Seq(S) /\ <<e>> \in Seq(S) /\ (d \o h) \o q \in Seq(S)
  BY ConcatProperties
<1>2. Append(q, e) = q \o <<e>>
  BY AppendIsConcat
<1>3. (d \o h) \o (q \o <<e>>) = ((d \o h) \o q) \o <<e>>
  BY <1>1, ConcatAssociative
<1>4. Append((d \o h) \o q, e) = ((d \o h) \o q) \o <<e>>
  BY <1>1, AppendIsConcat
<1> QED BY <1>2, <1>3, <1>4

\* Popping the front into an empty hand leaves the whole unchanged.
LEMMA PopKeeps ==
  ASSUME NEW S, NEW d \in Seq(S), NEW q \in Seq(S), q # <<>>
  PROVE  /\ Head(q) \in S /\ Tail(q) \in Seq(S)
         /\ (d \o <<>>) \o q = (d \o <<Head(q)>>) \o Tail(q)
<1>1. Head(q) \in S /\ Tail(q) \in Seq(S) /\ <<Head(q)>> \in Seq(S)
  BY HeadTailProperties
<1>2. q = <<Head(q)>> \o Tail(q)
  BY <1>1, HeadTailProperties, ConcatProperties, SeqEqual
<1>3. d \o <<>> = d
  BY ConcatEmptySeq
<1>4. d \o (<<Head(q)>> \o Tail(q)) = (d \o <<Head(q)>>) \o Tail(q)
  BY <1>1, ConcatAssociative
<1> QED BY <1>1, <1>2, <1>3, <1>4

---------------------------------------------------------------------------
(* The inductive invariant *)

\* The hand is a sequence of entries.
LEMMA HandIsSequence ==
  ASSUME TypeOK
  PROVE  inHand \in Seq(Entry)
<1>1. CASE inHand = <<>>
  BY <1>1, EmptySeq
<1>2. CASE inHand \in {<<e>> : e \in Entry}
  <2> PICK e \in Entry : inHand = <<e>>
    BY <1>2
  <2>1. <<>> \in Seq(Entry) /\ Append(<<>>, e) = <<e>>
    BY EmptySeq
  <2> QED BY <2>1, AppendProperties
<1> QED BY <1>1, <1>2 DEF TypeOK

\* One enqueued entry, shared by Log, LogException and LogInnerException.
LEMMA EnqueuePreserves ==
  ASSUME Inv, NEW p \in Producers, NEW announces \in BOOLEAN, Enqueue(p, announces)
  PROVE  Inv'
<1> DEFINE e == [from |-> p, n |-> sent[p] + 1, announces |-> announces]
<1>1. e \in Entry /\ sent' \in [Producers -> 0 .. MaxEntries]
  BY MaxEntriesAssumption DEF Inv, TypeOK, Enqueue, Entry
<1>2. queue' = Append(queue, e) /\ accepted' = Append(accepted, e)
  BY DEF Enqueue
<1>3. queue' \in Seq(Entry) /\ accepted' \in Seq(Entry) /\ queue' # <<>>
  BY <1>1, <1>2, AppendProperties DEF Inv, TypeOK
<1>4. inHand \in Seq(Entry)
  BY HandIsSequence DEF Inv
<1>5. accepted' = (delivered \o inHand) \o queue'
  <2>1. (delivered \o inHand) \o Append(queue, e)
          = Append((delivered \o inHand) \o queue, e)
    <3>1. delivered \in Seq(Entry) /\ queue \in Seq(Entry)
      BY DEF Inv, TypeOK
    <3> HIDE DEF e
    <3> QED BY <1>1, <1>4, <3>1, PushAppends
  <2> QED BY <1>2, <2>1 DEF Inv, InOrder
<1>6. TypeOK'
  BY <1>1, <1>3 DEF Inv, TypeOK, Enqueue, NotifyOne
<1>7. InOrder'
  BY <1>5 DEF InOrder, Enqueue
<1>8. NoLostWakeup' /\ WorkerPosition'
  BY <1>3 DEF Inv, NoLostWakeup, WorkerPosition, Enqueue, NotifyOne, TypeOK
<1> QED BY <1>6, <1>7, <1>8 DEF Inv

LEMMA InitEstablishes == Init => Inv
<1> SUFFICES ASSUME Init PROVE Inv
  OBVIOUS
<1>1. <<>> \in Seq(Entry)
  BY EmptySeq
<1>2. (<<>> \o <<>>) \o <<>> = <<>>
  BY <1>1, ConcatEmptySeq
<1>3. TypeOK
  BY <1>1, MaxEntriesAssumption DEF Init, TypeOK
<1>4. InOrder /\ NoLostWakeup /\ WorkerPosition
  BY <1>2 DEF Init, InOrder, NoLostWakeup, WorkerPosition
<1> QED BY <1>3, <1>4 DEF Inv

LEMMA NextPreserves == Inv /\ [Next]_vars => Inv'
<1> SUFFICES ASSUME Inv, [Next]_vars PROVE Inv'
  OBVIOUS
<1> USE DEF Inv
<1>1. CASE \E p \in Producers : Log(p) \/ LogException(p) \/ LogInnerException(p)
  <2> PICK p \in Producers : Log(p) \/ LogException(p) \/ LogInnerException(p)
    BY <1>1
  <2>1. \E announces \in BOOLEAN : Enqueue(p, announces)
    BY DEF Log, LogException, LogInnerException
  <2> QED BY <2>1, EnqueuePreserves
<1>2. CASE LoopHead
  <2>1. (worker' = "exited" /\ m_closing) \/ (~m_closing /\ Wait)
    BY <1>2 DEF LoopHead, Exit
  <2>2. UNCHANGED <<queue, inHand, phase, sent, chained, accepted, delivered>>
    BY <1>2 DEF LoopHead, Exit, Wait
  <2>3. TypeOK' /\ InOrder'
    BY <2>1, <2>2 DEF TypeOK, InOrder, Wait
  <2>4. inHand = <<>>
    BY <1>2 DEF LoopHead, WorkerPosition
  <2>5. NoLostWakeup' /\ WorkerPosition'
    BY <1>2, <2>1, <2>2, <2>4
    DEF LoopHead, NoLostWakeup, WorkerPosition, Wait, m_closing, TypeOK
  <2> QED BY <2>3, <2>5
<1>3. CASE Retest
  BY <1>3 DEF Retest, Wait, TypeOK, InOrder, NoLostWakeup, WorkerPosition, m_closing
<1>4. CASE SpuriousWakeup
  BY <1>4 DEF SpuriousWakeup, TypeOK, InOrder, NoLostWakeup, WorkerPosition
<1>5. CASE Take
  <2>1. inHand = <<>> /\ queue \in Seq(Entry) /\ queue # <<>>
    BY <1>5 DEF Take, WorkerPosition, TypeOK
  <2>2. /\ Head(queue) \in Entry /\ Tail(queue) \in Seq(Entry)
        /\ (delivered \o <<>>) \o queue = (delivered \o <<Head(queue)>>) \o Tail(queue)
    BY <2>1, PopKeeps DEF TypeOK
  <2>3. TypeOK'
    BY <1>5, <2>2 DEF Take, TypeOK
  <2>4. InOrder'
    BY <1>5, <2>1, <2>2 DEF Take, InOrder
  <2>5. NoLostWakeup' /\ WorkerPosition'
    BY <1>5 DEF Take, NoLostWakeup, WorkerPosition
  <2> QED BY <2>3, <2>4, <2>5
<1>6. CASE Write
  <2>1. inHand \in Seq(Entry) /\ delivered \in Seq(Entry)
    BY HandIsSequence DEF TypeOK
  <2>2. delivered' \in Seq(Entry) /\ delivered' \o <<>> = delivered \o inHand
    BY <1>6, <2>1, ConcatProperties, ConcatEmptySeq DEF Write
  <2>3. TypeOK'
    BY <1>6, <2>2 DEF Write, TypeOK
  <2>4. InOrder'
    BY <1>6, <2>2 DEF Write, InOrder
  <2>5. NoLostWakeup' /\ WorkerPosition'
    BY <1>6 DEF Write, NoLostWakeup, WorkerPosition
  <2> QED BY <2>3, <2>4, <2>5
<1>7. CASE Close
  BY <1>7 DEF Close, TypeOK, InOrder, NoLostWakeup, WorkerPosition
<1>8. CASE NotifyWorker
  BY <1>8 DEF NotifyWorker, NotifyOne, TypeOK, InOrder, NoLostWakeup, WorkerPosition
<1>9. CASE Join
  BY <1>9 DEF Join, TypeOK, InOrder, NoLostWakeup, WorkerPosition
<1>10. CASE Closed \/ UNCHANGED vars
  BY <1>10 DEF Closed, vars, TypeOK, InOrder, NoLostWakeup, WorkerPosition
<1> QED
  BY <1>1, <1>2, <1>3, <1>4, <1>5, <1>6, <1>7, <1>8, <1>9, <1>10 DEF Next

\* The invariant holds of every behaviour of the logger.
THEOREM Invariance == Spec => []Inv
BY InitEstablishes, NextPreserves, PTL DEF Spec

\* Nothing is lost, repeated or reordered on its way through the queue, for any number of
\* producers and entries.
THEOREM OrderIsKept == Spec => []InOrder
<1>1. Inv => InOrder
  BY DEF Inv
<1> QED BY <1>1, Invariance, PTL

\* The worker never sleeps on work, or on the order to leave.
THEOREM NoWakeupIsLost == Spec => []NoLostWakeup
<1>1. Inv => NoLostWakeup
  BY DEF Inv
<1> QED BY <1>1, Invariance, PTL

\* What is left once the worker has gone and its queue is empty.
LEMMA NothingLeft ==
  ASSUME Inv, inHand = <<>>, queue = <<>>
  PROVE  accepted = delivered
<1>1. (delivered \o <<>>) \o <<>> = delivered
  BY ConcatEmptySeq DEF Inv, TypeOK
<1> QED BY <1>1 DEF Inv, InOrder

LEMMA ExitedIsAllOrNothing ==
  ASSUME Inv, worker = "exited"
  PROVE  delivered = accepted \/ delivered = <<>>
<1>1. inHand = <<>> /\ (queue = <<>> \/ delivered = <<>>)
  BY DEF Inv, WorkerPosition
<1> QED BY <1>1, NothingLeft

\* Destroying the logger writes every entry or none: the ones still queued are
\* dropped only when the worker saw m_closing before it saw the queue.
THEOREM AllOrNothingHolds == Spec => []AllOrNothing
<1>1. Inv => AllOrNothing
  <2> SUFFICES ASSUME Inv, phase = "closed" PROVE delivered = accepted \/ delivered = <<>>
    BY DEF AllOrNothing
  <2>1. worker = "exited"
    BY DEF Inv, WorkerPosition
  <2> QED BY <2>1, ExitedIsAllOrNothing
<1> QED BY <1>1, Invariance, PTL

---------------------------------------------------------------------------
(* Refinement of LogChannel *)

\* Writing the entry in hand delivers the next accepted entry.
LEMMA WriteDelivers ==
  ASSUME Inv, Write
  PROVE  /\ Len(delivered) < Len(accepted)
         /\ delivered' = Append(delivered, accepted[Len(delivered) + 1])
<1>1. inHand # <<>>
  BY DEF Write, Inv, WorkerPosition
<1> PICK e \in Entry : inHand = <<e>>
  BY <1>1 DEF Inv, TypeOK
<1> DEFINE d == delivered
           q == queue
<1>2. d \in Seq(Entry) /\ q \in Seq(Entry) /\ <<e>> \in Seq(Entry)
  BY HandIsSequence DEF Inv, TypeOK
<1> HIDE DEF d, q
<1>3. d \o <<e>> = Append(d, e)
  BY <1>2, AppendIsConcat
<1>4. /\ Append(d, e) \in Seq(Entry)
      /\ Len(Append(d, e)) = Len(d) + 1
      /\ Append(d, e)[Len(d) + 1] = e
  BY <1>2, AppendProperties
<1>5. Len(d) \in Nat /\ Len(q) \in Nat
  BY <1>2, LenProperties
<1>6. /\ Len(Append(d, e) \o q) = Len(d) + 1 + Len(q)
      /\ \A i \in 1 .. Len(d) + 1 + Len(q) :
            (Append(d, e) \o q)[i] =
               IF i <= Len(d) + 1 THEN Append(d, e)[i] ELSE q[i - (Len(d) + 1)]
  BY <1>2, <1>4, ConcatProperties
<1>7. accepted = Append(d, e) \o q /\ delivered' = Append(d, e)
  BY <1>3 DEF Inv, InOrder, Write, d, q
<1>8. accepted[Len(d) + 1] = e /\ Len(d) < Len(accepted)
  <2>1. Len(d) + 1 \in 1 .. Len(d) + 1 + Len(q)
    BY <1>5
  <2>2. accepted[Len(d) + 1] = Append(d, e)[Len(d) + 1]
    BY <1>6, <1>7, <2>1, <1>5
  <2>3. Len(accepted) = Len(d) + 1 + Len(q)
    BY <1>6, <1>7
  <2> QED BY <1>4, <1>5, <2>2, <2>3
<1> QED BY <1>7, <1>8 DEF d

\* Every step of the logger is a step of the channel, or none of its business.
LEMMA StepImplements == Inv /\ [Next]_vars => [Channel!Next]_(Channel!vars)
<1> SUFFICES ASSUME Inv, [Next]_vars PROVE [Channel!Next]_(Channel!vars)
  OBVIOUS
<1> USE DEF Channel!vars, Channel!Next, ChannelStatus
<1>1. CASE \E p \in Producers : Log(p) \/ LogException(p) \/ LogInnerException(p)
  <2> PICK p \in Producers, announces \in BOOLEAN : Enqueue(p, announces)
    BY <1>1 DEF Log, LogException, LogInnerException
  <2> DEFINE e == [from |-> p, n |-> sent[p] + 1, announces |-> announces]
  <2>1. e \in Entry
    BY MaxEntriesAssumption DEF Inv, TypeOK, Enqueue, Entry
  <2>2. accepted' = Append(accepted, e) /\ phase = "open" /\ UNCHANGED <<delivered, phase>>
    BY DEF Enqueue
  <2>3. Channel!Accept
    BY <2>1, <2>2 DEF Channel!Accept
  <2> QED BY <2>3
<1>2. CASE Write
  <2>1. phase \in {"open", "closing", "joining"} /\ UNCHANGED <<accepted, phase>>
    BY <1>2 DEF Write, Inv, WorkerPosition, TypeOK
  <2>2. Channel!Deliver
    BY <1>2, <2>1, WriteDelivers DEF Channel!Deliver
  <2> QED BY <2>2
<1>3. CASE Close
  BY <1>3 DEF Close, Channel!Close
<1>4. CASE Join
  <2>1. delivered = accepted \/ delivered = <<>>
    BY <1>4, ExitedIsAllOrNothing DEF Join
  <2>2. Channel!Finish
    BY <1>4, <2>1 DEF Join, Channel!Finish
  <2> QED BY <2>2
<1>5. CASE LoopHead \/ Retest \/ SpuriousWakeup \/ Take
  BY <1>5 DEF LoopHead, Wait, Exit, Retest, SpuriousWakeup, Take
<1>6. CASE NotifyWorker
  BY <1>6 DEF NotifyWorker
<1>7. CASE Closed \/ UNCHANGED vars
  BY <1>7 DEF Closed, vars
<1> QED
  BY <1>1, <1>2, <1>3, <1>4, <1>5, <1>6, <1>7 DEF Next

\* The queue, the worker and its shutdown implement the channel's promise.
THEOREM Refinement == Spec => ImplementsChannel
<1>1. Init => Channel!Init
  BY DEF Init, Channel!Init, ChannelStatus
<1> QED BY <1>1, StepImplements, Invariance, PTL DEF Spec, Channel!Spec, ImplementsChannel

---------------------------------------------------------------------------
(* Shared pointers: the invariant *)

Places == {"idle", "deleting", "sole", "copying", "dangling", "assigning"}

\* Types.
PointerTypeOK ==
  /\ ptr \in [Pointers -> Addresses \union {Null}]
  /\ refs \in [Addresses -> Int]
  /\ live \subseteq Addresses
  /\ calling \in [Pointers -> Places]
  /\ source \in [Pointers -> Pointers \union {Null}]
  /\ corrupt \in BOOLEAN

\* What a call that is under way may count on: the pointers in Detach and Clear have an
\* object, the one that is assigned to has none, and the one it is assigned from stays idle.
CallsArePrepared ==
  \A p \in Pointers :
    /\ calling[p] \in {"deleting", "sole", "copying", "dangling"} => ptr[p] # Null
    /\ calling[p] = "assigning" => ptr[p] = Null /\ source[p] # Null
    /\ source[p] # Null /\ source[p] # p => calling[source[p]] = "idle"
    /\ source[p] # Null => calling[p] \in {"deleting", "assigning"}

LiveAreCounted == \A o \in live : refs[o] = Cardinality(Counted(o))

LiveAreHeld ==
  \A o \in Addresses : o \in live <=> \E p \in Pointers :
    ptr[p] = o /\ calling[p] \notin {"copying", "dangling"}

OneInHand ==
  \A p, q \in Pointers :
    calling[p] \in {"deleting", "sole"} /\ ptr[q] = ptr[p] /\ q # p =>
      calling[q] \in {"copying", "dangling"}

PInv == PointerTypeOK /\ CallsArePrepared /\ LiveAreCounted /\ LiveAreHeld /\ OneInHand

---------------------------------------------------------------------------

\* A set of pointers is finite, and has one more or one less with and without a pointer.
LEMMA PointerSets ==
  ASSUME NEW S \in SUBSET Pointers
  PROVE  /\ Cardinality(S) \in Nat
         /\ Cardinality(S) = 0 <=> S = {}
         /\ \A p \in Pointers \ S : Cardinality(S \union {p}) = Cardinality(S) + 1
         /\ \A p \in S : Cardinality(S \ {p}) = Cardinality(S) - 1
<1>1. IsFiniteSet(S)
  BY FS_Subset, PointersAssumption
<1>2. Cardinality(S) \in Nat /\ (Cardinality(S) = 0 <=> S = {})
  BY <1>1, FS_CardinalityType, FS_EmptySet
<1>3. \A p \in Pointers \ S : Cardinality(S \union {p}) = Cardinality(S) + 1
  BY <1>1, FS_AddElement
<1>4. \A p \in S : Cardinality(S \ {p}) = Cardinality(S) - 1
  BY <1>1, FS_RemoveElement
<1> QED
  BY <1>2, <1>3, <1>4

\* The invariant says what the property says.
LEMMA PInvIsExact == PInv => CountsAreExact
BY DEF PInv, LiveAreCounted, LiveAreHeld, OneInHand, CountsAreExact

\* It holds at first.
LEMMA PInitial == PointerInit => PInv
<1> SUFFICES ASSUME PointerInit PROVE PInv
  OBVIOUS
<1>1. PointerTypeOK
  <2>1. corrupt \in BOOLEAN
    BY Zenon DEF PointerInit
  <2> QED
    BY <2>1 DEF PointerInit, PointerTypeOK, Places
<1>2. CallsArePrepared /\ LiveAreCounted /\ OneInHand
  BY DEF PointerInit, CallsArePrepared, LiveAreCounted, OneInHand
<1>3. LiveAreHeld
  BY NullAssumption DEF PointerInit, LiveAreHeld
<1> QED
  BY <1>1, <1>2, <1>3 DEF PInv

---------------------------------------------------------------------------
(* How a step of one pointer changes the number of those that are counted *)

IsCounted(p, o) == ptr[p] = o /\ calling[p] \in {"idle", "assigning"}

One(b) == IF b THEN 1 ELSE 0

\* If only p changes, the number changes by what p is worth, before and after.
LEMMA CountFollows ==
  ASSUME NEW p \in Pointers, NEW o,
         \A q \in Pointers \ {p} : IsCounted(q, o)' <=> IsCounted(q, o)
  PROVE  /\ Cardinality(Counted(o)) \in Nat /\ Cardinality(Counted(o)') \in Nat
         /\ Cardinality(Counted(o)') = 0 <=> Counted(o)' = {}
         /\ Cardinality(Counted(o)') =
              Cardinality(Counted(o)) + One(IsCounted(p, o)') - One(IsCounted(p, o))
<1> DEFINE S == Counted(o)
           T == Counted(o)'
<1>1. S \in SUBSET Pointers /\ T \in SUBSET Pointers
  BY DEF Counted
<1>2. (p \in S <=> IsCounted(p, o)) /\ (p \in T <=> IsCounted(p, o)')
  BY DEF Counted, IsCounted
<1>3. \A q \in Pointers \ {p} : q \in T <=> q \in S
  BY DEF Counted, IsCounted
<1>4. Cardinality(S) \in Nat /\ Cardinality(T) \in Nat /\ (Cardinality(T) = 0 <=> T = {})
  BY <1>1, PointerSets
<1>5. Cardinality(T) = Cardinality(S) + One(p \in T) - One(p \in S)
  <2>1. CASE p \in T /\ p \notin S
    <3>1. T = S \union {p}
      BY <1>1, <1>3, <2>1
    <3> HIDE DEF S, T
    <3> QED
      BY <1>1, <1>4, <2>1, <3>1, PointerSets DEF One
  <2>2. CASE p \notin T /\ p \in S
    <3>1. T = S \ {p}
      BY <1>1, <1>3, <2>2
    <3> HIDE DEF S, T
    <3> QED
      BY <1>1, <1>4, <2>2, <3>1, PointerSets DEF One
  <2>3. CASE p \in T <=> p \in S
    <3>1. T = S
      BY <1>1, <1>3, <2>3
    <3> HIDE DEF S, T
    <3> QED
      BY <1>4, <2>3, <3>1 DEF One
  <2> QED
    BY <2>1, <2>2, <2>3
<1> HIDE DEF S, T
<1>6. Cardinality(T) = Cardinality(S) + One(IsCounted(p, o)') - One(IsCounted(p, o))
  BY <1>2, <1>5 DEF One
<1> QED
  BY <1>4, <1>6 DEF S, T

---------------------------------------------------------------------------
(* The steps *)

\* Everything but p stays as it is.
Others(p) ==
  \A q \in Pointers \ {p} : ptr'[q] = ptr[q] /\ calling'[q] = calling[q]

\* Whoever stays as it is stays counted, or uncounted.
LEMMA OthersAreCounted ==
  ASSUME NEW p \in Pointers, Others(p)
  PROVE  \A o : \A q \in Pointers \ {p} : IsCounted(q, o)' <=> IsCounted(q, o)
BY DEF Others, IsCounted

\* A new object for a pointer that holds none, or that of which it no longer counts.
LEMMA AdoptKeeps ==
  ASSUME PInv, NEW p \in Pointers, NEW o \in Addresses, Adopt(p, o),
         (calling[p] = "idle" /\ ptr[p] = Null) \/ calling[p] = "copying",
         calling' = [calling EXCEPT ![p] = "idle"], source' = source, corrupt' = corrupt
  PROVE  PInv'
<1> USE DEF PInv
<1>1. PointerTypeOK'
  BY DEF PointerTypeOK, Adopt, Count, Points, Places
<1>2. /\ ptr'[p] = o /\ calling'[p] = "idle" /\ refs'[o] = 1 /\ o \notin live
      /\ live' = live \union {o}
      /\ \A x \in Addresses \ {o} : refs'[x] = refs[x]
  BY DEF PointerTypeOK, Adopt, Count, Points
<1>3. Others(p)
  BY DEF Others, PointerTypeOK, Adopt, Points
<1>4. source[p] = Null /\ o # Null
  BY NullAssumption DEF CallsArePrepared
<1>5. CallsArePrepared'
  <2> SUFFICES ASSUME NEW q \in Pointers PROVE
        /\ calling'[q] \in {"deleting", "sole", "copying", "dangling"} => ptr'[q] # Null
        /\ calling'[q] = "assigning" => ptr'[q] = Null /\ source'[q] # Null
        /\ source'[q] # Null /\ source'[q] # q => calling'[source'[q]] = "idle"
        /\ source'[q] # Null => calling'[q] \in {"deleting", "assigning"}
    BY DEF CallsArePrepared
  <2>1. source[q] \in Pointers \union {Null}
    BY DEF PointerTypeOK
  <2> QED
    BY <1>2, <1>3, <1>4, <2>1 DEF CallsArePrepared, Others
<1>6. LiveAreCounted'
  <2> SUFFICES ASSUME NEW x \in live' PROVE refs'[x] = Cardinality(Counted(x)')
    BY DEF LiveAreCounted
  <2>1. x \in Addresses
    BY <1>1 DEF PointerTypeOK
  <2>2. /\ Cardinality(Counted(x)) \in Nat
        /\ Cardinality(Counted(x)') = Cardinality(Counted(x)) + One(IsCounted(p, x)') - One(IsCounted(p, x))
    BY <1>3, OthersAreCounted, CountFollows
  <2>3. CASE x = o
    <3>1. Counted(x) = {}
      BY <1>2, <2>1, <2>3 DEF LiveAreHeld, Counted
    <3>2. Cardinality(Counted(x)) = 0
      BY <3>1, FS_EmptySet
    <3>3. IsCounted(p, x)' /\ ~IsCounted(p, x)
      BY <1>2, <2>3, <3>1 DEF IsCounted, Counted
    <3> QED
      BY <1>2, <2>2, <2>3, <3>2, <3>3 DEF One
  <2>4. CASE x # o
    <3>1. ~IsCounted(p, x)' /\ ~IsCounted(p, x)
      BY <1>2, <2>1, <2>4, NullAssumption DEF IsCounted
    <3>2. x \in live /\ refs'[x] = refs[x]
      BY <1>2, <2>1, <2>4
    <3> QED
      BY <2>2, <3>1, <3>2 DEF LiveAreCounted, One
  <2> QED
    BY <2>3, <2>4
<1>7. LiveAreHeld'
  <2> SUFFICES ASSUME NEW x \in Addresses
               PROVE  x \in live' <=> \E q \in Pointers :
                        ptr'[q] = x /\ calling'[q] \notin {"copying", "dangling"}
    BY DEF LiveAreHeld
  <2> QED
    BY <1>2, <1>3, NullAssumption DEF LiveAreHeld, Others
<1>8. OneInHand'
  <2> SUFFICES ASSUME NEW q \in Pointers, NEW r \in Pointers,
                      calling'[q] \in {"deleting", "sole"}, ptr'[r] = ptr'[q], r # q
               PROVE  calling'[r] \in {"copying", "dangling"}
    BY DEF OneInHand
  <2>1. q # p
    BY <1>2
  <2>2. ptr[q] # o
    BY <1>2, <1>3, <2>1 DEF LiveAreHeld, Others
  <2> QED
    BY <1>2, <1>3, <2>1, <2>2 DEF OneInHand, Others
<1> QED
  BY <1>1, <1>5, <1>6, <1>7, <1>8

\* A pointer without an object comes to share that of an idle one, or again has none.
LEMMA ShareKeeps ==
  ASSUME PInv, NEW p \in Pointers, NEW q \in Pointers, Share(p, q),
         calling[p] \in {"idle", "assigning"}, ptr[p] = Null, q = p \/ calling[q] = "idle",
         calling' = [calling EXCEPT ![p] = "idle"], source' = [source EXCEPT ![p] = Null],
         live' = live, corrupt' = corrupt
  PROVE  PInv'
<1> USE DEF PInv
<1>1. PointerTypeOK'
  BY DEF PointerTypeOK, Share, Count, Points, Places
<1>2. ptr'[p] = ptr[q] /\ calling'[p] = "idle"
  BY DEF PointerTypeOK, Share, Points
<1>3. Others(p)
  BY DEF Others, PointerTypeOK, Share, Points
<1>4. /\ ptr[q] # Null => ptr[q] \in Addresses /\ refs'[ptr[q]] = refs[ptr[q]] + 1
      /\ \A x \in Addresses : x # ptr[q] => refs'[x] = refs[x]
  BY NullAssumption DEF PointerTypeOK, Share, Count
<1>5. CallsArePrepared'
  <2> SUFFICES ASSUME NEW r \in Pointers PROVE
        /\ calling'[r] \in {"deleting", "sole", "copying", "dangling"} => ptr'[r] # Null
        /\ calling'[r] = "assigning" => ptr'[r] = Null /\ source'[r] # Null
        /\ source'[r] # Null /\ source'[r] # r => calling'[source'[r]] = "idle"
        /\ source'[r] # Null => calling'[r] \in {"deleting", "assigning"}
    BY DEF CallsArePrepared
  <2>1. source[r] \in Pointers \union {Null} /\ source'[r] = IF r = p THEN Null ELSE source[r]
    BY DEF PointerTypeOK
  <2> QED
    BY <1>2, <1>3, <2>1 DEF CallsArePrepared, Others
<1>6. LiveAreCounted'
  <2> SUFFICES ASSUME NEW x \in live' PROVE refs'[x] = Cardinality(Counted(x)')
    BY DEF LiveAreCounted
  <2>1. x \in Addresses /\ x \in live /\ refs[x] = Cardinality(Counted(x))
    BY DEF PointerTypeOK, LiveAreCounted
  <2>2. /\ Cardinality(Counted(x)) \in Nat
        /\ Cardinality(Counted(x)') = Cardinality(Counted(x)) + One(IsCounted(p, x)') - One(IsCounted(p, x))
    BY <1>3, OthersAreCounted, CountFollows
  <2>3. ~IsCounted(p, x) /\ (IsCounted(p, x)' <=> x = ptr[q])
    BY <1>2, <2>1, NullAssumption DEF IsCounted
  <2>4. refs'[x] = IF x = ptr[q] THEN refs[x] + 1 ELSE refs[x]
    BY <1>4, <2>1, NullAssumption
  <2> QED
    BY <2>1, <2>2, <2>3, <2>4 DEF One
<1>7. LiveAreHeld'
  <2> SUFFICES ASSUME NEW x \in Addresses
               PROVE  x \in live' <=> \E r \in Pointers :
                        ptr'[r] = x /\ calling'[r] \notin {"copying", "dangling"}
    BY DEF LiveAreHeld
  <2> QED
    BY <1>2, <1>3, NullAssumption DEF LiveAreHeld, Others
<1>8. OneInHand'
  <2> SUFFICES ASSUME NEW r \in Pointers, NEW t \in Pointers,
                      calling'[r] \in {"deleting", "sole"}, ptr'[t] = ptr'[r], t # r
               PROVE  calling'[t] \in {"copying", "dangling"}
    BY DEF OneInHand
  <2>1. r # p /\ ptr'[r] = ptr[r] /\ calling'[r] = calling[r]
    BY <1>2, <1>3 DEF Others
  <2>2. t # p
    BY <1>2, <2>1 DEF OneInHand, CallsArePrepared
  <2> QED
    BY <1>3, <2>1, <2>2 DEF OneInHand, Others
<1> QED
  BY <1>1, <1>5, <1>6, <1>7, <1>8

\* A pointer counts down: it lets go of its object, or has it in hand to delete it or to
\* count it again.  Some other pointer holds it in the first case.
LEMMA CountDownKeeps ==
  ASSUME PInv, NEW p \in Pointers, Free(p), ptr[p] # Null,
         refs' = [refs EXCEPT ![ptr[p]] = refs[ptr[p]] - 1],
         NEW held \in {"deleting", "sole"}, NEW then \in {"idle", "assigning", "copying"},
         ptr' = [ptr EXCEPT ![p] = IF refs[ptr[p]] = 1 \/ then = "copying" THEN ptr[p] ELSE Null],
         calling' = [calling EXCEPT ![p] = IF refs[ptr[p]] = 1 THEN held ELSE then],
         NEW q \in Pointers \union {Null}, source' = [source EXCEPT ![p] = q],
         then = "assigning" <=> q # Null, held = "sole" => q = Null,
         q # Null => calling[q] = "idle",
         live' = live, corrupt' = corrupt
  PROVE  PInv'
<1> USE DEF PInv
<1>0. PICK o \in Addresses : o = ptr[p]
  BY DEF PointerTypeOK
<1>1. PointerTypeOK'
  BY DEF PointerTypeOK, Places
<1>2. calling[p] = "idle" /\ source[p] = Null /\ \A r \in Pointers \ {p} : source[r] # p
  BY DEF Free, CallsArePrepared
<1>3. Others(p)
  BY DEF Others, PointerTypeOK
<1>4. o \in Addresses /\ o \in live /\ refs[o] = Cardinality(Counted(o))
  BY <1>0, <1>2 DEF PointerTypeOK, LiveAreHeld, LiveAreCounted
<1>5. /\ refs'[o] = refs[o] - 1
      /\ \A x \in Addresses : x # o => refs'[x] = refs[x]
      /\ ptr'[p] = IF refs[o] = 1 \/ then = "copying" THEN o ELSE Null
      /\ calling'[p] = IF refs[o] = 1 THEN held ELSE then
  BY <1>0, <1>4 DEF PointerTypeOK
<1>6. \A x \in Addresses : /\ IsCounted(p, x) <=> x = o
                           /\ ~IsCounted(p, x)'
  <2> SUFFICES ASSUME NEW x \in Addresses PROVE (IsCounted(p, x) <=> x = o) /\ ~IsCounted(p, x)'
    OBVIOUS
  <2> QED
    BY <1>0, <1>2, <1>5, NullAssumption DEF IsCounted
<1>7. LiveAreCounted'
  <2> SUFFICES ASSUME NEW x \in live' PROVE refs'[x] = Cardinality(Counted(x)')
    BY DEF LiveAreCounted
  <2>1. x \in Addresses /\ x \in live /\ refs[x] = Cardinality(Counted(x))
    BY DEF PointerTypeOK, LiveAreCounted
  <2>2. /\ Cardinality(Counted(x)) \in Nat
        /\ Cardinality(Counted(x)') = Cardinality(Counted(x)) + One(IsCounted(p, x)') - One(IsCounted(p, x))
    BY <1>3, OthersAreCounted, CountFollows
  <2> QED
    BY <1>5, <1>6, <2>1, <2>2 DEF One
<1>8. refs[o] # 1 => \E r \in Pointers \ {p} : ptr'[r] = o /\ calling'[r] \in {"idle", "assigning"}
  <2> SUFFICES ASSUME refs[o] # 1
               PROVE  \E r \in Pointers \ {p} : ptr'[r] = o /\ calling'[r] \in {"idle", "assigning"}
    OBVIOUS
  <2>1. /\ Cardinality(Counted(o)) \in Nat /\ Cardinality(Counted(o)') \in Nat
        /\ Cardinality(Counted(o)') = 0 <=> Counted(o)' = {}
        /\ Cardinality(Counted(o)') = Cardinality(Counted(o)) + One(IsCounted(p, o)') - One(IsCounted(p, o))
    BY <1>3, OthersAreCounted, CountFollows
  <2>2. Counted(o)' # {}
    BY <1>4, <1>6, <2>1 DEF One
  <2>3. PICK r \in Pointers : IsCounted(r, o)'
    BY <2>2 DEF Counted, IsCounted
  <2>4. r # p
    BY <1>4, <1>6, <2>3
  <2> QED
    BY <2>3, <2>4 DEF IsCounted
<1>9. CallsArePrepared'
  <2> SUFFICES ASSUME NEW r \in Pointers PROVE
        /\ calling'[r] \in {"deleting", "sole", "copying", "dangling"} => ptr'[r] # Null
        /\ calling'[r] = "assigning" => ptr'[r] = Null /\ source'[r] # Null
        /\ source'[r] # Null /\ source'[r] # r => calling'[source'[r]] = "idle"
        /\ source'[r] # Null => calling'[r] \in {"deleting", "assigning"}
    BY DEF CallsArePrepared
  <2>1. source[r] \in Pointers \union {Null} /\ source'[r] = IF r = p THEN q ELSE source[r]
    BY DEF PointerTypeOK
  <2>2. CASE r = p
    BY <1>0, <1>3, <1>4, <1>5, <2>1, <2>2, NullAssumption DEF Others
  <2>3. CASE r # p
    BY <1>2, <1>3, <2>1, <2>3 DEF CallsArePrepared, Others
  <2> QED
    BY <2>2, <2>3
<1>10. LiveAreHeld'
  <2> SUFFICES ASSUME NEW x \in Addresses
               PROVE  x \in live' <=> \E r \in Pointers :
                        ptr'[r] = x /\ calling'[r] \notin {"copying", "dangling"}
    BY DEF LiveAreHeld
  <2>1. CASE x = o
    <3>1. CASE refs[o] = 1
      BY <1>4, <1>5, <2>1, <3>1
    <3>2. CASE refs[o] # 1
      BY <1>4, <1>8, <2>1, <3>2
    <3> QED
      BY <3>1, <3>2
  <2>2. CASE x # o
    <3>1. ptr[p] # x /\ ptr'[p] # x
      BY <1>0, <1>5, <2>2, NullAssumption
    <3> QED
      BY <1>3, <3>1 DEF LiveAreHeld, Others
  <2> QED
    BY <2>1, <2>2
<1>11. OneInHand'
  <2> SUFFICES ASSUME NEW r \in Pointers, NEW t \in Pointers,
                      calling'[r] \in {"deleting", "sole"}, ptr'[t] = ptr'[r], t # r
               PROVE  calling'[t] \in {"copying", "dangling"}
    BY DEF OneInHand
  <2>1. CASE r = p
    <3>1. refs[o] = 1 /\ ptr'[t] = o /\ ptr[t] = o /\ calling'[t] = calling[t]
      BY <1>0, <1>3, <1>5, <2>1 DEF Others
    <3>2. Cardinality(Counted(o)) = 1 /\ p \in Counted(o)
      BY <1>4, <1>6, <3>1 DEF Counted, IsCounted
    <3>3. calling[t] \notin {"idle", "assigning"}
      <4> SUFFICES ASSUME calling[t] \in {"idle", "assigning"} PROVE FALSE
        OBVIOUS
      <4>1. t \in Counted(o) \ {p} /\ Counted(o) \in SUBSET Pointers
        BY <2>1, <3>1 DEF Counted
      <4>2. Cardinality(Counted(o) \ {p}) = 0
        BY <3>2, <4>1, PointerSets
      <4>3. Counted(o) \ {p} \in SUBSET Pointers
        BY <4>1
      <4>4. Counted(o) \ {p} = {}
        BY <4>2, <4>3, PointerSets
      <4> QED
        BY <4>1, <4>4
    <3>4. calling[t] \notin {"deleting", "sole"}
      BY <1>0, <1>2, <2>1, <3>1 DEF OneInHand
    <3>5. calling[t] \in Places
      BY DEF PointerTypeOK
    <3> QED
      BY <3>1, <3>3, <3>4, <3>5 DEF Places
  <2>2. CASE r # p
    <3>1. ptr'[r] = ptr[r] /\ calling'[r] = calling[r] /\ ptr[r] # Null
      BY <1>3, <2>2 DEF Others, CallsArePrepared
    <3>2. ptr[r] # o
      BY <1>0, <1>2, <2>2, <3>1 DEF OneInHand
    <3>3. t # p
      BY <1>5, <3>1, <3>2
    <3> QED
      BY <1>3, <3>1, <3>3 DEF OneInHand, Others
  <2> QED
    BY <2>1, <2>2
<1> QED
  BY <1>1, <1>7, <1>9, <1>10, <1>11

\* The only one that counted down to nothing counts again.
LEMMA RecountKeeps == ASSUME PInv, NEW p \in Pointers, Recount(p) PROVE PInv'
<1> USE DEF PInv
<1>0. PICK o \in Addresses : o = ptr[p]
  BY DEF PointerTypeOK, CallsArePrepared, Recount
<1>1. PointerTypeOK'
  BY <1>0 DEF PointerTypeOK, Recount, Count, Enters, Places
<1>2. /\ calling[p] = "sole" /\ calling'[p] = "idle" /\ ptr'[p] = o /\ o \in Addresses
      /\ refs'[o] = refs[o] + 1 /\ \A x \in Addresses : x # o => refs'[x] = refs[x]
      /\ live' = live /\ source' = source /\ source[p] = Null
  BY <1>0 DEF PointerTypeOK, Recount, Count, Enters, CallsArePrepared
<1>3. Others(p)
  BY DEF Others, PointerTypeOK, Recount, Enters
<1>4. CallsArePrepared'
  <2> SUFFICES ASSUME NEW r \in Pointers PROVE
        /\ calling'[r] \in {"deleting", "sole", "copying", "dangling"} => ptr'[r] # Null
        /\ calling'[r] = "assigning" => ptr'[r] = Null /\ source'[r] # Null
        /\ source'[r] # Null /\ source'[r] # r => calling'[source'[r]] = "idle"
        /\ source'[r] # Null => calling'[r] \in {"deleting", "assigning"}
    BY DEF CallsArePrepared
  <2>1. source[r] \in Pointers \union {Null}
    BY DEF PointerTypeOK
  <2> QED
    BY <1>2, <1>3, <2>1 DEF CallsArePrepared, Others
<1>5. LiveAreCounted'
  <2> SUFFICES ASSUME NEW x \in live' PROVE refs'[x] = Cardinality(Counted(x)')
    BY DEF LiveAreCounted
  <2>1. x \in Addresses /\ x \in live /\ refs[x] = Cardinality(Counted(x))
    BY <1>2 DEF PointerTypeOK, LiveAreCounted
  <2>2. /\ Cardinality(Counted(x)) \in Nat
        /\ Cardinality(Counted(x)') = Cardinality(Counted(x)) + One(IsCounted(p, x)') - One(IsCounted(p, x))
    BY <1>3, OthersAreCounted, CountFollows
  <2>3. ~IsCounted(p, x) /\ (IsCounted(p, x)' <=> x = o)
    BY <1>0, <1>2 DEF IsCounted
  <2> QED
    BY <1>2, <2>1, <2>2, <2>3 DEF One
<1>6. LiveAreHeld'
  <2> SUFFICES ASSUME NEW x \in Addresses
               PROVE  x \in live' <=> \E r \in Pointers :
                        ptr'[r] = x /\ calling'[r] \notin {"copying", "dangling"}
    BY DEF LiveAreHeld
  <2> QED
    BY <1>0, <1>2, <1>3 DEF LiveAreHeld, Others
<1>7. OneInHand'
  <2> SUFFICES ASSUME NEW r \in Pointers, NEW t \in Pointers,
                      calling'[r] \in {"deleting", "sole"}, ptr'[t] = ptr'[r], t # r
               PROVE  calling'[t] \in {"copying", "dangling"}
    BY DEF OneInHand
  <2>1. r # p /\ ptr'[r] = ptr[r] /\ calling'[r] = calling[r]
    BY <1>2, <1>3 DEF Others
  <2>2. ptr[r] # o
    BY <1>0, <1>2, <2>1 DEF OneInHand
  <2> QED
    BY <1>0, <1>2, <1>3, <2>1, <2>2 DEF OneInHand, Others
<1> QED
  BY <1>1, <1>4, <1>5, <1>6, <1>7

\* Whoever else remembers the deleted object only copies it.
LEMMA DeleteKeeps == ASSUME PInv, NEW p \in Pointers, Delete(p) PROVE PInv'
<1> USE DEF PInv
<1>0. PICK o \in Addresses : o = ptr[p]
  BY DEF PointerTypeOK, CallsArePrepared, Delete
<1>1. PointerTypeOK'
  <2>1. ptr' \in [Pointers -> Addresses \union {Null}] /\ live' \subseteq Addresses
    BY DEF PointerTypeOK, Delete, Points
  <2>2. calling' \in [Pointers -> Places]
    <3>1. \A q \in Pointers : calling[q] \in Places
      BY DEF PointerTypeOK
    <3>2. \A x : x \in {"idle", "assigning", "dangling"} => x \in Places
      BY DEF Places
    <3> HIDE DEF PInv
    <3> QED
      BY <3>1, <3>2 DEF Delete
  <2> QED
    BY <2>1, <2>2 DEF PointerTypeOK, Delete
<1>2. /\ calling[p] = "deleting" /\ o \in Addresses /\ ptr'[p] = Null
      /\ calling'[p] = IF source[p] = Null THEN "idle" ELSE "assigning"
      /\ live' = live \ {o} /\ source' = source /\ refs' = refs
  BY <1>0 DEF PointerTypeOK, Delete, Points, CallsArePrepared
<1>3. \A q \in Pointers \ {p} :
        /\ ptr'[q] = ptr[q]
        /\ calling'[q] = calling[q] \/ (calling[q] = "copying" /\ calling'[q] = "dangling")
  BY DEF PointerTypeOK, Delete, Points
<1>4. \A q \in Pointers \ {p} : ptr[q] = o => calling[q] \in {"copying", "dangling"}
  BY <1>0, <1>2 DEF OneInHand
<1>5. CallsArePrepared'
  <2> SUFFICES ASSUME NEW r \in Pointers PROVE
        /\ calling'[r] \in {"deleting", "sole", "copying", "dangling"} => ptr'[r] # Null
        /\ calling'[r] = "assigning" => ptr'[r] = Null /\ source'[r] # Null
        /\ source'[r] # Null /\ source'[r] # r => calling'[source'[r]] = "idle"
        /\ source'[r] # Null => calling'[r] \in {"deleting", "assigning"}
    BY DEF CallsArePrepared
  <2>1. source[r] \in Pointers \union {Null}
    BY DEF PointerTypeOK
  <2>2. source[r] # Null /\ source[r] # r => calling'[source[r]] = "idle"
    BY <1>2, <1>3, <2>1 DEF CallsArePrepared
  <2> QED
    BY <1>2, <1>3, <2>2 DEF CallsArePrepared
<1>6. LiveAreCounted'
  <2> SUFFICES ASSUME NEW x \in live' PROVE refs'[x] = Cardinality(Counted(x)')
    BY DEF LiveAreCounted
  <2>1. x \in Addresses /\ x \in live /\ x # o /\ refs[x] = Cardinality(Counted(x))
    BY <1>2 DEF PointerTypeOK, LiveAreCounted
  <2>2. \A q \in Pointers : q \in Counted(x)' <=> q \in Counted(x)
    BY <1>0, <1>2, <1>3, <2>1, NullAssumption DEF Counted
  <2>3. Counted(x)' = Counted(x)
    BY <2>2 DEF Counted
  <2> QED
    BY <1>2, <2>1, <2>3
<1>7. LiveAreHeld'
  <2> SUFFICES ASSUME NEW x \in Addresses
               PROVE  x \in live' <=> \E r \in Pointers :
                        ptr'[r] = x /\ calling'[r] \notin {"copying", "dangling"}
    BY DEF LiveAreHeld
  <2> QED
    BY <1>0, <1>2, <1>3, <1>4, NullAssumption DEF LiveAreHeld
<1>8. OneInHand'
  <2> SUFFICES ASSUME NEW r \in Pointers, NEW t \in Pointers,
                      calling'[r] \in {"deleting", "sole"}, ptr'[t] = ptr'[r], t # r
               PROVE  calling'[t] \in {"copying", "dangling"}
    BY DEF OneInHand
  <2>1. r # p
    BY <1>2
  <2>2. ptr'[r] = ptr[r] /\ calling'[r] = calling[r] /\ ptr[r] # Null
    BY <1>3, <2>1 DEF CallsArePrepared
  <2>3. t # p
    BY <1>2, <2>2
  <2> QED
    BY <1>3, <2>2, <2>3 DEF OneInHand
<1> QED
  BY <1>1, <1>5, <1>6, <1>7, <1>8

---------------------------------------------------------------------------
(* The theorem *)

\* Assigning to a pointer that has no object only remembers where to copy from.
LEMMA AssignEmptyKeeps ==
  ASSUME PInv, NEW p \in Pointers, NEW q \in Pointers, Assign(p, q), ptr[p] = Null
  PROVE  PInv'
<1> USE DEF PInv
<1>1. /\ calling[p] = "idle" /\ calling[q] = "idle" /\ ptr' = ptr /\ refs' = refs /\ live' = live
      /\ \A r \in Pointers \ {p} : source[r] # p
      /\ calling' = [calling EXCEPT ![p] = "assigning"] /\ source' = [source EXCEPT ![p] = q]
      /\ corrupt' = corrupt
  BY DEF Assign, Free, Enters
<1>2. PointerTypeOK'
  BY <1>1 DEF PointerTypeOK, Places
<1>3. Others(p) /\ calling'[p] = "assigning" /\ source'[p] = q /\ q # Null
  BY <1>1, NullAssumption DEF Others, PointerTypeOK
<1>4. CallsArePrepared'
  <2> SUFFICES ASSUME NEW r \in Pointers PROVE
        /\ calling'[r] \in {"deleting", "sole", "copying", "dangling"} => ptr'[r] # Null
        /\ calling'[r] = "assigning" => ptr'[r] = Null /\ source'[r] # Null
        /\ source'[r] # Null /\ source'[r] # r => calling'[source'[r]] = "idle"
        /\ source'[r] # Null => calling'[r] \in {"deleting", "assigning"}
    BY DEF CallsArePrepared
  <2>1. source[r] \in Pointers \union {Null} /\ source'[r] = IF r = p THEN q ELSE source[r]
    BY <1>1 DEF PointerTypeOK
  <2>2. CASE r = p
    BY <1>1, <1>3, <2>1, <2>2 DEF Others
  <2>3. CASE r # p
    BY <1>1, <1>3, <2>1, <2>3 DEF CallsArePrepared, Others
  <2> QED
    BY <2>2, <2>3
<1>5. LiveAreCounted'
  <2> SUFFICES ASSUME NEW x \in live' PROVE refs'[x] = Cardinality(Counted(x)')
    BY DEF LiveAreCounted
  <2>1. Counted(x)' = Counted(x)
    BY <1>1, <1>3 DEF Counted, Others
  <2> QED
    BY <1>1, <2>1 DEF LiveAreCounted
<1>6. LiveAreHeld'
  BY <1>1, <1>3 DEF LiveAreHeld, Others
<1>7. OneInHand'
  BY <1>1, <1>3 DEF OneInHand, Others, CallsArePrepared
<1> QED
  BY <1>2, <1>4, <1>5, <1>6, <1>7

\* Every step keeps the invariant.
LEMMA PStep == PInv /\ [PointerNext]_pointerVars => PInv'
<1> SUFFICES ASSUME PInv, [PointerNext]_pointerVars PROVE PInv'
  OBVIOUS
<1>0. PointerTypeOK /\ CallsArePrepared
  BY DEF PInv
<1>1. ASSUME NEW p \in Pointers, New(p) PROVE PInv'
  <2>1. calling' = [calling EXCEPT ![p] = "idle"]
    BY <1>0, <1>1 DEF New, Free, PointerTypeOK
  <2>2. calling[p] = "idle" /\ ptr[p] = Null /\ source' = source /\ corrupt' = corrupt
    BY <1>1 DEF New, Free
  <2>3. PICK o \in Addresses : Adopt(p, o)
    BY <1>1 DEF New
  <2> QED
    BY <2>1, <2>2, <2>3, AdoptKeeps
<1>2. ASSUME NEW p \in Pointers, CopyObject(p) PROVE PInv'
  <2>1. PICK o \in Addresses : Adopt(p, o)
    BY <1>2 DEF CopyObject
  <2> QED
    BY <1>2, <2>1, AdoptKeeps DEF CopyObject, Enters
<1>3. ASSUME NEW p \in Pointers, NEW q \in Pointers, CopyOf(p, q) PROVE PInv'
  <2>1. calling[p] = "idle" /\ ptr[p] = Null /\ source[p] = Null
    BY <1>0, <1>3 DEF CopyOf, Free, CallsArePrepared
  <2>2. /\ calling' = [calling EXCEPT ![p] = "idle"]
        /\ source' = [source EXCEPT ![p] = Null]
    BY <1>0, <1>3, <2>1 DEF CopyOf, PointerTypeOK
  <2> QED
    BY <1>3, <2>1, <2>2, ShareKeeps DEF CopyOf
<1>4. ASSUME NEW p \in Pointers, FinishAssign(p) PROVE PInv'
  <2>1. /\ calling[p] = "assigning" /\ ptr[p] = Null /\ source[p] \in Pointers
        /\ source[p] = p \/ calling[source[p]] = "idle"
    BY <1>0, <1>4 DEF FinishAssign, CallsArePrepared, PointerTypeOK
  <2>2. PICK q \in Pointers : q = source[p]
    BY <2>1
  <2>3. /\ Share(p, q) /\ live' = live /\ corrupt' = corrupt
        /\ calling' = [calling EXCEPT ![p] = "idle"] /\ source' = [source EXCEPT ![p] = Null]
    BY <1>4, <2>2 DEF FinishAssign, Enters
  <2> QED
    BY <2>1, <2>2, <2>3, ShareKeeps
<1>5. ASSUME NEW p \in Pointers, Clear(p) PROVE PInv'
  <2>1. Free(p) /\ ptr[p] \in Addresses /\ ptr[p] # Null /\ source[p] = Null /\ refs[ptr[p]] \in Int
    BY <1>0, <1>5 DEF Clear, Free, PointerTypeOK, CallsArePrepared
  <2>2. refs[ptr[p]] - 1 = 0 <=> refs[ptr[p]] = 1
    BY <2>1
  <2>3. /\ refs' = [refs EXCEPT ![ptr[p]] = refs[ptr[p]] - 1]
        /\ ptr' = [ptr EXCEPT ![p] = IF refs[ptr[p]] = 1 \/ "idle" = "copying" THEN ptr[p] ELSE Null]
        /\ calling' = [calling EXCEPT ![p] = IF refs[ptr[p]] = 1 THEN "deleting" ELSE "idle"]
        /\ live' = live /\ corrupt' = corrupt
    BY <1>5, <2>2 DEF Clear, Release, Count, Points, Enters
  <2>4. source' = [source EXCEPT ![p] = Null]
    BY <1>0, <1>5, <2>1 DEF Clear, PointerTypeOK
  <2> QED
    BY <2>1, <2>3, <2>4, CountDownKeeps
<1>6. ASSUME NEW p \in Pointers, NEW q \in Pointers, Assign(p, q), ptr[p] # Null PROVE PInv'
  <2>1. Free(p) /\ ptr[p] \in Addresses /\ refs[ptr[p]] \in Int /\ q # Null /\ calling[q] = "idle"
    BY <1>0, <1>6, NullAssumption DEF Assign, PointerTypeOK
  <2>2. refs[ptr[p]] - 1 = 0 <=> refs[ptr[p]] = 1
    BY <2>1
  <2>3. /\ refs' = [refs EXCEPT ![ptr[p]] = refs[ptr[p]] - 1]
        /\ ptr' = [ptr EXCEPT ![p] = IF refs[ptr[p]] = 1 \/ "assigning" = "copying" THEN ptr[p] ELSE Null]
        /\ calling' = [calling EXCEPT ![p] = IF refs[ptr[p]] = 1 THEN "deleting" ELSE "assigning"]
        /\ source' = [source EXCEPT ![p] = q] /\ live' = live /\ corrupt' = corrupt
    BY <1>6, <2>2 DEF Assign, Release, Count, Points, Enters
  <2> QED
    BY <1>6, <2>1, <2>3, CountDownKeeps
<1>7. ASSUME NEW p \in Pointers, Detach(p) PROVE PInv'
  <2>1. Free(p) /\ ptr[p] \in Addresses /\ ptr[p] # Null /\ source[p] = Null
    BY <1>0, <1>7 DEF Detach, Free, PointerTypeOK, CallsArePrepared
  <2>2. ptr' = [ptr EXCEPT ![p] = IF refs[ptr[p]] = 1 \/ "copying" = "copying" THEN ptr[p] ELSE Null]
    BY <1>0, <1>7 DEF Detach, PointerTypeOK
  <2>3. /\ refs' = [refs EXCEPT ![ptr[p]] = refs[ptr[p]] - 1]
        /\ calling' = [calling EXCEPT ![p] = IF refs[ptr[p]] = 1 THEN "sole" ELSE "copying"]
        /\ live' = live /\ corrupt' = corrupt
    BY <1>7 DEF Detach, Count, Enters
  <2>4. source' = [source EXCEPT ![p] = Null]
    BY <1>0, <1>7, <2>1 DEF Detach, PointerTypeOK
  <2> QED
    BY <2>1, <2>2, <2>3, <2>4, CountDownKeeps
<1>8. CASE UNCHANGED <<ptr, refs, live, calling, source>> /\ corrupt' \in BOOLEAN
  BY <1>8 DEF PInv, PointerTypeOK, CallsArePrepared, LiveAreCounted, LiveAreHeld, OneInHand, Counted
<1>9. ASSUME NEW p \in Pointers, CopyDangling(p) PROVE PInv'
  <2>1. corrupt' \in BOOLEAN
    BY <1>9, Zenon DEF CopyDangling
  <2> QED
    BY <1>8, <1>9, <2>1 DEF CopyDangling
<1>10. CASE UNCHANGED pointerVars
  <2>1. corrupt' \in BOOLEAN
    BY <1>0, <1>10, Zenon DEF PointerTypeOK, pointerVars
  <2> QED
    BY <1>8, <1>10, <2>1 DEF pointerVars
<1> QED
  BY <1>1, <1>2, <1>3, <1>4, <1>5, <1>6, <1>7, <1>9, <1>10, AssignEmptyKeeps, DeleteKeeps,
     RecountKeeps DEF PointerNext, PointerStep

\* Whatever the threads do with their pointers, the count of an object that exists is the
\* number of pointers it counts, an object exists exactly as long as a pointer holds it, and
\* only one thread has it in hand to delete it (SharedSmartPointer, smartpointer.h).
THEOREM CountsStayExact == PointerSpec => []CountsAreExact
BY PInitial, PStep, PInvIsExact, PTL DEF PointerSpec
=============================================================================
