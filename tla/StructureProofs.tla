-------------------------- MODULE StructureProofs ---------------------------
(***************************************************************************)
(* UndoStack for any number of commands: Undo and Redo lead back and forth *)
(* through the documents the application has seen, and the stack           *)
(* implements EditHistory.                                                 *)
(*                                                                         *)
(* Region for any set of bounds of a dense type: the lists stay in order   *)
(* and apart, they are the only ones of their points, and the operations   *)
(* are those on sets.                                                      *)
(***************************************************************************)
EXTENDS UndoStack, Region, SequenceTheorems, WellFoundedInduction, TLAPS

Inv == TypeOK /\ EntriesConnect /\ DocumentFollowsStack

---------------------------------------------------------------------------
(* Applying and unapplying *)

\* Undoing all of e takes e off the end of a document that ends with it.
LEMMA UnapplyAll ==
  ASSUME NEW d \in Seq(Nat), NEW e \in Seq(Nat)
  PROVE  Unapply(d \o e, e, Len(e)) = d
<1> DEFINE w == d \o e
<1>1. /\ w \in Seq(Nat) /\ Len(w) = Len(d) + Len(e)
      /\ \A i \in 1 .. Len(d) + Len(e) : w[i] = IF i <= Len(d) THEN d[i] ELSE e[i - Len(d)]
      /\ Len(d) \in Nat /\ Len(e) \in Nat
  BY ConcatProperties, LenProperties
<1> HIDE DEF w
<1>2. SubSeq(w, Len(w) - Len(e) + 1, Len(w)) = SubSeq(e, Len(e) - Len(e) + 1, Len(e))
  <2>1. Len(w) - Len(e) + 1 = Len(d) + 1 /\ Len(e) - Len(e) + 1 = 1
    BY <1>1
  <2>2. SubSeq(e, 1, Len(e)) = e
    BY SubSeqFull
  <2>3. /\ SubSeq(w, Len(d) + 1, Len(w)) \in Seq(Nat)
        /\ Len(SubSeq(w, Len(d) + 1, Len(w))) = Len(e)
        /\ \A i \in 1 .. Len(e) : SubSeq(w, Len(d) + 1, Len(w))[i] = w[Len(d) + i]
    <3>1. \A i \in Len(d) + 1 .. Len(w) : w[i] \in Nat
      BY <1>1, ElementOfSeq
    <3> QED BY <1>1, <3>1, SubSeqProperties
  <2>4. ASSUME NEW i \in 1 .. Len(e) PROVE w[Len(d) + i] = e[i]
    <3>1. /\ Len(d) + i \in 1 .. Len(d) + Len(e)
          /\ ~(Len(d) + i <= Len(d)) /\ Len(d) + i - Len(d) = i
      BY <1>1
    <3> QED BY <1>1, <3>1
  <2>5. SubSeq(w, Len(d) + 1, Len(w)) = e
    BY <2>3, <2>4, SeqEqual
  <2> QED BY <2>1, <2>2, <2>5
<1>3. SubSeq(w, 1, Len(w) - Len(e)) = d
  <2>1. Len(w) - Len(e) = Len(d)
    BY <1>1
  <2>2. /\ SubSeq(w, 1, Len(d)) \in Seq(Nat)
        /\ Len(SubSeq(w, 1, Len(d))) = Len(d)
        /\ \A i \in 1 .. Len(d) : SubSeq(w, 1, Len(d))[i] = w[i]
    <3>1. \A i \in 1 .. Len(d) : w[i] \in Nat
      BY <1>1, ElementOfSeq
    <3> QED BY <1>1, <3>1, SubSeqProperties
  <2>3. SubSeq(w, 1, Len(d)) = d
    BY <1>1, <2>2, SeqEqual
  <2> QED BY <2>1, <2>3
<1>4. Len(e) <= Len(w)
  BY <1>1
<1>5. Unapply(w, e, Len(e)) = d
  BY <1>2, <1>3, <1>4 DEF Unapply
<1> QED BY <1>5 DEF w

\* Undoing nothing, redoing nothing and redoing everything.
LEMMA UnapplyNone ==
  ASSUME NEW d \in Seq(Nat), NEW e \in Seq(Nat)
  PROVE  Unapply(d, e, 0) = d /\ Apply(d, e, 0) = d /\ Apply(d, e, Len(e)) = d \o e
<1>1. Len(d) \in Nat /\ Len(e) \in Nat
  BY LenProperties
<1>2. SubSeq(d, Len(d) + 1, Len(d)) = <<>> /\ SubSeq(e, Len(e) + 1, Len(e)) = <<>>
      /\ SubSeq(e, 1, 0) = <<>>
  BY <1>1, SubSeqEmpty
<1>3. SubSeq(d, 1, Len(d)) = d /\ SubSeq(e, 1, Len(e)) = e /\ d \o <<>> = d
  BY SubSeqFull, ConcatEmptySeq
<1>4. Len(d) - 0 = Len(d) /\ Len(e) - 0 = Len(e) /\ 0 <= Len(d)
  BY <1>1
<1> QED BY <1>2, <1>3, <1>4 DEF Unapply, Apply

\* Every undone or redone document is a document.
LEMMA UnapplyType ==
  ASSUME NEW d \in Seq(Nat), NEW e \in Seq(Nat), NEW n \in 0 .. Len(e)
  PROVE  Unapply(d, e, n) \in Seq(Nat) /\ Apply(d, e, n) \in Seq(Nat)
<1>1. Len(d) \in Nat /\ Len(e) \in Nat
  BY LenProperties
<1>2. Append(d, Ruined) \in Seq(Nat)
  BY AppendProperties DEF Ruined
<1>3. n <= Len(d) => SubSeq(d, 1, Len(d) - n) \in Seq(Nat)
  <2> SUFFICES ASSUME n <= Len(d) PROVE SubSeq(d, 1, Len(d) - n) \in Seq(Nat)
    OBVIOUS
  <2>1. \A i \in 1 .. Len(d) - n : d[i] \in Nat
    BY <1>1, ElementOfSeq
  <2> QED BY <1>1, <2>1, SubSeqProperties
<1>4. SubSeq(e, 1, n) \in Seq(Nat)
  <2>1. \A i \in 1 .. n : e[i] \in Nat
    BY <1>1, ElementOfSeq
  <2> QED BY <1>1, <2>1, SubSeqProperties
<1> QED BY <1>2, <1>3, <1>4, ConcatProperties DEF Unapply, Apply

---------------------------------------------------------------------------
(* Pushing an entry *)

LEMMA IdsAreNumbers == Seq(Id) \subseteq Seq(Nat)
<1>1. Id \subseteq Nat
  BY DEF Id
<1> QED BY <1>1, SeqMonotonic

\* Truncating a sequence and appending an element.
LEMMA TruncateAppend ==
  ASSUME NEW S, NEW s \in Seq(S), NEW n \in 0 .. Len(s), NEW x \in S
  PROVE  LET t == Append(SubSeq(s, 1, n), x)
         IN /\ t \in Seq(S) /\ Len(t) = n + 1
            /\ \A i \in 1 .. n : t[i] = s[i]
            /\ t[n + 1] = x
<1> DEFINE u == SubSeq(s, 1, n)
<1>1. Len(s) \in Nat
  BY LenProperties
<1>2. \A i \in 1 .. n : s[i] \in S
  BY <1>1, ElementOfSeq
<1>3. u \in Seq(S) /\ Len(u) = n /\ \A i \in 1 .. n : u[i] = s[i]
  BY <1>1, <1>2, SubSeqProperties
<1> HIDE DEF u
<1>4. /\ Append(u, x) \in Seq(S) /\ Len(Append(u, x)) = Len(u) + 1
      /\ \A i \in 1 .. Len(u) : Append(u, x)[i] = u[i]
      /\ Append(u, x)[Len(u) + 1] = x
  BY <1>3, AppendProperties
<1>5. /\ Append(u, x) \in Seq(S) /\ Len(Append(u, x)) = n + 1
      /\ \A i \in 1 .. n : Append(u, x)[i] = s[i]
      /\ Append(u, x)[n + 1] = x
  BY <1>3, <1>4
<1> QED BY <1>5 DEF u

LEMMA PushConnects ==
  ASSUME TypeOK, EntriesConnect,
         NEW e \in Seq(Id), NEW d \in Document, Push(e, d), d = trail[ptr + 1] \o e
  PROVE  /\ stack' \in Seq(Seq(Id)) /\ trail' \in Seq(Document)
         /\ Len(trail') = Len(stack') + 1
         /\ ptr' \in 0 .. Len(stack')
         /\ trail'[ptr' + 1] = d
         /\ \A i \in 1 .. Len(stack') : trail'[i + 1] = trail'[i] \o stack'[i]
<1>1. Len(stack) \in Nat /\ ptr \in 0 .. Len(stack) /\ Len(trail) = Len(stack) + 1
  BY LenProperties DEF TypeOK
<1>2. /\ stack' \in Seq(Seq(Id)) /\ Len(stack') = ptr + 1
      /\ \A i \in 1 .. ptr : stack'[i] = stack[i]
      /\ stack'[ptr + 1] = e
  BY <1>1, TruncateAppend DEF Push, TypeOK
<1>3. ptr + 1 \in 0 .. Len(trail)
  BY <1>1
<1>4. /\ trail' \in Seq(Document) /\ Len(trail') = ptr + 1 + 1
      /\ \A i \in 1 .. ptr + 1 : trail'[i] = trail[i]
      /\ trail'[ptr + 1 + 1] = d
  BY <1>3, TruncateAppend DEF Push, TypeOK
<1>5. ptr' = ptr + 1
  BY DEF Push
<1>6. ASSUME NEW i \in 1 .. Len(stack')
      PROVE  trail'[i + 1] = trail'[i] \o stack'[i]
  <2>1. CASE i = ptr + 1
    BY <1>1, <1>2, <1>4, <2>1
  <2>2. CASE i \in 1 .. ptr
    <3>1. i \in 1 .. ptr + 1 /\ i + 1 \in 1 .. ptr + 1 /\ i \in 1 .. Len(stack)
      BY <1>1, <2>2
    <3> QED BY <1>2, <1>4, <2>2, <3>1 DEF EntriesConnect
  <2> QED BY <1>1, <1>2, <2>1, <2>2
<1>7. trail'[ptr' + 1] = d
  BY <1>4, <1>5
<1>8. Len(trail') = Len(stack') + 1 /\ ptr' \in 0 .. Len(stack')
  BY <1>1, <1>2, <1>4, <1>5
<1> QED BY <1>2, <1>4, <1>6, <1>7, <1>8

---------------------------------------------------------------------------
(* The inductive invariant *)

\* Where a sound stack stands: in the middle of its trail, with the entries on
\* either side of it.
LEMMA Standing ==
  ASSUME Inv
  PROVE  /\ Len(stack) \in Nat /\ ptr \in 0 .. Len(stack)
         /\ trail[ptr + 1] \in Document
         /\ \A i \in 1 .. Len(stack) :
               /\ stack[i] \in Seq(Id) /\ stack[i] \in Seq(Nat)
               /\ trail[i] \in Document /\ trail[i + 1] \in Document
               /\ trail[i + 1] = trail[i] \o stack[i]
         /\ macro.commands \in Seq(Id) /\ macro.commands \in Seq(Nat)
<1>1. Len(stack) \in Nat /\ ptr \in 0 .. Len(stack) /\ Len(trail) = Len(stack) + 1
  BY LenProperties DEF Inv, TypeOK
<1>2. \A i \in 1 .. Len(stack) + 1 : trail[i] \in Document
  BY <1>1, ElementOfSeq DEF Inv, TypeOK
<1>3. \A i \in 1 .. Len(stack) : stack[i] \in Seq(Id)
  BY <1>1, ElementOfSeq DEF Inv, TypeOK
<1>4. macro.commands \in Seq(Id)
  BY DEF Inv, TypeOK
<1>5. \A i \in 1 .. Len(stack) : i \in 1 .. Len(stack) + 1 /\ i + 1 \in 1 .. Len(stack) + 1
  BY <1>1
<1>6. ptr + 1 \in 1 .. Len(stack) + 1
  BY <1>1
<1> QED BY <1>1, <1>2, <1>3, <1>4, <1>5, <1>6, IdsAreNumbers DEF Inv, EntriesConnect

LEMMA InvInit == Init => Inv
<1> SUFFICES ASSUME Init PROVE Inv
  OBVIOUS
<1>1. <<>> \in Seq(Nat) /\ <<>> \in Seq(Id) /\ <<>> \in Seq(Seq(Id)) /\ <<>> \in Seq(Seq(Nat))
  BY EmptySeq
<1>2. /\ <<<<>>>> \in Seq(Document) /\ Len(<<<<>>>>) = 1 /\ Len(<<>>) = 0
      /\ <<<<>>>>[1] = <<>>
  BY <1>1 DEF Document
<1>3. TypeOK
  <2>1. doc \in Document /\ stack \in Seq(Seq(Id)) /\ trail \in Seq(Document)
    BY <1>1, <1>2 DEF Init, Document
  <2>2. ptr \in 0 .. Len(stack) /\ Len(trail) = Len(stack) + 1
    BY <1>2 DEF Init
  <2>3. macro \in [state : {"none", "building", "freed"}, commands : Seq(Id)]
    BY <1>1 DEF Init, NoMacro
  <2>4. created \in 0 .. MaxCommands /\ torn \in BOOLEAN /\ status \in {"ok", "undefined"}
    <3>1. created = 0 /\ torn = FALSE /\ status = "ok"
      BY DEF Init
    <3>2. torn \in BOOLEAN /\ status \in {"ok", "undefined"}
      BY <3>1, Zenon
    <3> QED BY <3>1, <3>2, MaxCommandsAssumption
  <2> QED BY <2>1, <2>2, <2>3, <2>4 DEF TypeOK
<1>4. EntriesConnect /\ DocumentFollowsStack
  <2>1. trail[ptr + 1] \o macro.commands = <<>>
    BY <1>1, <1>2, ConcatEmptySeq DEF Init, NoMacro
  <2> QED BY <1>2, <2>1 DEF Init, EntriesConnect, DocumentFollowsStack, NoMacro
<1> QED BY <1>3, <1>4 DEF Inv

\* An entry e that leads from the current document to the new one is pushed.
LEMMA PushPreserves ==
  ASSUME Inv, NEW e \in Seq(Id), NEW d \in Document, Push(e, d), d = trail[ptr + 1] \o e,
         doc' = d, macro' = NoMacro, created' \in 0 .. MaxCommands,
         UNCHANGED <<torn, status>>
  PROVE  Inv'
<1>1. /\ stack' \in Seq(Seq(Id)) /\ trail' \in Seq(Document)
      /\ Len(trail') = Len(stack') + 1 /\ ptr' \in 0 .. Len(stack')
      /\ trail'[ptr' + 1] = d
      /\ \A i \in 1 .. Len(stack') : trail'[i + 1] = trail'[i] \o stack'[i]
  BY PushConnects DEF Inv
<1>2. <<>> \in Seq(Id) /\ d \o <<>> = d
  BY EmptySeq, ConcatEmptySeq DEF Document
<1>3. TypeOK'
  BY <1>1, <1>2 DEF Inv, TypeOK, NoMacro
<1>4. EntriesConnect' /\ DocumentFollowsStack'
  BY <1>1, <1>2 DEF EntriesConnect, DocumentFollowsStack, NoMacro
<1> QED BY <1>3, <1>4 DEF Inv

LEMMA InvDo == Inv /\ Do => Inv'
<1> SUFFICES ASSUME Inv, Do PROVE Inv'
  OBVIOUS
<1>1. created' \in 0 .. MaxCommands /\ created' \in Id
  BY MaxCommandsAssumption DEF Do, Create, Inv, TypeOK, Id
<1>2. <<created'>> \in Seq(Id)
  BY <1>1
<1>3. macro = NoMacro
  BY DEF Do, Idle, Inv, TypeOK, EntriesConnect, NoMacro
<1>4. doc = trail[ptr + 1]
  <2>1. trail[ptr + 1] \o <<>> = trail[ptr + 1]
    BY Standing, ConcatEmptySeq DEF Document
  <2> QED BY <1>3, <2>1 DEF Inv, DocumentFollowsStack, Sound, NoMacro, Do, Idle, Followed
<1>5. created' \in Nat
  BY <1>1 DEF Id
<1>6. doc' = trail[ptr + 1] \o <<created'>> /\ doc' \in Document
  BY <1>4, <1>5, AppendIsConcat, AppendProperties, Standing DEF Do, Document
<1>7. Push(<<created'>>, doc')
  BY DEF Do
<1> QED BY <1>1, <1>2, <1>3, <1>6, <1>7, PushPreserves DEF Do

\* A step that leaves the entries alone.
LEMMA EntriesKept ==
  ASSUME Inv, UNCHANGED <<stack, trail>>,
         doc' \in Document, ptr' \in 0 .. Len(stack), created' \in 0 .. MaxCommands,
         macro' \in [state : {"none", "building", "freed"}, commands : Seq(Id)],
         macro'.state # "building" => macro'.commands = <<>>,
         torn' \in BOOLEAN, status' \in {"ok", "undefined"},
         DocumentFollowsStack'
  PROVE  Inv'
BY DEF Inv, TypeOK, EntriesConnect

\* What the document of a sound stack is, in a macro and outside one.
LEMMA DocumentIs ==
  ASSUME Inv
  PROVE  /\ Idle => doc = trail[ptr + 1] /\ macro = NoMacro
         /\ Building => doc = trail[ptr + 1] \o macro.commands
<1>1. macro.state = "none" => macro = NoMacro
  BY DEF Inv, TypeOK, EntriesConnect, NoMacro
<1>2. trail[ptr + 1] \o <<>> = trail[ptr + 1]
  BY Standing, ConcatEmptySeq DEF Document
<1>3. Idle \/ Building => doc = trail[ptr + 1] \o macro.commands
  BY DEF Inv, DocumentFollowsStack, Sound, Idle, Building, Followed
<1>4. Idle => macro = NoMacro
  BY <1>1 DEF Idle
<1>5. NoMacro.commands = <<>>
  BY DEF NoMacro
<1> QED BY <1>2, <1>3, <1>4, <1>5

LEMMA InvDoInMacro == Inv /\ DoInMacro => Inv'
<1> SUFFICES ASSUME Inv, DoInMacro PROVE Inv'
  OBVIOUS
<1>1. created' \in 0 .. MaxCommands /\ created' \in Id /\ created' \in Nat
  BY MaxCommandsAssumption DEF DoInMacro, Create, Inv, TypeOK, Id
<1>2. doc = trail[ptr + 1] \o macro.commands /\ macro.state = "building"
  BY DocumentIs DEF DoInMacro, Building
<1> DEFINE t == trail[ptr + 1]
           c == macro.commands
<1>3. t \in Seq(Nat) /\ c \in Seq(Nat) /\ c \in Seq(Id) /\ <<created'>> \in Seq(Nat)
  BY <1>1, Standing DEF Document
<1> DEFINE x == created'
<1>4. /\ Append(doc, x) = doc \o <<x>> /\ Append(c, x) = c \o <<x>>
      /\ Append(c, x) \in Seq(Id) /\ Append(doc, x) \in Seq(Nat)
  <2>1. doc \in Seq(Nat)
    BY DEF Inv, TypeOK, Document
  <2>2. x \in Nat /\ x \in Id /\ c \in Seq(Nat) /\ c \in Seq(Id)
    BY <1>1, <1>3
  <2> HIDE DEF x, c
  <2>3. Append(doc, x) = doc \o <<x>> /\ Append(c, x) = c \o <<x>>
    BY <2>1, <2>2, AppendIsConcat
  <2>4. Append(c, x) \in Seq(Id) /\ Append(doc, x) \in Seq(Nat)
    BY <2>1, <2>2, AppendProperties
  <2> QED BY <2>3, <2>4
<1>5. Append(doc, x) = t \o Append(c, x)
  <2>1. doc = t \o c
    BY <1>2
  <2> HIDE DEF t, c, x
  <2>2. (t \o c) \o <<x>> = t \o (c \o <<x>>)
    BY <1>3, ConcatAssociative DEF x
  <2> QED BY <1>4, <2>1, <2>2
<1>6. /\ macro' \in [state : {"none", "building", "freed"}, commands : Seq(Id)]
      /\ macro'.state = "building" /\ macro'.commands = Append(c, created')
  BY <1>2, <1>4 DEF DoInMacro, Inv, TypeOK
<1>7. DocumentFollowsStack'
  BY <1>5, <1>6 DEF DoInMacro, DocumentFollowsStack
<1>8. ptr' \in 0 .. Len(stack) /\ torn' \in BOOLEAN /\ status' \in {"ok", "undefined"}
  BY DEF DoInMacro, Inv, TypeOK
<1> QED BY <1>1, <1>4, <1>6, <1>7, <1>8, EntriesKept DEF DoInMacro, Document

LEMMA InvDoThrows == Inv /\ DoThrows => Inv'
<1> SUFFICES ASSUME Inv, DoThrows PROVE Inv'
  OBVIOUS
<1>1. created' \in 0 .. MaxCommands
  BY MaxCommandsAssumption DEF DoThrows, Create, Inv, TypeOK
<1> QED BY <1>1 DEF DoThrows, Inv, TypeOK, EntriesConnect, DocumentFollowsStack, Sound

LEMMA InvUndo == Inv /\ Undo => Inv'
<1> SUFFICES ASSUME Inv, Undo PROVE Inv'
  OBVIOUS
<1>1. doc = trail[ptr + 1] /\ macro = NoMacro
  BY DocumentIs DEF Undo
<1>2. ptr \in 1 .. Len(stack) /\ ptr' = ptr - 1 /\ ptr' \in 0 .. Len(stack) /\ ptr' + 1 = ptr
  BY Standing DEF Undo
<1>3. doc' = trail[ptr]
  <2>1. /\ trail[ptr] \in Seq(Nat) /\ stack[ptr] \in Seq(Nat)
        /\ trail[ptr + 1] = trail[ptr] \o stack[ptr]
    BY <1>2, Standing DEF Document
  <2> QED BY <1>1, <2>1, UnapplyAll DEF Undo
<1>4. trail[ptr] \in Document /\ trail[ptr] \o <<>> = trail[ptr]
  BY <1>2, Standing, ConcatEmptySeq DEF Document
<1>5. DocumentFollowsStack'
  BY <1>1, <1>2, <1>3, <1>4 DEF Undo, DocumentFollowsStack, NoMacro
<1> QED BY <1>1, <1>2, <1>3, <1>4, <1>5, EntriesKept DEF Undo, Inv, TypeOK, EntriesConnect

LEMMA InvRedo == Inv /\ Redo => Inv'
<1> SUFFICES ASSUME Inv, Redo PROVE Inv'
  OBVIOUS
<1>1. doc = trail[ptr + 1] /\ macro = NoMacro
  BY DocumentIs DEF Redo
<1>2. ptr + 1 \in 1 .. Len(stack) /\ ptr' = ptr + 1 /\ ptr' \in 0 .. Len(stack)
  BY Standing DEF Redo
<1>3. doc' = trail[ptr + 2]
  <2>1. /\ trail[ptr + 1] \in Seq(Nat) /\ stack[ptr + 1] \in Seq(Nat)
        /\ trail[ptr + 1 + 1] = trail[ptr + 1] \o stack[ptr + 1]
    BY <1>2, Standing DEF Document
  <2>2. ptr + 1 + 1 = ptr + 2
    BY Standing
  <2> QED BY <1>1, <2>1, <2>2, UnapplyNone DEF Redo
<1>4. trail[ptr + 2] \in Document /\ trail[ptr + 2] \o <<>> = trail[ptr + 2]
  <2>1. ptr + 1 + 1 = ptr + 2
    BY Standing
  <2> QED BY <1>2, <2>1, Standing, ConcatEmptySeq DEF Document
<1>5. ptr' + 1 = ptr + 2
  BY <1>2, Standing
<1>6. DocumentFollowsStack'
  BY <1>1, <1>3, <1>4, <1>5 DEF Redo, DocumentFollowsStack, NoMacro
<1> QED BY <1>1, <1>2, <1>3, <1>4, <1>6, EntriesKept DEF Redo, Inv, TypeOK, EntriesConnect

\* When the first command called throws nothing has changed; when a later one
\* does, the macro is torn.
LEMMA InvUndoThrows == Inv /\ UndoThrows => Inv'
<1> SUFFICES ASSUME Inv, UndoThrows PROVE Inv'
  OBVIOUS
<1>1. doc \in Seq(Nat) /\ ptr \in 1 .. Len(stack) /\ stack[ptr] \in Seq(Nat)
  <2>1. doc \in Seq(Nat)
    BY DEF Inv, TypeOK, Document
  <2>2. ptr \in 1 .. Len(stack)
    BY Standing DEF UndoThrows
  <2> QED BY <2>1, <2>2, Standing
<1>2. PICK n \in 0 .. Len(stack[ptr]) - 1 :
        doc' = Unapply(doc, stack[ptr], n) /\ torn' = (torn \/ n > 0)
  BY DEF UndoThrows
<1>3. n \in 0 .. Len(stack[ptr])
  BY <1>1, LenProperties
<1>4. doc' \in Document /\ torn' \in BOOLEAN
  BY <1>1, <1>2, <1>3, UnapplyType DEF Document, Inv, TypeOK
<1>5. n = 0 => doc' = doc
  BY <1>1, <1>2, UnapplyNone
<1>6. DocumentFollowsStack'
  <2>1. CASE n = 0
    BY <1>2, <1>5, <2>1 DEF UndoThrows, Inv, DocumentFollowsStack, Sound
  <2>2. CASE n > 0
    BY <1>2, <2>2 DEF DocumentFollowsStack, Sound
  <2> QED BY <2>1, <2>2
<1> QED BY <1>4, <1>6, EntriesKept DEF UndoThrows, Inv, TypeOK, EntriesConnect

LEMMA InvRedoThrows == Inv /\ RedoThrows => Inv'
<1> SUFFICES ASSUME Inv, RedoThrows PROVE Inv'
  OBVIOUS
<1>1. doc \in Seq(Nat) /\ ptr + 1 \in 1 .. Len(stack) /\ stack[ptr + 1] \in Seq(Nat)
  <2>1. doc \in Seq(Nat)
    BY DEF Inv, TypeOK, Document
  <2>2. ptr + 1 \in 1 .. Len(stack)
    BY Standing DEF RedoThrows
  <2> QED BY <2>1, <2>2, Standing
<1>2. PICK n \in 0 .. Len(stack[ptr + 1]) - 1 :
        doc' = Apply(doc, stack[ptr + 1], n) /\ torn' = (torn \/ n > 0)
  BY DEF RedoThrows
<1>3. n \in 0 .. Len(stack[ptr + 1])
  BY <1>1, LenProperties
<1>4. doc' \in Document /\ torn' \in BOOLEAN
  BY <1>1, <1>2, <1>3, UnapplyType DEF Document, Inv, TypeOK
<1>5. n = 0 => doc' = doc
  BY <1>1, <1>2, UnapplyNone
<1>6. DocumentFollowsStack'
  <2>1. CASE n = 0
    BY <1>2, <1>5, <2>1 DEF RedoThrows, Inv, DocumentFollowsStack, Sound
  <2>2. CASE n > 0
    BY <1>2, <2>2 DEF DocumentFollowsStack, Sound
  <2> QED BY <2>1, <2>2
<1> QED BY <1>4, <1>6, EntriesKept DEF RedoThrows, Inv, TypeOK, EntriesConnect

LEMMA InvBeginMacro == Inv /\ BeginMacro => Inv'
<1> SUFFICES ASSUME Inv, BeginMacro PROVE Inv'
  OBVIOUS
<1>1. macro = NoMacro /\ macro'.commands = <<>> /\ macro'.state = "building"
  BY DocumentIs DEF BeginMacro
<1>2. macro' \in [state : {"none", "building", "freed"}, commands : Seq(Id)]
  BY EmptySeq DEF BeginMacro
<1>3. DocumentFollowsStack'
  BY <1>1 DEF BeginMacro, Inv, DocumentFollowsStack, Sound, NoMacro
<1> QED BY <1>1, <1>2, <1>3, EntriesKept DEF BeginMacro, Inv, TypeOK

\* The macro that is discarded, and the entries are left alone.
LEMMA MacroGone ==
  NoMacro \in [state : {"none", "building", "freed"}, commands : Seq(Id)]
BY EmptySeq DEF NoMacro

LEMMA InvCommitMacro == Inv /\ CommitMacro => Inv'
<1> SUFFICES ASSUME Inv, CommitMacro PROVE Inv'
  OBVIOUS
<1>1. doc = trail[ptr + 1] \o macro.commands /\ doc \in Document
  BY DocumentIs DEF CommitMacro, Inv, TypeOK
<1>2. created \in 0 .. MaxCommands /\ macro' = NoMacro /\ doc' = doc
  BY DEF CommitMacro, Inv, TypeOK
<1>3. CASE macro.commands = <<>>
  <2>1. DocumentFollowsStack'
    <3>1. trail' = trail /\ ptr' = ptr /\ macro'.commands = macro.commands
      BY <1>2, <1>3 DEF CommitMacro, NoMacro
    <3>2. doc' = trail'[ptr' + 1] \o macro'.commands
      BY <1>1, <1>2, <3>1
    <3> QED BY <3>2 DEF DocumentFollowsStack
  <2> QED
    BY <1>2, <1>3, <2>1, MacroGone, EntriesKept DEF CommitMacro, Inv, TypeOK, NoMacro
<1>4. CASE macro.commands # <<>>
  <2>1. Push(macro.commands, doc) /\ macro.commands \in Seq(Id)
    BY <1>4, Standing DEF CommitMacro
  <2> QED BY <1>1, <1>2, <2>1, PushPreserves DEF CommitMacro
<1> QED BY <1>3, <1>4

LEMMA InvRollbackMacro == Inv /\ RollbackMacro => Inv'
<1> SUFFICES ASSUME Inv, RollbackMacro PROVE Inv'
  OBVIOUS
<1>1. /\ doc = trail[ptr + 1] \o macro.commands
      /\ trail[ptr + 1] \in Seq(Nat) /\ macro.commands \in Seq(Nat)
  BY DocumentIs, Standing DEF RollbackMacro, Document
<1>2. doc' = trail[ptr + 1] /\ macro' = NoMacro
  BY <1>1, UnapplyAll DEF RollbackMacro
<1>3. trail[ptr + 1] \o <<>> = trail[ptr + 1]
  BY <1>1, ConcatEmptySeq
<1>4. DocumentFollowsStack'
  <2>1. trail' = trail /\ ptr' = ptr /\ macro'.commands = <<>>
    BY <1>2 DEF RollbackMacro, NoMacro
  <2>2. doc' = trail'[ptr' + 1] \o macro'.commands
    BY <1>2, <1>3, <2>1
  <2> QED BY <2>2 DEF DocumentFollowsStack
<1> QED
  BY <1>1, <1>2, <1>4, MacroGone, EntriesKept
  DEF RollbackMacro, Inv, TypeOK, NoMacro, Document

LEMMA InvRollbackThrows == Inv /\ RollbackThrows => Inv'
<1> SUFFICES ASSUME Inv, RollbackThrows PROVE Inv'
  OBVIOUS
<1>1. doc \in Seq(Nat) /\ macro.commands \in Seq(Nat)
  <2>1. doc \in Seq(Nat)
    BY DEF Inv, TypeOK, Document
  <2> QED BY <2>1, Standing
<1>2. PICK n \in 0 .. Len(macro.commands) - 1 : doc' = Unapply(doc, macro.commands, n)
  BY DEF RollbackThrows
<1>3. n \in 0 .. Len(macro.commands)
  BY <1>1, LenProperties
<1>4. doc' \in Document
  BY <1>1, <1>2, <1>3, UnapplyType DEF Document
<1>5. DocumentFollowsStack'
  BY DEF RollbackThrows, DocumentFollowsStack, Sound
<1>6. torn' \in BOOLEAN
  BY DEF RollbackThrows
<1> QED
  BY <1>4, <1>5, <1>6, MacroGone, EntriesKept DEF RollbackThrows, Inv, TypeOK, NoMacro

\* Clear forgets every entry; the document stays.
LEMMA InvClear == Inv /\ Clear => Inv'
<1> SUFFICES ASSUME Inv, Clear PROVE Inv'
  OBVIOUS
<1>1. doc' \in Document /\ doc' = doc /\ trail' = <<doc>> /\ stack' = <<>> /\ ptr' = 0
  BY DEF Clear, Inv, TypeOK
<1>2. /\ trail' \in Seq(Document) /\ Len(trail') = 1 /\ trail'[1] = doc
      /\ stack' \in Seq(Seq(Id)) /\ Len(stack') = 0
  BY <1>1, EmptySeq
<1>4. macro' \in [state : {"none", "building", "freed"}, commands : Seq(Id)]
      /\ (macro'.state # "building" => macro'.commands = <<>>)
      /\ macro'.state # "building"
  <2>1. CASE macro.state = "none"
    BY <2>1 DEF Clear, Inv, TypeOK, EntriesConnect
  <2>2. CASE macro.state # "none"
    <3>1. macro' = [state |-> "freed", commands |-> <<>>]
      BY <2>2 DEF Clear
    <3> QED BY <3>1, EmptySeq
  <2> QED BY <2>1, <2>2
<1>5. TypeOK'
  BY <1>1, <1>2, <1>4 DEF Clear, Inv, TypeOK
<1>6. EntriesConnect'
  BY <1>2, <1>4 DEF EntriesConnect
<1>7. DocumentFollowsStack'
  <2>1. doc \o <<>> = doc
    BY <1>1, ConcatEmptySeq DEF Document
  <2>2. trail'[ptr' + 1] = doc /\ macro'.commands = <<>>
    BY <1>1, <1>2, <1>4
  <2>3. doc' = trail'[ptr' + 1] \o macro'.commands
    BY <1>1, <2>1, <2>2
  <2> QED BY <2>3 DEF DocumentFollowsStack
<1> QED BY <1>5, <1>6, <1>7 DEF Inv

LEMMA InvNext == Inv /\ [Next]_vars => Inv'
<1> SUFFICES ASSUME Inv, [Next]_vars PROVE Inv'
  OBVIOUS
<1>1. CASE UseFreedMacro
  BY <1>1 DEF UseFreedMacro, Inv, TypeOK, EntriesConnect, DocumentFollowsStack, Sound
<1>2. CASE UNCHANGED vars
  BY <1>2 DEF vars, Inv, TypeOK, EntriesConnect, DocumentFollowsStack, Sound
<1>3. CASE Do \/ DoInMacro \/ DoThrows
  BY <1>3, InvDo, InvDoInMacro, InvDoThrows
<1>4. CASE Undo \/ Redo \/ UndoThrows \/ RedoThrows
  BY <1>4, InvUndo, InvRedo, InvUndoThrows, InvRedoThrows
<1>5. CASE BeginMacro \/ CommitMacro \/ RollbackMacro \/ RollbackThrows
  BY <1>5, InvBeginMacro, InvCommitMacro, InvRollbackMacro, InvRollbackThrows
<1>6. CASE Clear
  BY <1>6, InvClear
<1> QED BY <1>1, <1>2, <1>3, <1>4, <1>5, <1>6 DEF Next, Stopped

LEMMA Invariance == Spec => []Inv
BY InvInit, InvNext, PTL DEF Spec

\* UndoStack is type correct however many commands the application creates.
THEOREM TypeCorrect == Spec => []TypeOK
<1>1. Inv => TypeOK
  BY DEF Inv
<1> QED BY <1>1, Invariance, PTL

\* Whatever is done, undone, redone, gathered in a macro, rolled back or thrown,
\* the document is the one the stack stands at, plus the macro being built.
THEOREM UndoIsFaithful == Spec => []DocumentFollowsStack
<1>1. Inv => DocumentFollowsStack
  BY DEF Inv
<1> QED BY <1>1, Invariance, PTL

---------------------------------------------------------------------------
(* The stack implements the history of documents *)

Past   == SubSeq(trail, 1, ptr)
Future == SubSeq(trail, ptr + 2, Len(trail))

\* Where the stack stands in its trail.
LEMMA TrailAt ==
  ASSUME Inv
  PROVE  /\ trail \in Seq(Document) /\ Len(trail) = Len(stack) + 1
         /\ Len(stack) \in Nat /\ ptr \in 0 .. Len(stack)
         /\ ptr \in 0 .. Len(trail) /\ ptr + 1 \in 1 .. Len(trail)
         /\ trail[ptr + 1] \in Document
BY Standing DEF Inv, TypeOK

\* Pushing makes the document that the stack stood at the last of the past, and there is
\* no future.
LEMMA PushIsEdit ==
  ASSUME Inv, NEW e, NEW d \in Document, Push(e, d)
  PROVE  Past' = Append(Past, trail[ptr + 1]) /\ Future' = <<>>
<1>1. /\ trail \in Seq(Document) /\ Len(trail) \in Nat /\ ptr \in Nat
      /\ ptr + 1 \in 1 .. Len(trail) /\ trail[ptr + 1] \in Document
  BY TrailAt
<1>2. /\ trail' \in Seq(Document) /\ Len(trail') = ptr + 1 + 1 /\ ptr' = ptr + 1
      /\ \A i \in 1 .. ptr + 1 : trail'[i] = trail[i]
  BY <1>1, TruncateAppend DEF Push
<1>3. Future' = <<>>
  BY <1>1, <1>2, SubSeqEmpty DEF Future
<1>4. Past' = SubSeq(trail, 1, ptr + 1)
  <2>1. \A i \in 1 .. ptr + 1 : trail[i] \in Document /\ trail'[i] \in Document
    BY <1>1, <1>2, ElementOfSeq
  <2>2. /\ SubSeq(trail', 1, ptr + 1) \in Seq(Document)
        /\ Len(SubSeq(trail', 1, ptr + 1)) = ptr + 1
        /\ \A i \in 1 .. ptr + 1 : SubSeq(trail', 1, ptr + 1)[i] = trail'[i]
    BY <1>1, <2>1, SubSeqProperties
  <2>3. /\ SubSeq(trail, 1, ptr + 1) \in Seq(Document)
        /\ Len(SubSeq(trail, 1, ptr + 1)) = ptr + 1
        /\ \A i \in 1 .. ptr + 1 : SubSeq(trail, 1, ptr + 1)[i] = trail[i]
    BY <1>1, <2>1, SubSeqProperties
  <2>4. SubSeq(trail', 1, ptr + 1) = SubSeq(trail, 1, ptr + 1)
    BY <1>2, <2>2, <2>3, SeqEqual
  <2> QED
    BY <1>2, <2>4 DEF Past
<1>5. SubSeq(trail, 1, ptr + 1) = Append(Past, trail[ptr + 1])
  <2>1. SubSeq(trail, 1, ptr + 1) = SubSeq(trail, 1, ptr + 1 - 1) \o <<trail[ptr + 1]>>
    BY <1>1, SubSeqRecursiveSecond
  <2>2. ptr + 1 - 1 = ptr
    BY <1>1
  <2>3. Past \in Seq(Document)
    <3>1. \A i \in 1 .. ptr : trail[i] \in Document
      BY <1>1, ElementOfSeq
    <3> QED
      BY <1>1, <3>1, SubSeqProperties DEF Past
  <2> QED
    BY <1>1, <2>1, <2>2, <2>3, AppendIsConcat DEF Past
<1> QED
  BY <1>3, <1>4, <1>5

\* Going back takes the last document from the past and puts the current one before the future.
LEMMA BackInTrail ==
  ASSUME Inv, ptr > 0, ptr' = ptr - 1, trail' = trail
  PROVE  /\ Past # <<>> /\ Past[Len(Past)] = trail[ptr]
         /\ Past' = SubSeq(Past, 1, Len(Past) - 1)
         /\ Future' = <<trail[ptr + 1]>> \o Future
<1>1. /\ trail \in Seq(Document) /\ Len(trail) \in Nat /\ ptr \in 1 .. Len(trail)
      /\ ptr + 1 \in 1 .. Len(trail)
  BY TrailAt
<1>2. Past \in Seq(Document) /\ Len(Past) = ptr /\ \A i \in 1 .. ptr : Past[i] = trail[i]
  <2>1. \A i \in 1 .. ptr : trail[i] \in Document
    BY <1>1, ElementOfSeq
  <2> QED
    BY <1>1, <2>1, SubSeqProperties DEF Past
<1>3. Past' = SubSeq(Past, 1, Len(Past) - 1)
  <2>1. CASE ptr = 1
    BY <1>2, <2>1, SubSeqEmpty DEF Past
  <2>2. CASE ptr > 1
    <3>1. ptr - 1 \in 1 .. ptr - 1 + 1 /\ 1 \in 1 .. ptr - 1 + 1 /\ 1 \in 1 .. Len(trail)
      BY <1>1, <2>2
    <3>2. SubSeq(SubSeq(trail, 1, ptr), 1, ptr - 1) = SubSeq(trail, 1 + 1 - 1, 1 + (ptr - 1) - 1)
      BY <1>1, <3>1, SubSeqOfSubSeq
    <3>3. 1 + 1 - 1 = 1 /\ 1 + (ptr - 1) - 1 = ptr - 1
      BY <1>1
    <3> QED
      BY <1>2, <3>2, <3>3 DEF Past
  <2> QED
    BY <1>1, <2>1, <2>2
<1>4. Future' = <<trail[ptr + 1]>> \o Future
  <2>1. Len(trail) \in ptr + 1 .. Len(trail) /\ ptr - 1 + 2 = ptr + 1 /\ ptr + 1 + 1 = ptr + 2
    BY <1>1
  <2>2. SubSeq(trail, ptr + 1, Len(trail)) =
          <<trail[ptr + 1]>> \o SubSeq(trail, ptr + 1 + 1, Len(trail))
    BY <1>1, <2>1, SubSeqRecursiveFirst
  <2> QED
    BY <2>1, <2>2 DEF Future
<1>5. Past # <<>> /\ Past[Len(Past)] = trail[ptr]
  BY <1>1, <1>2
<1> QED
  BY <1>3, <1>4, <1>5

\* Going forward takes the first document from the future.
LEMMA ForwardInTrail ==
  ASSUME Inv, ptr < Len(stack), ptr' = ptr + 1, trail' = trail
  PROVE  /\ Future # <<>> /\ Head(Future) = trail[ptr + 2]
         /\ Past' = Append(Past, trail[ptr + 1])
         /\ Future' = Tail(Future)
<1>1. /\ trail \in Seq(Document) /\ Len(trail) \in Nat /\ ptr \in Nat
      /\ ptr + 1 \in 1 .. Len(trail) /\ ptr + 2 \in 1 .. Len(trail)
      /\ trail[ptr + 1] \in Document
  BY TrailAt
<1>2. Head(Future) = trail[ptr + 2] /\ Tail(Future) = SubSeq(trail, ptr + 3, Len(trail))
  <2>1. Len(trail) \in ptr + 2 .. Len(trail) /\ ptr + 2 + 1 = ptr + 3
    BY <1>1
  <2> QED
    BY <1>1, <2>1, HeadTailOfSubSeq DEF Future
<1>3. Future # <<>>
  <2>1. \A i \in ptr + 2 .. Len(trail) : trail[i] \in Document
    BY <1>1, ElementOfSeq
  <2>2. Len(Future) = Len(trail) - (ptr + 2) + 1
    BY <1>1, <2>1, SubSeqProperties DEF Future
  <2> QED
    BY <1>1, <2>2
<1>4. Future' = Tail(Future)
  <2>1. ptr + 1 + 2 = ptr + 3
    BY <1>1
  <2> QED
    BY <1>2, <2>1 DEF Future
<1>5. Past' = Append(Past, trail[ptr + 1])
  <2>1. SubSeq(trail, 1, ptr + 1) = SubSeq(trail, 1, ptr + 1 - 1) \o <<trail[ptr + 1]>>
    BY <1>1, SubSeqRecursiveSecond
  <2>2. ptr + 1 - 1 = ptr
    BY <1>1
  <2>3. Past \in Seq(Document)
    <3>1. \A i \in 1 .. ptr : trail[i] \in Document
      BY <1>1, ElementOfSeq
    <3> QED
      BY <1>1, <3>1, SubSeqProperties DEF Past
  <2> QED
    BY <1>1, <2>1, <2>2, <2>3, AppendIsConcat DEF Past
<1> QED
  BY <1>2, <1>3, <1>4, <1>5

Mark == IF macro.state = "building" THEN <<trail[ptr + 1]>> ELSE <<>>

\* The promise is kept by a step from one sound state to another.
LEMMA SoundSteps ==
  ASSUME Sound, Sound'
  PROVE  History!Kept
BY Zenon DEF History!Kept

\* While nothing is torn and no freed macro is used, the promise is kept.
LEMMA SoundIs ==
  /\ Idle => Sound /\ Mark = <<>>
  /\ Building => Sound /\ Mark = <<trail[ptr + 1]>> /\ Mark # <<>> /\ Head(Mark) = trail[ptr + 1]
BY DEF Idle, Building, Followed, Sound, Mark

LEMMA StartsAsHistory == Init => History!Init
<1> SUFFICES ASSUME Init PROVE History!Init
  OBVIOUS
<1>1. doc = <<>> /\ trail = <<<<>>>> /\ ptr = 0 /\ macro.state = "none" /\ Sound
  BY DEF Init, NoMacro, Sound
<1>2. Len(trail) = 1 /\ doc \in Document
  BY <1>1, EmptySeq DEF Document
<1>3. Past = <<>> /\ Future = <<>> /\ Mark = <<>>
  BY <1>1, <1>2, SubSeqEmpty DEF Past, Future, Mark
<1>4. (~Sound) = FALSE
  BY <1>1
<1> QED
  BY <1>2, <1>3, <1>4 DEF History!Init, Past, Future, Mark

\* What a step that edits, undoes and so on does to the history it implements.
LEMMA StepIsHistory == Inv /\ Inv' /\ [Next]_vars => [History!Next]_(History!vars)
<1> SUFFICES ASSUME Inv, Inv', [Next]_vars PROVE [History!Next]_(History!vars)
  OBVIOUS
<1> USE DEF History!Next
<1>0. doc \in Document /\ doc' \in Document /\ trail[ptr + 1] \in Document
  BY TrailAt DEF Inv, TypeOK
<1>1. ASSUME ~Sound' PROVE [History!Next]_(History!vars)
  <2>1. (~Sound)' = TRUE
    BY <1>1, Zenon
  <2>2. History!Break
    BY <2>1 DEF History!Break
  <2> QED
    BY <2>2
<1>2. CASE UNCHANGED <<doc, stack, ptr, macro, trail, torn, status>>
  BY <1>2 DEF History!vars, Sound
<1>3. CASE Do
  <2>1. Idle /\ Push(<<created'>>, doc') /\ doc = trail[ptr + 1] /\ Sound /\ Sound' /\ Mark = <<>>
    BY <1>3, DocumentIs, SoundIs DEF Do, Idle, Followed, Sound
  <2>2. Past' = Append(Past, doc) /\ Future' = <<>> /\ Mark' = <<>>
    BY <1>0, <1>3, <2>1, PushIsEdit DEF Do, Mark, Idle
  <2>3. History!Edit
    BY <1>0, <2>1, <2>2, SoundSteps DEF History!Edit, Past, Future, Mark
  <2> QED
    BY <2>3
<1>4. CASE DoInMacro
  <2>1. Building /\ Sound /\ Sound' /\ Mark # <<>> /\ Mark' = Mark /\ Past' = Past /\ Future' = Future
    BY <1>4, SoundIs DEF DoInMacro, Building, Followed, Sound, Mark, Past, Future
  <2>2. History!EditInMacro
    BY <1>0, <2>1, SoundSteps DEF History!EditInMacro, Past, Future, Mark
  <2> QED
    BY <2>2
<1>5. CASE Undo
  <2>1. Idle /\ doc = trail[ptr + 1] /\ Sound /\ Sound' /\ Mark = <<>> /\ Mark' = <<>>
    BY <1>5, DocumentIs, SoundIs DEF Undo, Idle, Followed, Sound, Mark
  <2>2. ptr > 0 /\ ptr' = ptr - 1 /\ trail' = trail /\ macro' = macro
    BY <1>5 DEF Undo
  <2>3. doc' = trail[ptr]
    <3>1. macro = NoMacro /\ ptr' + 1 = ptr
      BY <2>1, <2>2, DocumentIs, TrailAt
    <3>2. doc' = trail[ptr] \o <<>>
      BY <2>1, <2>2, <3>1 DEF Inv, DocumentFollowsStack, NoMacro
    <3>3. trail[ptr] \in Document
      BY <2>2, TrailAt, ElementOfSeq
    <3> QED
      BY <3>2, <3>3, ConcatEmptySeq DEF Document
  <2>4. /\ Past # <<>> /\ doc' = Past[Len(Past)] /\ Past' = SubSeq(Past, 1, Len(Past) - 1)
        /\ Future' = <<doc>> \o Future
    BY <2>1, <2>2, <2>3, BackInTrail
  <2>5. History!Undo
    BY <2>1, <2>4, SoundSteps DEF History!Undo, Past, Future, Mark
  <2> QED
    BY <2>5
<1>6. CASE Redo
  <2>1. Idle /\ doc = trail[ptr + 1] /\ Sound /\ Sound' /\ Mark = <<>> /\ Mark' = <<>>
    BY <1>6, DocumentIs, SoundIs DEF Redo, Idle, Followed, Sound, Mark
  <2>2. ptr < Len(stack) /\ ptr' = ptr + 1 /\ trail' = trail /\ macro' = macro
    BY <1>6 DEF Redo
  <2>3. doc' = trail[ptr + 2]
    <3>1. macro = NoMacro /\ ptr' + 1 = ptr + 2
      BY <2>1, <2>2, DocumentIs, TrailAt
    <3>2. doc' = trail[ptr + 2] \o <<>>
      BY <2>1, <2>2, <3>1 DEF Inv, DocumentFollowsStack, NoMacro
    <3>3. ptr + 2 \in 1 .. Len(trail)
      BY <2>2, TrailAt
    <3>4. trail[ptr + 2] \in Document
      BY <3>3, TrailAt, ElementOfSeq
    <3> QED
      BY <3>2, <3>4, ConcatEmptySeq DEF Document
  <2>4. /\ Future # <<>> /\ doc' = Head(Future) /\ Past' = Append(Past, doc)
        /\ Future' = Tail(Future)
    BY <2>1, <2>2, <2>3, ForwardInTrail
  <2>5. History!Redo
    BY <2>1, <2>4, SoundSteps DEF History!Redo, Past, Future, Mark
  <2> QED
    BY <2>5
<1>7. CASE BeginMacro
  <2>1. Idle /\ doc = trail[ptr + 1] /\ Sound /\ Mark = <<>>
    BY <1>7, DocumentIs, SoundIs DEF BeginMacro
  <2>2. Sound' /\ Mark' = <<doc>> /\ Past' = Past /\ Future' = Future /\ doc' = doc
    BY <1>7, <2>1 DEF BeginMacro, Sound, Mark, Past, Future
  <2>3. History!BeginMacro
    BY <2>1, <2>2, SoundSteps DEF History!BeginMacro, Past, Future, Mark
  <2> QED
    BY <2>3
<1>8. CASE CommitMacro
  <2>1. /\ Building /\ doc = trail[ptr + 1] \o macro.commands /\ Sound
        /\ Mark # <<>> /\ Head(Mark) = trail[ptr + 1]
    BY <1>8, DocumentIs, SoundIs DEF CommitMacro
  <2>2. Sound' /\ Mark' = <<>> /\ doc' = doc
    BY <1>8, <2>1 DEF CommitMacro, Sound, Mark, NoMacro
  <2>3. CASE macro.commands = <<>>
    <3>1. doc = trail[ptr + 1]
      BY <1>0, <2>1, <2>3, ConcatEmptySeq DEF Document
    <3>2. Past' = Past /\ Future' = Future
      BY <1>8, <2>3 DEF CommitMacro, Past, Future
    <3>3. History!RollbackMacro
      BY <2>1, <2>2, <3>1, <3>2, SoundSteps DEF History!RollbackMacro, Past, Future, Mark
    <3> QED
      BY <3>3
  <2>4. CASE macro.commands # <<>>
    <3>1. Past' = Append(Past, trail[ptr + 1]) /\ Future' = <<>>
      BY <1>0, <1>8, <2>4, PushIsEdit DEF CommitMacro
    <3>2. History!CommitMacro
      BY <2>1, <2>2, <3>1, SoundSteps DEF History!CommitMacro, Past, Future, Mark
    <3> QED
      BY <3>2
  <2> QED
    BY <2>3, <2>4
<1>9. CASE RollbackMacro
  <2>1. Building /\ Sound /\ Mark # <<>> /\ Head(Mark) = trail[ptr + 1]
    BY <1>9, SoundIs DEF RollbackMacro
  <2>2. Sound' /\ Mark' = <<>> /\ Past' = Past /\ Future' = Future
    BY <1>9, <2>1 DEF RollbackMacro, Sound, Mark, NoMacro, Past, Future
  <2>3. doc' = trail[ptr + 1]
    <3>1. doc' = trail[ptr + 1] \o <<>>
      BY <1>9, <2>2 DEF RollbackMacro, Inv, DocumentFollowsStack, NoMacro
    <3> QED
      BY <1>0, <3>1, ConcatEmptySeq DEF Document
  <2>4. History!RollbackMacro
    BY <2>1, <2>2, <2>3, SoundSteps DEF History!RollbackMacro, Past, Future, Mark
  <2> QED
    BY <2>4
<1>10. CASE Clear /\ Idle
  <2>1. Sound /\ Mark = <<>> /\ Sound' /\ Mark' = <<>> /\ doc' = doc
    BY <1>10, SoundIs DEF Clear, Idle, Followed, Sound, Mark
  <2>2. trail' = <<doc>> /\ ptr' = 0
    BY <1>10 DEF Clear
  <2>3. Past' = <<>> /\ Future' = <<>>
    BY <2>2, SubSeqEmpty DEF Past, Future
  <2>4. History!Forget
    BY <2>1, <2>3, SoundSteps DEF History!Forget, Past, Future, Mark
  <2> QED
    BY <2>4
<1>11. CASE Clear /\ Building
  <2>1. macro'.state = "freed"
    BY <1>11 DEF Clear, Building
  <2> QED
    BY <1>1, <2>1 DEF Sound
<1>12. CASE UndoThrows
  <2>1. PICK n \in 0 .. Len(stack[ptr]) - 1 :
          doc' = Unapply(doc, stack[ptr], n) /\ torn' = (torn \/ n > 0)
    BY <1>12 DEF UndoThrows
  <2>2. CASE n = 0
    <3>1. ptr \in 1 .. Len(stack) /\ doc \in Seq(Nat)
      BY <1>0, <1>12, Standing DEF UndoThrows, Document
    <3>2. doc' = doc
      BY <2>1, <2>2, <3>1, UnapplyNone, Standing
    <3>3. torn' <=> torn
      <4>1. ~(n > 0)
        BY <2>2
      <4> QED
        BY <2>1, <4>1, Zenon
    <3>4. Sound' <=> Sound
      BY <1>12, <3>3 DEF UndoThrows, Sound
    <3>5. (~Sound)' = (~Sound)
      BY <3>4, Zenon
    <3>6. Past' = Past /\ Future' = Future /\ Mark' = Mark
      BY <1>12 DEF UndoThrows, Past, Future, Mark
    <3> QED
      BY <3>2, <3>5, <3>6 DEF History!vars, Past, Future, Mark
  <2>3. CASE n > 0
    BY <1>1, <2>1, <2>3 DEF Sound
  <2> QED
    BY <2>1, <2>2, <2>3
<1>13. CASE RedoThrows
  <2>1. PICK n \in 0 .. Len(stack[ptr + 1]) - 1 :
          doc' = Apply(doc, stack[ptr + 1], n) /\ torn' = (torn \/ n > 0)
    BY <1>13 DEF RedoThrows
  <2>2. CASE n = 0
    <3>1. ptr + 1 \in 1 .. Len(stack) /\ doc \in Seq(Nat)
      BY <1>0, <1>13, Standing DEF RedoThrows, Document
    <3>2. doc' = doc
      BY <2>1, <2>2, <3>1, UnapplyNone, Standing
    <3>3. torn' <=> torn
      <4>1. ~(n > 0)
        BY <2>2
      <4> QED
        BY <2>1, <4>1, Zenon
    <3>4. Sound' <=> Sound
      BY <1>13, <3>3 DEF RedoThrows, Sound
    <3>5. (~Sound)' = (~Sound)
      BY <3>4, Zenon
    <3>6. Past' = Past /\ Future' = Future /\ Mark' = Mark
      BY <1>13 DEF RedoThrows, Past, Future, Mark
    <3> QED
      BY <3>2, <3>5, <3>6 DEF History!vars, Past, Future, Mark
  <2>3. CASE n > 0
    BY <1>1, <2>1, <2>3 DEF Sound
  <2> QED
    BY <2>1, <2>2, <2>3
<1>14. CASE RollbackThrows \/ UseFreedMacro
  BY <1>1, <1>14 DEF RollbackThrows, UseFreedMacro, Sound
<1>15. CASE DoThrows \/ Stopped \/ UNCHANGED vars
  BY <1>2, <1>15 DEF DoThrows, Stopped, vars
<1> QED
  BY <1>3, <1>4, <1>5, <1>6, <1>7, <1>8, <1>9, <1>10, <1>11, <1>12, <1>13, <1>14, <1>15
  DEF Next, Clear

\* Through the macros, the exceptions and the entries that are cut off, the stack is the
\* history of documents that EditHistory describes, until something is torn or freed.
THEOREM StackIsHistory == Spec => ImplementsHistory
BY StartsAsHistory, StepIsHistory, Invariance, PTL DEF Spec, ImplementsHistory, History!Spec

---------------------------------------------------------------------------
(* Regions.  The numbers of a range say all there is to say about it: an even number 2v   *)
(* stands for a cut below v, an odd one 2v + 1 for a cut above v.                         *)

---------------------------------------------------------------------------
(* Ranges as numbers *)

LowCut(b)  == IF b.null THEN 0 ELSE 2 * b.value + (IF b.included THEN 0 ELSE 1)
HighCut(b) == IF b.null THEN 0 ELSE 2 * b.value + (IF b.included THEN 1 ELSE 0)

\* A range begins at Low(r), and ends before High(r); 0 is for no bound.
Low(r)  == LowCut(r.lower)
High(r) == HighCut(r.upper)

AnyBound    == Bound \cup {NullBound}
RangeRecord == [lower : AnyBound, upper : AnyBound, null : {FALSE}]

Interval(r) == /\ r \in RangeRecord
               /\ High(r) = 0 \/ Low(r) < High(r)
               /\ Low(r) # 0 \/ High(r) # 0

\* What is left of a bounded range when its complement is taken.
Hole(r) == r \in RangeRecord /\ Low(r) # 0 /\ High(r) # 0 /\ High(r) < Low(r)

\* A bound, or none.
LEMMA BoundFacts ==
  ASSUME NEW b \in AnyBound
  PROVE  /\ LowCut(b) \in Nat /\ HighCut(b) \in Nat
         /\ b.null => b = NullBound /\ b.value = 0 /\ LowCut(b) = 0 /\ HighCut(b) = 0
         /\ ~b.null => /\ b \in Bound /\ b.value \in Values /\ b.value \in Nat /\ b.value > 0
                       /\ (b.included = TRUE \/ b.included = FALSE)
                       /\ LowCut(b) > 1 /\ HighCut(b) > 1
         /\ (b.null = TRUE \/ b.null = FALSE)
<1>1. CASE b = NullBound
  BY <1>1 DEF NullBound, NullValue, LowCut, HighCut
<1>2. CASE b \in Bound
  <2>1. b.null = FALSE /\ b.value \in Values /\ b.included \in BOOLEAN
    BY <1>2 DEF Bound
  <2>2. b.value \in Nat /\ b.value > 0
    <3>1. \A v \in Values : v \in Nat /\ v > 0
      BY ValuesAssumption
    <3>2. b.value \in Values
      BY <2>1
    <3> QED
      BY <3>1, <3>2
  <2>3. b.included = TRUE \/ b.included = FALSE
    BY <2>1, Zenon
  <2>4. /\ LowCut(b) = 2 * b.value + (IF b.included THEN 0 ELSE 1)
        /\ HighCut(b) = 2 * b.value + (IF b.included THEN 1 ELSE 0)
    BY <2>1 DEF LowCut, HighCut
  <2>5. LowCut(b) \in Nat /\ HighCut(b) \in Nat /\ LowCut(b) > 1 /\ HighCut(b) > 1
    BY <2>2, <2>3, <2>4
  <2> QED
    BY <1>2, <2>1, <2>2, <2>3, <2>5
<1> QED
  BY <1>1, <1>2 DEF AnyBound

\* Comparing two lower bounds, two upper bounds, or one with the other.
LEMMA CompareFacts ==
  ASSUME NEW b \in AnyBound, NEW c \in AnyBound
  PROVE  /\ Compare(b, c, "lower") = IF LowCut(b) < LowCut(c) THEN -1 ELSE IF LowCut(b) > LowCut(c) THEN 1 ELSE 0
         /\ Compare(b, c, "upper") = IF HighCut(b) < HighCut(c) THEN -1 ELSE IF HighCut(b) > HighCut(c) THEN 1 ELSE 0
         /\ Compare(b, c, "both") <= 0 <=> LowCut(b) < HighCut(c) \/ (LowCut(b) = 0 /\ HighCut(c) = 0)
<1>1. CASE b.null /\ c.null
  <2>1. b = NullBound /\ c = NullBound
    BY <1>1, BoundFacts
  <2> QED
    BY <2>1 DEF NullBound, LowCut, HighCut, Compare, NullValue
<1>2. CASE b.null /\ ~c.null
  <2>1. b.value = 0 /\ c.value > 0 /\ c.value \in Nat
    BY <1>2, BoundFacts
  <2>2. LowCut(b) = 0 /\ HighCut(b) = 0 /\ LowCut(c) \in Nat /\ HighCut(c) \in Nat /\ LowCut(c) > 1 /\ HighCut(c) > 1
    BY <1>2, BoundFacts
  <2>3. Compare(b, c, "lower") = -1 /\ Compare(b, c, "upper") = -1 /\ Compare(b, c, "both") = -1
    BY <2>1 DEF Compare
  <2> QED
    BY <2>2, <2>3
<1>3. CASE ~b.null /\ c.null
  <2>1. c.value = 0 /\ b.value > 0 /\ b.value \in Nat
    BY <1>3, BoundFacts
  <2>2. LowCut(c) = 0 /\ HighCut(c) = 0 /\ LowCut(b) \in Nat /\ HighCut(b) \in Nat /\ LowCut(b) > 1 /\ HighCut(b) > 1
    BY <1>3, BoundFacts
  <2>3. Compare(b, c, "lower") = 1 /\ Compare(b, c, "upper") = 1 /\ Compare(b, c, "both") = 1
    BY <2>1 DEF Compare
  <2> QED
    BY <2>2, <2>3
<1>4. CASE ~b.null /\ ~c.null
  <2>1. /\ b.value \in Nat /\ (b.included = TRUE \/ b.included = FALSE)
        /\ c.value \in Nat /\ (c.included = TRUE \/ c.included = FALSE)
        /\ b.value > 0 /\ c.value > 0
    BY <1>4, BoundFacts
  <2>2. /\ LowCut(b) = 2 * b.value + (IF b.included THEN 0 ELSE 1)
        /\ HighCut(b) = 2 * b.value + (IF b.included THEN 1 ELSE 0)
        /\ LowCut(c) = 2 * c.value + (IF c.included THEN 0 ELSE 1)
        /\ HighCut(c) = 2 * c.value + (IF c.included THEN 1 ELSE 0)
    BY <1>4 DEF LowCut, HighCut
  <2>3. CASE b.value < c.value
    BY <2>1, <2>2, <2>3 DEF Compare
  <2>4. CASE b.value > c.value
    <3>1. \A k : Compare(b, c, k) = 1
      BY <2>1, <2>4 DEF Compare
    <3> QED
      BY <2>1, <2>2, <2>4, <3>1
  <2>5. CASE b.value = c.value /\ b.included # c.included
    <3>1. /\ Compare(b, c, "lower") = IF b.included THEN -1 ELSE 1
          /\ Compare(b, c, "upper") = IF b.included THEN 1 ELSE -1
          /\ Compare(b, c, "both") = 1
      BY <2>1, <2>5 DEF Compare
    <3>2. CASE b.included = TRUE /\ c.included = FALSE
      BY <2>1, <2>2, <2>5, <3>1, <3>2
    <3>3. CASE b.included = FALSE /\ c.included = TRUE
      BY <2>1, <2>2, <2>5, <3>1, <3>3
    <3> QED
      BY <2>1, <2>5, <3>2, <3>3
  <2>6. CASE b.value = c.value /\ b.included = c.included
    <3>1. /\ Compare(b, c, "lower") = 0 /\ Compare(b, c, "upper") = 0
          /\ Compare(b, c, "both") = IF ~b.included THEN 1 ELSE 0
      BY <2>1, <2>6 DEF Compare
    <3> QED
      BY <2>1, <2>2, <2>6, <3>1
  <2> QED
    BY <2>1, <2>3, <2>4, <2>5, <2>6
<1> QED
  BY <1>1, <1>2, <1>3, <1>4, BoundFacts

\* The numbers of a range, which are 0 for a bound it has not.
LEMMA RangeNumbers ==
  ASSUME NEW r \in RangeRecord
  PROVE  /\ r.lower \in AnyBound /\ r.upper \in AnyBound /\ ~r.null
         /\ Low(r) \in Nat /\ High(r) \in Nat
         /\ (r.lower.null <=> Low(r) = 0) /\ (r.upper.null <=> High(r) = 0)
<1>1. r.lower \in AnyBound /\ r.upper \in AnyBound /\ ~r.null
  BY DEF RangeRecord
<1>2. Low(r) \in Nat /\ (r.lower.null => Low(r) = 0) /\ (~r.lower.null => Low(r) > 1)
  BY <1>1, BoundFacts DEF Low
<1>3. High(r) \in Nat /\ (r.upper.null => High(r) = 0) /\ (~r.upper.null => High(r) > 1)
  BY <1>1, BoundFacts DEF High
<1> QED
  BY <1>1, <1>2, <1>3

Sign(m, n) == IF m < n THEN -1 ELSE IF m > n THEN 1 ELSE 0

\* What the code finds out about a range, in numbers.
Described(r) ==
  /\ ~r.null
  /\ HasLowerBound(r) <=> Low(r) # 0
  /\ HasUpperBound(r) <=> High(r) # 0
  /\ IsUniverse(r) <=> Low(r) = 0 /\ High(r) = 0
  /\ IsBounded(r) <=> Low(r) # 0 /\ High(r) # 0 /\ Low(r) < High(r)
  /\ IsUnbounded(r) <=> (Low(r) = 0 /\ High(r) = 0) \/ (Low(r) # 0 /\ High(r) # 0 /\ ~(Low(r) < High(r)))
  /\ IsUnboundedPositive(r) <=> High(r) = 0
  /\ IsUnboundedNegative(r) <=> Low(r) = 0

\* And how two ranges compare.
Compared(r, s) ==
  /\ CompareLower(r, s) = Sign(Low(r), Low(s))
  /\ CompareUpper(r, s) = Sign(High(r), High(s))
  /\ Reaches(r, s) <=> Low(r) < High(s) \/ (Low(r) = 0 /\ High(s) = 0)

\* The code compares two ranges as their numbers compare.
LEMMA RangesCompare ==
  ASSUME NEW r \in RangeRecord, NEW s \in RangeRecord
  PROVE  Compared(r, s)
<1>1. r.lower \in AnyBound /\ r.upper \in AnyBound /\ s.lower \in AnyBound /\ s.upper \in AnyBound
  BY RangeNumbers
<1>2. CompareLower(r, s) = Sign(Low(r), Low(s))
  BY <1>1, CompareFacts DEF CompareLower, Low, Sign
<1>3. CompareUpper(r, s) = Sign(High(r), High(s))
  BY <1>1, CompareFacts DEF CompareUpper, High, Sign
<1>4. Reaches(r, s) <=> Low(r) < High(s) \/ (Low(r) = 0 /\ High(s) = 0)
  BY <1>1, CompareFacts DEF Reaches, Low, High
<1> QED
  BY <1>2, <1>3, <1>4 DEF Compared

\* What the code says of a range is said of its numbers.
LEMMA RangesAreDescribed ==
  ASSUME NEW r \in RangeRecord
  PROVE  Described(r)
<1>1. /\ ~r.null /\ (r.lower.null <=> Low(r) = 0) /\ (r.upper.null <=> High(r) = 0)
      /\ Low(r) \in Nat /\ High(r) \in Nat
  BY RangeNumbers
<1>2. Reaches(r, r) <=> Low(r) < High(r) \/ (Low(r) = 0 /\ High(r) = 0)
  BY RangesCompare DEF Compared
<1>3. (HasLowerBound(r) <=> Low(r) # 0) /\ (HasUpperBound(r) <=> High(r) # 0)
  BY <1>1 DEF HasLowerBound, HasUpperBound
<1>4. IsUniverse(r) <=> Low(r) = 0 /\ High(r) = 0
  BY <1>1, <1>3 DEF IsUniverse
<1>5. IsBounded(r) <=> Low(r) # 0 /\ High(r) # 0 /\ Low(r) < High(r)
  BY <1>1, <1>2, <1>3 DEF IsBounded
<1>6. IsUnbounded(r) <=> (Low(r) = 0 /\ High(r) = 0) \/ (Low(r) # 0 /\ High(r) # 0 /\ ~(Low(r) < High(r)))
  BY <1>1, <1>2, <1>3, <1>4 DEF IsUnbounded
<1>7. (IsUnboundedPositive(r) <=> High(r) = 0) /\ (IsUnboundedNegative(r) <=> Low(r) = 0)
  BY <1>1, <1>3 DEF IsUnboundedPositive, IsUnboundedNegative
<1> QED
  BY <1>1, <1>3, <1>4, <1>5, <1>6, <1>7 DEF Described

\* A point from l on, and before h.
From(l, p)      == l = 0 \/ l <= 2 * p
Until(h, p)     == h = 0 \/ 2 * p < h
Within(l, h, p) == From(l, p) /\ Until(h, p)

\* A range contains the points that its numbers say.
LEMMA ContainsFacts ==
  ASSUME NEW r \in RangeRecord, NEW p \in Points
  PROVE  RangeContains(r, p) <=>
           IF Low(r) # 0 /\ High(r) # 0 /\ ~(Low(r) < High(r)) THEN From(Low(r), p) \/ Until(High(r), p)
           ELSE Within(Low(r), High(r), p)
<1> DEFINE above == HasLowerBound(r) =>
                      r.lower.value < p \/ (r.lower.included /\ r.lower.value = p)
           below == HasUpperBound(r) =>
                      p < r.upper.value \/ (r.upper.included /\ r.upper.value = p)
<1>1. Described(r) /\ r.lower \in AnyBound /\ r.upper \in AnyBound /\ p \in Int
  BY RangesAreDescribed, RangeNumbers, PointsAssumption
<1>2. above <=> From(Low(r), p)
  <2>1. CASE r.lower.null
    BY <1>1, <2>1, BoundFacts DEF Low, From, Described
  <2>2. CASE ~r.lower.null
    <3>1. /\ r.lower.value \in Nat /\ r.lower.value > 0
          /\ (r.lower.included = TRUE \/ r.lower.included = FALSE)
          /\ Low(r) = 2 * r.lower.value + (IF r.lower.included THEN 0 ELSE 1)
      BY <1>1, <2>2, BoundFacts DEF Low, LowCut
    <3>2. HasLowerBound(r)
      BY <2>2 DEF HasLowerBound
    <3> QED
      BY <1>1, <3>1, <3>2 DEF From
  <2> QED
    BY <2>1, <2>2
<1>3. below <=> Until(High(r), p)
  <2>1. CASE r.upper.null
    BY <1>1, <2>1, BoundFacts DEF High, Until, Described
  <2>2. CASE ~r.upper.null
    <3>1. /\ r.upper.value \in Nat /\ r.upper.value > 0
          /\ (r.upper.included = TRUE \/ r.upper.included = FALSE)
          /\ High(r) = 2 * r.upper.value + (IF r.upper.included THEN 1 ELSE 0)
      BY <1>1, <2>2, BoundFacts DEF High, HighCut
    <3>2. HasUpperBound(r)
      BY <2>2 DEF HasUpperBound
    <3> QED
      BY <1>1, <3>1, <3>2 DEF Until
  <2> QED
    BY <2>1, <2>2
<1>4. RangeContains(r, p) <=> ~r.null /\ IF IsUnbounded(r) THEN above \/ below ELSE above /\ below
  BY DEF RangeContains
<1> HIDE DEF above, below
<1> QED
  BY <1>1, <1>2, <1>3, <1>4 DEF Described, Within, From, Until

---------------------------------------------------------------------------
(* There is a point in every range *)

\* The numbers that bounds have.
Cut(c) == \E v \in Values : c = 2 * v \/ c = 2 * v + 1

\* The type is dense: two different bounds have a point between them.
LEMMA PointBetween ==
  ASSUME NEW c, NEW d, Cut(c), Cut(d), c < d
  PROVE  \E p \in Points : c <= 2 * p /\ 2 * p < d
<1>1. PICK v \in Values : c = 2 * v \/ c = 2 * v + 1
  BY DEF Cut
<1>2. PICK w \in Values : d = 2 * w \/ d = 2 * w + 1
  BY DEF Cut
<1>3. v \in Nat /\ w \in Nat /\ v \in Points /\ w \in Points /\ \A p \in Points : p \in Int
  BY ValuesAssumption, PointsAssumption
<1>4. CASE c = 2 * v
  BY <1>2, <1>3, <1>4
<1>5. CASE c = 2 * v + 1 /\ d = 2 * w + 1
  BY <1>3, <1>5
<1>6. CASE c = 2 * v + 1 /\ d = 2 * w
  <2>1. v < w
    BY <1>3, <1>6
  <2>2. PICK p \in Points : v < p /\ p < w
    BY <2>1, PointsAssumption
  <2>3. p \in Int
    BY <1>3
  <2>4. c <= 2 * p /\ 2 * p < d
    BY <1>3, <1>6, <2>2, <2>3
  <2> QED
    BY <2>4
<1> QED
  BY <1>1, <1>2, <1>4, <1>5, <1>6

\* There are points below and above every bound.
LEMMA PointsBeyond ==
  ASSUME NEW c, Cut(c)
  PROVE  (\E p \in Points : 2 * p < c) /\ (\E p \in Points : c <= 2 * p)
<1>1. PICK v \in Values : c = 2 * v \/ c = 2 * v + 1
  BY DEF Cut
<1>2. v \in Nat /\ \A p \in Points : p \in Int
  BY ValuesAssumption, PointsAssumption
<1>3. PICK p \in Points : p < v
  BY PointsAssumption
<1>4. PICK q \in Points : q > v
  BY PointsAssumption
<1>5. 2 * p < c /\ c <= 2 * q
  BY <1>1, <1>2, <1>3, <1>4
<1> QED
  BY <1>5

\* No interval is without a point.
LEMMA PointWithin ==
  ASSUME NEW l, NEW h, l = 0 \/ Cut(l), h = 0 \/ Cut(h), l = 0 \/ h = 0 \/ l < h
  PROVE  \E p \in Points : Within(l, h, p)
<1>1. CASE l = 0 /\ h = 0
  BY <1>1, PointsAssumption DEF Within, From, Until
<1>2. CASE l = 0 /\ h # 0
  BY <1>2, PointsBeyond DEF Within, From, Until
<1>3. CASE l # 0 /\ h = 0
  BY <1>3, PointsBeyond DEF Within, From, Until
<1>4. CASE l # 0 /\ h # 0
  BY <1>4, PointBetween DEF Within, From, Until
<1> QED
  BY <1>1, <1>2, <1>3, <1>4

\* The numbers of a range are those of bounds.
LEMMA RangeCuts ==
  ASSUME NEW r \in RangeRecord
  PROVE  /\ Low(r) = 0 \/ (Cut(Low(r)) /\ Low(r) > 1)
         /\ High(r) = 0 \/ (Cut(High(r)) /\ High(r) > 1)
<1>1. r.lower \in AnyBound /\ r.upper \in AnyBound
  BY RangeNumbers
<1>2. ASSUME NEW b \in AnyBound, ~b.null
      PROVE  Cut(LowCut(b)) /\ Cut(HighCut(b)) /\ LowCut(b) > 1 /\ HighCut(b) > 1
  <2>1. b.value \in Values /\ LowCut(b) > 1 /\ HighCut(b) > 1
    BY <1>2, BoundFacts
  <2>2. /\ LowCut(b) = 2 * b.value \/ LowCut(b) = 2 * b.value + 1
        /\ HighCut(b) = 2 * b.value \/ HighCut(b) = 2 * b.value + 1
    <3>1. b.value \in Nat /\ (b.included = TRUE \/ b.included = FALSE)
      BY <1>2, BoundFacts
    <3> QED
      BY <1>2, <3>1 DEF LowCut, HighCut
  <2> QED
    BY <2>1, <2>2 DEF Cut
<1> QED
  BY <1>1, <1>2, RangeNumbers DEF Low, High

---------------------------------------------------------------------------
(* Two ranges of regions *)

\* Interval r ends where s has not begun, and they do not touch.
Gap(r, s) == High(r) # 0 /\ High(r) < Low(s)

Lower(m, n)  == IF m < n THEN m ELSE n
\* The number of a higher end.
Higher(m, n) == IF m = 0 \/ n = 0 THEN 0 ELSE IF m < n THEN n ELSE m

\* What Union asks of two intervals.
Answered(r, s) ==
  /\ Intersects(r, s) <=> (High(s) = 0 \/ Low(r) < High(s)) /\ (High(r) = 0 \/ Low(s) < High(r))
  /\ IsAdjacent(r, s) <=> (High(r) # 0 /\ High(r) = Low(s)) \/ (Low(r) # 0 /\ Low(r) = High(s))
  /\ Meets(r, s) <=> (High(s) = 0 \/ Low(r) <= High(s)) /\ (High(r) = 0 \/ Low(s) <= High(r))
  /\ RangeLessThan(r, s) <=> High(r) # 0 /\ High(r) <= Low(s)

\* The numbers of an interval.
LEMMA IntervalNumbers ==
  ASSUME NEW r, Interval(r)
  PROVE  /\ r \in RangeRecord /\ Described(r) /\ Low(r) \in Nat /\ High(r) \in Nat
         /\ High(r) = 0 \/ Low(r) < High(r)
         /\ Low(r) # 0 \/ High(r) # 0
BY RangesAreDescribed, RangeNumbers DEF Interval

\* Bounds that touch have the same number.
LEMMA TouchingBounds ==
  ASSUME NEW b \in AnyBound, NEW c \in AnyBound
  PROVE  ~b.null /\ ~c.null /\ b.value = c.value /\ b.included # c.included
           <=> HighCut(b) # 0 /\ HighCut(b) = LowCut(c)
<1>1. CASE b.null \/ c.null
  BY <1>1, BoundFacts
<1>2. CASE ~b.null /\ ~c.null
  <2>1. /\ b.value \in Nat /\ (b.included = TRUE \/ b.included = FALSE)
        /\ c.value \in Nat /\ (c.included = TRUE \/ c.included = FALSE)
        /\ b.value > 0 /\ c.value > 0
    BY <1>2, BoundFacts
  <2>2. /\ HighCut(b) = 2 * b.value + (IF b.included THEN 1 ELSE 0)
        /\ LowCut(c) = 2 * c.value + (IF c.included THEN 0 ELSE 1)
    BY <1>2 DEF LowCut, HighCut
  <2> \A m, n \in Nat : 2 * m + 1 # 2 * n + 0 /\ 2 * m + 0 # 2 * n + 1
    OBVIOUS
  <2>3. ASSUME b.included = TRUE, c.included = TRUE
        PROVE  ~(b.included # c.included) /\ HighCut(b) # LowCut(c)
    BY <2>1, <2>2, <2>3
  <2>4. ASSUME b.included = FALSE, c.included = FALSE
        PROVE  ~(b.included # c.included) /\ HighCut(b) # LowCut(c)
    BY <2>1, <2>2, <2>4
  <2>5. ASSUME b.included = TRUE, c.included = FALSE
        PROVE  b.included # c.included /\ HighCut(b) # 0 /\ (HighCut(b) = LowCut(c) <=> b.value = c.value)
    BY <2>1, <2>2, <2>5
  <2>6. ASSUME b.included = FALSE, c.included = TRUE
        PROVE  b.included # c.included /\ HighCut(b) # 0 /\ (HighCut(b) = LowCut(c) <=> b.value = c.value)
    BY <2>1, <2>2, <2>6
  <2> QED
    BY <1>2, <2>1, <2>3, <2>4, <2>5, <2>6
<1> QED
  BY <1>1, <1>2

\* What Union asks of two intervals, in numbers.
LEMMA IntervalsAnswer ==
  ASSUME NEW r, NEW s, Interval(r), Interval(s)
  PROVE  Answered(r, s)
<1> DEFINE a == Low(r)
           b == High(r)
           c == Low(s)
           d == High(s)
<1>1. /\ r \in RangeRecord /\ s \in RangeRecord
      /\ a \in Nat /\ b \in Nat /\ c \in Nat /\ d \in Nat
      /\ (b = 0 \/ a < b) /\ (a # 0 \/ b # 0) /\ (d = 0 \/ c < d) /\ (c # 0 \/ d # 0)
  BY IntervalNumbers
<1>2. /\ ~r.null /\ ~s.null
      /\ (HasLowerBound(r) <=> a # 0) /\ (HasUpperBound(r) <=> b # 0)
      /\ (HasLowerBound(s) <=> c # 0) /\ (HasUpperBound(s) <=> d # 0)
      /\ ~IsUniverse(r) /\ ~IsUniverse(s)
      /\ (IsBounded(r) <=> a # 0 /\ b # 0) /\ (IsBounded(s) <=> c # 0 /\ d # 0)
      /\ ~IsUnbounded(r) /\ ~IsUnbounded(s)
      /\ (IsUnboundedPositive(r) <=> b = 0) /\ (IsUnboundedPositive(s) <=> d = 0)
      /\ (IsUnboundedNegative(r) <=> a = 0) /\ (IsUnboundedNegative(s) <=> c = 0)
  <2>1. Described(r) /\ Described(s)
    BY IntervalNumbers
  <2> HIDE DEF a, b, c, d
  <2> QED
    BY <1>1, <2>1 DEF Described, a, b, c, d
<1>3. /\ CompareLower(r, s) = Sign(a, c) /\ CompareUpper(r, s) = Sign(b, d)
      /\ CompareLower(s, r) = Sign(c, a) /\ CompareUpper(s, r) = Sign(d, b)
      /\ (Reaches(r, s) <=> a < d \/ (a = 0 /\ d = 0))
      /\ (Reaches(s, r) <=> c < b \/ (c = 0 /\ b = 0))
  BY <1>1, RangesCompare DEF Compared
<1>4. IsAdjacent(r, s) <=> (b # 0 /\ b = c) \/ (a # 0 /\ a = d)
  <2>1. r.lower \in AnyBound /\ s.lower \in AnyBound /\ r.upper \in AnyBound /\ s.upper \in AnyBound
    BY <1>1, RangeNumbers
  <2>2. ~r.upper.null /\ ~s.lower.null /\ r.upper.value = s.lower.value /\ r.upper.included # s.lower.included
          <=> b # 0 /\ b = c
    BY <2>1, TouchingBounds DEF Low, High
  <2>3. ~s.upper.null /\ ~r.lower.null /\ s.upper.value = r.lower.value /\ s.upper.included # r.lower.included
          <=> d # 0 /\ d = a
    BY <2>1, TouchingBounds DEF Low, High
  <2> HIDE DEF a, b, c, d
  <2> QED
    BY <2>2, <2>3 DEF IsAdjacent
<1>5. RangeLessThan(r, s) <=> b # 0 /\ b <= c
  <2> HIDE DEF a, b, c, d
  <2> QED
    BY <1>1, <1>2, <1>3 DEF RangeLessThan
<1>6. Intersects(r, s) <=> (d = 0 \/ a < d) /\ (b = 0 \/ c < b)
  <2> HIDE DEF a, b, c, d
  <2>1. ASSUME ~IsBounded(r)
        PROVE  UnboundedIntersects(r, s) <=> (d = 0 \/ a < d) /\ (b = 0 \/ c < b)
    BY <1>1, <1>2, <1>3, <2>1 DEF UnboundedIntersects, Sign
  <2>2. ASSUME ~IsBounded(s)
        PROVE  UnboundedIntersects(s, r) <=> (d = 0 \/ a < d) /\ (b = 0 \/ c < b)
    BY <1>1, <1>2, <1>3, <2>2 DEF UnboundedIntersects, Sign
  <2>3. ASSUME IsBounded(r), IsBounded(s)
        PROVE  (\/ CompareLower(r, s) <= 0 /\ Reaches(s, r)
                \/ CompareUpper(r, s) >= 0 /\ Reaches(r, s)
                \/ CompareLower(r, s) >= 0 /\ CompareUpper(r, s) <= 0)
               <=> (d = 0 \/ a < d) /\ (b = 0 \/ c < b)
    BY <1>1, <1>2, <1>3, <2>3 DEF Sign
  <2> QED
    BY <1>2, <2>1, <2>2, <2>3 DEF Intersects
<1>7. Meets(r, s) <=> (d = 0 \/ a <= d) /\ (b = 0 \/ c <= b)
  <2> HIDE DEF a, b, c, d
  <2> QED
    BY <1>1, <1>4, <1>6 DEF Meets
<1> QED
  BY <1>4, <1>5, <1>6, <1>7 DEF Answered

\* A range without a part missing.
Solid(r) == r \in RangeRecord /\ (High(r) = 0 \/ Low(r) < High(r))

\* The points of a range without a part missing.
LEMMA SolidPoints ==
  ASSUME NEW r, Solid(r)
  PROVE  /\ PointsOf(r) = {p \in Points : Within(Low(r), High(r), p)}
         /\ \A p : p \in PointsOf(r) <=> p \in Points /\ Within(Low(r), High(r), p)
<1>1. ASSUME NEW p \in Points PROVE RangeContains(r, p) <=> Within(Low(r), High(r), p)
  BY ContainsFacts DEF Solid
<1> QED
  BY <1>1 DEF PointsOf

\* The points of a range with a part missing in the centre.
LEMMA HolePoints ==
  ASSUME NEW r, Hole(r)
  PROVE  \A p : p \in PointsOf(r) <=> p \in Points /\ (From(Low(r), p) \/ Until(High(r), p))
<1>1. ~(Low(r) < High(r)) /\ Low(r) # 0 /\ High(r) # 0 /\ r \in RangeRecord
  BY RangeNumbers DEF Hole
<1>2. ASSUME NEW p \in Points PROVE RangeContains(r, p) <=> From(Low(r), p) \/ Until(High(r), p)
  BY <1>1, ContainsFacts
<1> QED
  BY <1>2 DEF PointsOf

\* An interval has no part missing.
LEMMA IntervalsAreSolid == \A r : Interval(r) => Solid(r)
  BY DEF Interval, Solid

\* The union of two ranges that meet is a range.
LEMMA MergedRange ==
  ASSUME NEW r, NEW s, Interval(r), Interval(s), Meets(r, s)
  PROVE  LET m == MergeRanges(r, s)
         IN  /\ Solid(m)
             /\ Low(m) = Lower(Low(r), Low(s)) /\ High(m) = Higher(High(r), High(s))
             /\ PointsOf(m) = PointsOf(r) \cup PointsOf(s)
<1> DEFINE a == Low(r)
           b == High(r)
           c == Low(s)
           d == High(s)
           m == MergeRanges(r, s)
<1>1. /\ r \in RangeRecord /\ s \in RangeRecord
      /\ a \in Nat /\ b \in Nat /\ c \in Nat /\ d \in Nat
      /\ (b = 0 \/ a < b) /\ (d = 0 \/ c < d)
  BY IntervalNumbers
<1>2. (d = 0 \/ a <= d) /\ (b = 0 \/ c <= b)
  BY IntervalsAnswer DEF Answered
<1>3. /\ (IsUnboundedPositive(r) <=> b = 0) /\ (IsUnboundedPositive(s) <=> d = 0)
      /\ (IsUnboundedNegative(r) <=> a = 0) /\ (IsUnboundedNegative(s) <=> c = 0)
      /\ CompareLower(r, s) = Sign(a, c) /\ CompareUpper(r, s) = Sign(b, d)
  BY <1>1, RangesAreDescribed, RangesCompare DEF Described, Compared
<1>4. PICK lo, hi : m = [r EXCEPT !.lower = lo, !.upper = hi] /\ lo \in AnyBound /\ hi \in AnyBound
                      /\ LowCut(lo) = Lower(a, c) /\ HighCut(hi) = Higher(b, d)
  <2> DEFINE lo == IF IsUnboundedNegative(r) \/ IsUnboundedNegative(s) THEN NullBound
                   ELSE IF CompareLower(r, s) > 0 THEN s.lower ELSE r.lower
             hi == IF IsUnboundedPositive(r) \/ IsUnboundedPositive(s) THEN NullBound
                   ELSE IF CompareUpper(r, s) < 0 THEN s.upper ELSE r.upper
  <2>1. m = [r EXCEPT !.lower = lo, !.upper = hi]
    BY DEF MergeRanges
  <2>2. /\ r.lower \in AnyBound /\ s.lower \in AnyBound /\ r.upper \in AnyBound /\ s.upper \in AnyBound
        /\ NullBound \in AnyBound /\ LowCut(NullBound) = 0 /\ HighCut(NullBound) = 0
        /\ LowCut(r.lower) = a /\ LowCut(s.lower) = c /\ HighCut(r.upper) = b /\ HighCut(s.upper) = d
    BY <1>1, RangeNumbers DEF AnyBound, NullBound, LowCut, HighCut, Low, High
  <2> HIDE DEF a, b, c, d, m
  <2>3. lo \in AnyBound /\ LowCut(lo) = Lower(a, c)
    BY <1>1, <1>3, <2>2 DEF Lower, Sign
  <2>4. hi \in AnyBound /\ HighCut(hi) = Higher(b, d)
    BY <1>1, <1>3, <2>2 DEF Higher, Sign
  <2> HIDE DEF lo, hi
  <2> QED
    BY <2>1, <2>3, <2>4
<1>5. m \in RangeRecord /\ Low(m) = Lower(a, c) /\ High(m) = Higher(b, d)
  <2> HIDE DEF a, b, c, d, m
  <2>1. m.lower = lo /\ m.upper = hi
    BY <1>1, <1>4 DEF RangeRecord
  <2>2. m \in RangeRecord
    BY <1>1, <1>4 DEF RangeRecord
  <2> QED
    BY <1>4, <2>1, <2>2 DEF Low, High
<1>6. Solid(m)
  <2> HIDE DEF a, b, c, d, m
  <2> QED
    BY <1>1, <1>2, <1>5 DEF Lower, Higher, Solid
<1>7. ASSUME NEW p \in Points
      PROVE  Within(Lower(a, c), Higher(b, d), p) <=> Within(a, b, p) \/ Within(c, d, p)
  <2>1. p \in Int
    BY PointsAssumption
  <2> HIDE DEF a, b, c, d, m
  <2> QED
    BY <1>1, <1>2, <2>1 DEF Lower, Higher, Within, From, Until
<1>8. PointsOf(m) = PointsOf(r) \cup PointsOf(s)
  <2>1. /\ \A p : p \in PointsOf(r) <=> p \in Points /\ Within(a, b, p)
        /\ \A p : p \in PointsOf(s) <=> p \in Points /\ Within(c, d, p)
    BY SolidPoints, IntervalsAreSolid
  <2>2. \A p : p \in PointsOf(m) <=> p \in Points /\ Within(Low(m), High(m), p)
    BY <1>6, SolidPoints
  <2> HIDE DEF a, b, c, d, m
  <2> QED
    BY <1>5, <1>7, <2>1, <2>2
<1> QED
  BY <1>5, <1>6, <1>8

---------------------------------------------------------------------------
(* Comparisons are right *)

Later(m, n)  == IF m < n THEN n ELSE m
\* Of two numbers of upper bounds the lower one.
Sooner(m, n) == IF m = 0 THEN n ELSE IF n = 0 \/ m < n THEN m ELSE n

\* Intersects() is right about two ranges of regions.
LEMMA IntersectsRight ==
  ASSUME NEW r, NEW s, Interval(r), Interval(s)
  PROVE  Intersects(r, s) <=> PointsOf(r) \cap PointsOf(s) # {}
<1> DEFINE a == Low(r)
           b == High(r)
           c == Low(s)
           d == High(s)
<1>1. /\ r \in RangeRecord /\ s \in RangeRecord
      /\ a \in Nat /\ b \in Nat /\ c \in Nat /\ d \in Nat
      /\ (b = 0 \/ a < b) /\ (d = 0 \/ c < d)
  BY IntervalNumbers
<1>2. Intersects(r, s) <=> (d = 0 \/ a < d) /\ (b = 0 \/ c < b)
  BY IntervalsAnswer DEF Answered
<1>3. /\ \A p : p \in PointsOf(r) <=> p \in Points /\ Within(a, b, p)
      /\ \A p : p \in PointsOf(s) <=> p \in Points /\ Within(c, d, p)
  BY SolidPoints, IntervalsAreSolid
<1>4. (a = 0 \/ Cut(a)) /\ (b = 0 \/ Cut(b)) /\ (c = 0 \/ Cut(c)) /\ (d = 0 \/ Cut(d))
  BY <1>1, RangeCuts
<1>5. ASSUME NEW p \in Points
      PROVE  Within(Later(a, c), Sooner(b, d), p) <=> Within(a, b, p) /\ Within(c, d, p)
  <2>1. p \in Int
    BY PointsAssumption
  <2> HIDE DEF a, b, c, d
  <2> QED
    BY <1>1, <2>1 DEF Later, Sooner, Within, From, Until
<1> HIDE DEF a, b, c, d
<1>6. ASSUME Intersects(r, s) PROVE \E p \in Points : Within(Later(a, c), Sooner(b, d), p)
  <2>1. /\ Later(a, c) = 0 \/ Cut(Later(a, c))
        /\ Sooner(b, d) = 0 \/ Cut(Sooner(b, d))
    BY <1>4 DEF Later, Sooner
  <2>2. Later(a, c) = 0 \/ Sooner(b, d) = 0 \/ Later(a, c) < Sooner(b, d)
    BY <1>1, <1>2, <1>6 DEF Later, Sooner
  <2> QED
    BY <2>1, <2>2, PointWithin
<1>7. ASSUME ~Intersects(r, s), NEW p \in Points, Within(a, b, p), Within(c, d, p)
      PROVE  FALSE
  <2>1. p \in Int
    BY PointsAssumption
  <2> QED
    BY <1>1, <1>2, <1>7, <2>1 DEF Within, From, Until
<1> QED
  BY <1>3, <1>5, <1>6, <1>7

\* The complement of a range has its bounds the other way around.
LEMMA FlipFacts ==
  ASSUME NEW b \in AnyBound
  PROVE  Flip(b) \in AnyBound /\ LowCut(Flip(b)) = HighCut(b) /\ HighCut(Flip(b)) = LowCut(b)
<1>1. CASE b.null
  <2>1. b = NullBound /\ Flip(b) = NullBound
    BY <1>1, BoundFacts DEF Flip
  <2> QED
    BY <2>1 DEF AnyBound, NullBound, LowCut, HighCut
<1>2. CASE ~b.null
  <2>1. b \in Bound /\ Flip(b) = [b EXCEPT !.included = ~@]
    BY <1>2, BoundFacts DEF Flip
  <2>2. b.included = TRUE \/ b.included = FALSE
    BY <1>2, BoundFacts
  <2>3. /\ Flip(b) \in Bound /\ Flip(b).value = b.value /\ ~Flip(b).null
        /\ Flip(b).included = ~b.included
    <3>1. CASE b.included = TRUE
      <4>1. Flip(b) = [b EXCEPT !.included = FALSE]
        BY <2>1, <3>1
      <4> QED
        BY <2>1, <3>1, <4>1 DEF Bound
    <3>2. CASE b.included = FALSE
      <4>1. Flip(b) = [b EXCEPT !.included = TRUE]
        BY <2>1, <3>2
      <4> QED
        BY <2>1, <3>2, <4>1 DEF Bound
    <3> QED
      BY <2>2, <3>1, <3>2
  <2> QED
    BY <1>2, <2>2, <2>3 DEF AnyBound, LowCut, HighCut
<1> QED
  BY <1>1, <1>2

\* The complement of an interval: its numbers are swapped.
LEMMA ComplementOfInterval ==
  ASSUME NEW r, Interval(r)
  PROVE  LET t == ComplementOfRange(r)
         IN  /\ t = [r EXCEPT !.lower = Flip(r.upper), !.upper = Flip(r.lower)]
             /\ t \in RangeRecord /\ t.lower = Flip(r.upper) /\ t.upper = Flip(r.lower)
             /\ Low(t) = High(r) /\ High(t) = Low(r)
             /\ IF Low(r) = 0 \/ High(r) = 0 THEN Interval(t) ELSE Hole(t)
<1> DEFINE t == ComplementOfRange(r)
<1>1. /\ r \in RangeRecord /\ ~r.null /\ ~IsUniverse(r) /\ Low(r) \in Nat /\ High(r) \in Nat
      /\ High(r) = 0 \/ Low(r) < High(r)
      /\ Low(r) # 0 \/ High(r) # 0
  BY IntervalNumbers DEF Described
<1>2. t = [r EXCEPT !.lower = Flip(r.upper), !.upper = Flip(r.lower)]
  BY <1>1 DEF ComplementOfRange
<1>3. r.lower \in AnyBound /\ r.upper \in AnyBound
  BY <1>1, RangeNumbers
<1>4. Flip(r.lower) \in AnyBound /\ Flip(r.upper) \in AnyBound
  BY <1>3, FlipFacts
<1> HIDE DEF t
<1>5. t \in RangeRecord /\ t.lower = Flip(r.upper) /\ t.upper = Flip(r.lower)
  BY <1>1, <1>2, <1>4 DEF RangeRecord
<1>6. Low(t) = High(r) /\ High(t) = Low(r)
  BY <1>3, <1>5, FlipFacts DEF Low, High
<1>7. IF Low(r) = 0 \/ High(r) = 0 THEN Interval(t) ELSE Hole(t)
  BY <1>1, <1>5, <1>6 DEF Interval, Hole
<1> QED
  BY <1>2, <1>5, <1>6, <1>7 DEF t

\* A set of points, of an interval or of a hole.
In(r, p) == IF Hole(r) THEN From(Low(r), p) \/ Until(High(r), p) ELSE Within(Low(r), High(r), p)

\* One point is in a range and not in the other.
Outside(r, s) == \E p \in Points : In(r, p) /\ ~In(s, p)

\* IsSubset() of two intervals.
LEMMA IntervalInInterval ==
  ASSUME NEW r, NEW s, Interval(r), Interval(s)
  PROVE  IsSubset(r, s) <=> ~Outside(r, s)
<1> DEFINE a == Low(r)
           b == High(r)
           c == Low(s)
           d == High(s)
           fits == (c = 0 \/ c <= a) /\ (d = 0 \/ (b # 0 /\ b <= d))
<1>1. /\ a \in Nat /\ b \in Nat /\ c \in Nat /\ d \in Nat
      /\ (b = 0 \/ a < b) /\ (d = 0 \/ c < d) /\ (a # 0 \/ b # 0) /\ (c # 0 \/ d # 0)
      /\ Described(r) /\ Described(s) /\ r \in RangeRecord /\ s \in RangeRecord
  BY IntervalNumbers
<1>2. /\ (a = 0 \/ Cut(a)) /\ (b = 0 \/ Cut(b)) /\ (c = 0 \/ Cut(c)) /\ (d = 0 \/ Cut(d))
      /\ CompareLower(r, s) = Sign(a, c) /\ CompareUpper(r, s) = Sign(b, d)
  BY <1>1, RangeCuts, RangesCompare DEF Compared
<1>3. \A p : (In(r, p) <=> Within(a, b, p)) /\ (In(s, p) <=> Within(c, d, p))
  <2>1. ~Hole(r) /\ ~Hole(s)
    BY <1>1 DEF Hole
  <2> QED
    BY <2>1 DEF In
<1>4. IsSubset(r, s) <=> fits
  <2> DEFINE above == CompareLower(r, s) >= 0
             below == CompareUpper(r, s) <= 0
  <2>1. /\ ~r.null /\ ~s.null /\ ~IsUniverse(r) /\ ~IsUniverse(s) /\ ~IsUnbounded(s) /\ ~IsUnbounded(r)
        /\ (IsBounded(r) <=> a # 0 /\ b # 0)
        /\ (IsUnboundedPositive(r) <=> b = 0) /\ (IsUnboundedNegative(r) <=> a = 0)
        /\ (IsUnboundedPositive(s) <=> d = 0) /\ (IsUnboundedNegative(s) <=> c = 0)
    <3> HIDE DEF a, b, c, d
    <3> QED
      BY <1>1 DEF Described, a, b, c, d
  <2>2. (above <=> c <= a) /\ (below <=> b <= d)
    <3> HIDE DEF a, b, c, d
    <3> QED
      BY <1>1, <1>2 DEF Sign
  <2> HIDE DEF a, b, c, d, above, below
  <2>3. IsSubset(r, s) <=>
          CASE IsUnboundedPositive(s) -> (IsBounded(r) \/ IsUnboundedPositive(r)) /\ above
            [] IsUnboundedNegative(s) -> (IsBounded(r) \/ IsUnboundedNegative(r)) /\ below
            [] OTHER                  -> IsBounded(r) /\ above /\ below
    BY <1>1, <2>1 DEF IsSubset, above, below
  <2> QED
    BY <1>1, <2>1, <2>2, <2>3
<1>5. ASSUME fits, NEW p \in Points, Within(a, b, p) PROVE Within(c, d, p)
  <2>1. p \in Int
    BY PointsAssumption
  <2> HIDE DEF a, b, c, d
  <2> QED
    BY <1>1, <1>5, <2>1 DEF Within, From, Until
<1>6. ASSUME ~fits PROVE \E p \in Points : Within(a, b, p) /\ ~Within(c, d, p)
  <2> HIDE DEF a, b, c, d
  <2>1. \A p \in Points : p \in Int
    BY PointsAssumption
  <2>2. CASE c # 0 /\ a < c
    <3>1. /\ Sooner(b, c) = 0 \/ Cut(Sooner(b, c))
          /\ a = 0 \/ Sooner(b, c) = 0 \/ a < Sooner(b, c)
      BY <1>1, <1>2, <2>2 DEF Sooner
    <3>2. PICK p \in Points : Within(a, Sooner(b, c), p)
      BY <1>2, <3>1, PointWithin
    <3>3. Within(a, b, p) /\ ~Within(c, d, p)
      BY <1>1, <2>1, <2>2, <3>2 DEF Within, From, Until, Sooner
    <3> QED
      BY <3>3
  <2>3. CASE d # 0 /\ (b = 0 \/ d < b)
    <3>1. /\ Later(a, d) = 0 \/ Cut(Later(a, d))
          /\ Later(a, d) = 0 \/ b = 0 \/ Later(a, d) < b
      BY <1>1, <1>2, <2>3 DEF Later
    <3>2. PICK p \in Points : Within(Later(a, d), b, p)
      BY <1>2, <3>1, PointWithin
    <3>3. Within(a, b, p) /\ ~Within(c, d, p)
      BY <1>1, <2>1, <2>3, <3>2 DEF Within, From, Until, Later
    <3> QED
      BY <3>3
  <2> QED
    BY <1>1, <1>6, <2>2, <2>3
<1> HIDE DEF a, b, c, d, fits
<1> QED
  BY <1>3, <1>4, <1>5, <1>6 DEF Outside

\* IsSubset() of an interval and the complement of a bounded range.
LEMMA IntervalInHole ==
  ASSUME NEW r, NEW s, Interval(r), Hole(s)
  PROVE  IsSubset(r, s) <=> ~Outside(r, s)
<1> DEFINE a == Low(r)
           b == High(r)
           c == Low(s)
           d == High(s)
           fits == c <= a \/ (b # 0 /\ b <= d)
<1>1. /\ a \in Nat /\ b \in Nat /\ c \in Nat /\ d \in Nat
      /\ (b = 0 \/ a < b) /\ (a # 0 \/ b # 0) /\ c # 0 /\ d # 0 /\ d < c
      /\ Described(r) /\ Described(s) /\ r \in RangeRecord /\ s \in RangeRecord
  BY IntervalNumbers, RangeNumbers, RangesAreDescribed DEF Hole
<1>2. /\ (a = 0 \/ Cut(a)) /\ (b = 0 \/ Cut(b)) /\ (c = 0 \/ Cut(c)) /\ (d = 0 \/ Cut(d))
      /\ CompareLower(r, s) = Sign(a, c) /\ CompareUpper(r, s) = Sign(b, d)
  BY <1>1, RangeCuts, RangesCompare DEF Compared
<1>3. \A p : (In(r, p) <=> Within(a, b, p)) /\ (In(s, p) <=> From(c, p) \/ Until(d, p))
  <2>1. ~Hole(r)
    BY <1>1 DEF Hole
  <2> QED
    BY <2>1 DEF In
<1>4. IsSubset(r, s) <=> fits
  <2> DEFINE above == CompareLower(r, s) >= 0
             below == CompareUpper(r, s) <= 0
  <2>1. /\ ~r.null /\ ~s.null /\ ~IsUniverse(r) /\ ~IsUniverse(s) /\ IsUnbounded(s) /\ ~IsUnbounded(r)
        /\ ~IsUnboundedPositive(s) /\ ~IsUnboundedNegative(s)
        /\ (IsBounded(r) <=> a # 0 /\ b # 0)
        /\ (IsUnboundedPositive(r) <=> b = 0) /\ (IsUnboundedNegative(r) <=> a = 0)
    <3> HIDE DEF a, b, c, d
    <3> QED
      BY <1>1 DEF Described, a, b, c, d
  <2>2. (above <=> c <= a) /\ (below <=> b <= d)
    <3> HIDE DEF a, b, c, d
    <3> QED
      BY <1>1, <1>2 DEF Sign
  <2> HIDE DEF a, b, c, d, above, below
  <2>3. IsSubset(r, s) <=> \/ IsBounded(r) /\ (above \/ below)
                           \/ IsUnboundedPositive(r) /\ above
                           \/ IsUnboundedNegative(r) /\ below
    BY <2>1 DEF IsSubset, above, below
  <2> QED
    BY <1>1, <2>1, <2>2, <2>3
<1>5. ASSUME fits, NEW p \in Points, Within(a, b, p) PROVE From(c, p) \/ Until(d, p)
  <2>1. p \in Int
    BY PointsAssumption
  <2> HIDE DEF a, b, c, d
  <2> QED
    BY <1>1, <1>5, <2>1 DEF Within, From, Until
<1>6. ASSUME ~fits PROVE \E p \in Points : Within(a, b, p) /\ ~(From(c, p) \/ Until(d, p))
  <2> HIDE DEF a, b, c, d
  <2>1. \A p \in Points : p \in Int
    BY PointsAssumption
  <2>2. /\ Later(a, d) = 0 \/ Cut(Later(a, d))
        /\ Sooner(b, c) = 0 \/ Cut(Sooner(b, c))
        /\ Later(a, d) = 0 \/ Sooner(b, c) = 0 \/ Later(a, d) < Sooner(b, c)
    BY <1>1, <1>2, <1>6 DEF Later, Sooner
  <2>3. PICK p \in Points : Within(Later(a, d), Sooner(b, c), p)
    BY <2>2, PointWithin
  <2>4. Within(a, b, p) /\ ~(From(c, p) \/ Until(d, p))
    BY <1>1, <2>1, <2>3 DEF Within, From, Until, Later, Sooner
  <2> QED
    BY <2>4
<1> HIDE DEF a, b, c, d, fits
<1> QED
  BY <1>3, <1>4, <1>5, <1>6 DEF Outside

\* The complement of a bounded range is in no interval, and IsSubset() says so.
LEMMA HoleInInterval ==
  ASSUME NEW r, NEW s, Hole(r), Interval(s)
  PROVE  ~IsSubset(r, s) /\ Outside(r, s)
<1> DEFINE a == Low(r)
           b == High(r)
           c == Low(s)
           d == High(s)
<1>1. /\ a \in Nat /\ b \in Nat /\ c \in Nat /\ d \in Nat
      /\ (d = 0 \/ c < d) /\ (c # 0 \/ d # 0) /\ a # 0 /\ b # 0 /\ b < a
      /\ Described(r) /\ Described(s) /\ r \in RangeRecord /\ s \in RangeRecord
  BY IntervalNumbers, RangeNumbers, RangesAreDescribed DEF Hole
<1>2. (a = 0 \/ Cut(a)) /\ (b = 0 \/ Cut(b)) /\ (c = 0 \/ Cut(c)) /\ (d = 0 \/ Cut(d))
  BY <1>1, RangeCuts
<1>3. \A p : (In(r, p) <=> From(a, p) \/ Until(b, p)) /\ (In(s, p) <=> Within(c, d, p))
  <2>1. ~Hole(s)
    BY <1>1 DEF Hole
  <2> QED
    BY <2>1 DEF In
<1>4. ~IsSubset(r, s)
  <2>1. /\ ~r.null /\ ~s.null /\ ~IsUniverse(r) /\ ~IsUniverse(s) /\ ~IsUnbounded(s)
        /\ ~IsBounded(r) /\ ~IsUnboundedPositive(r) /\ ~IsUnboundedNegative(r)
    <3> HIDE DEF a, b, c, d
    <3> QED
      BY <1>1 DEF Described, a, b, c, d
  <2> QED
    BY <2>1 DEF IsSubset
<1>5. \E p \in Points : (From(a, p) \/ Until(b, p)) /\ ~Within(c, d, p)
  <2> HIDE DEF a, b, c, d
  <2>1. \A p \in Points : p \in Int
    BY PointsAssumption
  <2>2. CASE c # 0
    <3>1. Cut(Sooner(b, c))
      BY <1>1, <1>2, <2>2 DEF Sooner
    <3>2. PICK p \in Points : Within(0, Sooner(b, c), p)
      BY <3>1, PointWithin
    <3>3. (From(a, p) \/ Until(b, p)) /\ ~Within(c, d, p)
      BY <1>1, <2>1, <2>2, <3>2 DEF Within, From, Until, Sooner
    <3> QED
      BY <3>3
  <2>3. CASE d # 0
    <3>1. Cut(Later(a, d))
      BY <1>1, <1>2, <2>3 DEF Later
    <3>2. PICK p \in Points : Within(Later(a, d), 0, p)
      BY <3>1, PointWithin
    <3>3. (From(a, p) \/ Until(b, p)) /\ ~Within(c, d, p)
      BY <1>1, <2>1, <2>3, <3>2 DEF Within, From, Until, Later
    <3> QED
      BY <3>3
  <2> QED
    BY <1>1, <2>2, <2>3
<1> HIDE DEF a, b, c, d
<1> QED
  BY <1>3, <1>4, <1>5 DEF Outside

\* IsSubset() of the complements of two bounded ranges.
LEMMA HoleInHole ==
  ASSUME NEW r, NEW s, Hole(r), Hole(s)
  PROVE  IsSubset(r, s) <=> ~Outside(r, s)
<1> DEFINE a == Low(r)
           b == High(r)
           c == Low(s)
           d == High(s)
           fits == c <= a /\ b <= d
<1>1. /\ a \in Nat /\ b \in Nat /\ c \in Nat /\ d \in Nat
      /\ a # 0 /\ b # 0 /\ b < a /\ c # 0 /\ d # 0 /\ d < c
      /\ Described(r) /\ Described(s) /\ r \in RangeRecord /\ s \in RangeRecord
  BY RangeNumbers, RangesAreDescribed DEF Hole
<1>2. /\ (a = 0 \/ Cut(a)) /\ (b = 0 \/ Cut(b)) /\ (c = 0 \/ Cut(c)) /\ (d = 0 \/ Cut(d))
      /\ CompareLower(r, s) = Sign(a, c) /\ CompareUpper(r, s) = Sign(b, d)
  BY <1>1, RangeCuts, RangesCompare DEF Compared
<1>3. \A p : (In(r, p) <=> From(a, p) \/ Until(b, p)) /\ (In(s, p) <=> From(c, p) \/ Until(d, p))
  BY DEF In
<1>4. IsSubset(r, s) <=> fits
  <2> DEFINE above == CompareLower(r, s) >= 0
             below == CompareUpper(r, s) <= 0
  <2>1. /\ ~r.null /\ ~s.null /\ ~IsUniverse(r) /\ ~IsUniverse(s) /\ IsUnbounded(s) /\ IsUnbounded(r)
        /\ ~IsUnboundedPositive(s) /\ ~IsUnboundedNegative(s)
        /\ ~IsBounded(r) /\ ~IsUnboundedPositive(r) /\ ~IsUnboundedNegative(r)
    <3> HIDE DEF a, b, c, d
    <3> QED
      BY <1>1 DEF Described, a, b, c, d
  <2>2. (above <=> c <= a) /\ (below <=> b <= d)
    <3> HIDE DEF a, b, c, d
    <3> QED
      BY <1>1, <1>2 DEF Sign
  <2> HIDE DEF a, b, c, d, above, below
  <2>3. IsSubset(r, s) <=> above /\ below
    BY <2>1 DEF IsSubset, above, below
  <2> QED
    BY <1>1, <2>1, <2>2, <2>3
<1>5. ASSUME fits, NEW p \in Points, From(a, p) \/ Until(b, p) PROVE From(c, p) \/ Until(d, p)
  <2>1. p \in Int
    BY PointsAssumption
  <2> HIDE DEF a, b, c, d
  <2> QED
    BY <1>1, <1>5, <2>1 DEF From, Until
<1>6. ASSUME ~fits PROVE \E p \in Points : (From(a, p) \/ Until(b, p)) /\ ~(From(c, p) \/ Until(d, p))
  <2> HIDE DEF a, b, c, d
  <2>1. \A p \in Points : p \in Int
    BY PointsAssumption
  <2>2. CASE a < c
    <3>1. Cut(Later(a, d)) /\ Later(a, d) < c
      BY <1>1, <1>2, <2>2 DEF Later
    <3>2. PICK p \in Points : Within(Later(a, d), c, p)
      BY <1>1, <1>2, <3>1, PointWithin
    <3>3. (From(a, p) \/ Until(b, p)) /\ ~(From(c, p) \/ Until(d, p))
      BY <1>1, <2>1, <2>2, <3>2 DEF Within, From, Until, Later
    <3> QED
      BY <3>3
  <2>3. CASE d < b
    <3>1. Cut(Sooner(b, c)) /\ d < Sooner(b, c)
      BY <1>1, <1>2, <2>3 DEF Sooner
    <3>2. PICK p \in Points : Within(d, Sooner(b, c), p)
      BY <1>1, <1>2, <3>1, PointWithin
    <3>3. (From(a, p) \/ Until(b, p)) /\ ~(From(c, p) \/ Until(d, p))
      BY <1>1, <2>1, <2>3, <3>2 DEF Within, From, Until, Sooner
    <3> QED
      BY <3>3
  <2> QED
    BY <1>1, <1>6, <2>2, <2>3
<1> HIDE DEF a, b, c, d, fits
<1> QED
  BY <1>3, <1>4, <1>5, <1>6 DEF Outside

\* Two ranges of regions, and their complements, are compared rightly.
LEMMA RangesRight ==
  ASSUME NEW r, NEW s, Interval(r), Interval(s)
  PROVE  RangesCompareRight(r, s)
<1>1. ASSUME NEW u, NEW v, Interval(u) \/ Hole(u), Interval(v) \/ Hole(v)
      PROVE  IsSubset(u, v) <=> PointsOf(u) \subseteq PointsOf(v)
  <2>1. /\ \A p : p \in PointsOf(u) <=> p \in Points /\ In(u, p)
        /\ \A p : p \in PointsOf(v) <=> p \in Points /\ In(v, p)
    <3>1. ASSUME NEW w, Interval(w) PROVE ~Hole(w) /\ Solid(w)
      BY <3>1, IntervalNumbers, IntervalsAreSolid DEF Hole
    <3> QED
      BY <1>1, <3>1, SolidPoints, HolePoints DEF In
  <2>2. IsSubset(u, v) <=> ~Outside(u, v)
    BY <1>1, IntervalInInterval, IntervalInHole, HoleInInterval, HoleInHole
  <2> QED
    BY <2>1, <2>2 DEF Outside
<1>2. ASSUME NEW w, Interval(w)
      PROVE  Interval(ComplementOfRange(w)) \/ Hole(ComplementOfRange(w))
  BY <1>2, ComplementOfInterval
<1>3. ASSUME NEW u \in {r, ComplementOfRange(r)}, NEW v \in {s, ComplementOfRange(s)}
      PROVE  IsSubset(u, v) <=> PointsOf(u) \subseteq PointsOf(v)
  <2>1. (Interval(u) \/ Hole(u)) /\ (Interval(v) \/ Hole(v))
    BY <1>2
  <2> QED
    BY <1>1, <2>1
<1> QED
  BY <1>3, IntersectsRight DEF RangesCompareRight

\* The natural numbers are well-founded.
LEMMA LeastNumber ==
  ASSUME NEW T, T \subseteq Nat, T # {}
  PROVE  \E n \in T : \A m \in T : n <= m
<1> DEFINE R == OpToRel(<, Nat)
<1>1. IsWellFoundedOn(R, Nat)
  BY NatLessThanWellFounded
<1>2. PICK n \in T : \A m \in T : <<m, n>> \notin R
  <2> HIDE DEF R
  <2> QED
    BY <1>1, WFMin
<1>3. \A m \in T : ~(m < n)
  <2> SUFFICES ASSUME NEW m \in T, m < n PROVE FALSE
    OBVIOUS
  <2>1. <<m, n>> \in Nat \X Nat /\ <<m, n>>[1] < <<m, n>>[2]
    OBVIOUS
  <2>2. <<m, n>> \in R
    BY <2>1 DEF OpToRel
  <2> QED
    BY <1>2, <2>2
<1> QED
  BY <1>3

\* What holds at first, and after each turn if it did before, holds after all turns.
LEMMA EveryTurn ==
  ASSUME NEW N \in Nat, NEW T, 0 \in T, \A n \in 0 .. N : n < N /\ n \in T => n + 1 \in T
  PROVE  \A n \in 0 .. N : n \in T
<1> DEFINE Bad == {n \in 0 .. N : n \notin T}
<1>1. SUFFICES ASSUME Bad # {} PROVE FALSE
  OBVIOUS
<1>2. PICK n \in Bad : \A m \in Bad : n <= m
  <2>1. Bad \subseteq Nat
    OBVIOUS
  <2> HIDE DEF Bad
  <2> QED
    BY <1>1, <2>1, LeastNumber
<1>3. n # 0 /\ n \in 1 .. N
  OBVIOUS
<1>4. n - 1 \in 0 .. N /\ n - 1 < N /\ n - 1 \in T /\ (n - 1) + 1 = n
  BY <1>2, <1>3
<1> QED
  BY <1>2, <1>4

\* A loop of N turns from s0 on, the n-th of which is step[n].
IsLoop(f, N, S, s0, step) ==
  f \in [0 .. N -> S] /\ f[0] = s0 /\ \A n \in 1 .. N : f[n] = step[n][f[n - 1]]

StaysIn(N, S, step) == \A n \in 1 .. N : \A x \in S : step[n][x] \in S

\* The loop has its turns: the function that its definition asks for exists.
LEMMA Turns ==
  ASSUME NEW N \in Nat, NEW S, NEW s0 \in S, NEW step, StaysIn(N, S, step)
  PROVE  \E f : IsLoop(f, N, S, s0, step)
<1>0. \A n \in 1 .. N : \A x \in S : step[n][x] \in S
  BY DEF StaysIn
<1> DEFINE Runs(f, k) == f \in [0 .. k -> S] /\ f[0] = s0 /\ \A n \in 1 .. k : f[n] = step[n][f[n - 1]]
           T == {k \in 0 .. N : \E f : Runs(f, k)}
<1>1. 0 \in T
  <2>1. Runs([n \in 0 .. 0 |-> s0], 0)
    OBVIOUS
  <2> HIDE DEF Runs
  <2> QED
    BY <2>1
<1>2. ASSUME NEW k \in 0 .. N, k < N, k \in T PROVE k + 1 \in T
  <2>1. PICK f : Runs(f, k)
    BY <1>2
  <2> DEFINE g == [n \in 0 .. k + 1 |-> IF n = k + 1 THEN step[k + 1][f[k]] ELSE f[n]]
  <2>2. k \in Nat /\ k + 1 \in 1 .. N /\ f[k] \in S /\ step[k + 1][f[k]] \in S
    BY <1>0, <1>2, <2>1
  <2>3. ASSUME NEW n \in 0 .. k + 1 PROVE g[n] \in S
    BY <2>1, <2>2
  <2>4. g \in [0 .. k + 1 -> S] /\ g[0] = s0
    BY <2>1, <2>2, <2>3
  <2>5. ASSUME NEW n \in 1 .. k + 1 PROVE g[n] = step[n][g[n - 1]]
    <3>1. CASE n = k + 1
      <4>1. g[n] = step[k + 1][f[k]] /\ g[n - 1] = f[k]
        BY <2>2, <3>1
      <4> QED
        BY <3>1, <4>1
    <3>2. CASE n # k + 1
      <4>1. n \in 1 .. k /\ g[n] = f[n] /\ g[n - 1] = f[n - 1]
        BY <2>2, <3>2
      <4> QED
        BY <2>1, <4>1
    <3> QED
      BY <3>1, <3>2
  <2> HIDE DEF g
  <2>6. Runs(g, k + 1)
    BY <2>4, <2>5
  <2> QED
    BY <2>2, <2>6
<1> HIDE DEF T
<1>3. N \in T
  BY <1>1, <1>2, EveryTurn
<1> QED
  BY <1>3 DEF T, IsLoop

---------------------------------------------------------------------------
(* Lists of ranges *)

Covers(list, p) == \E i \in DOMAIN list : p \in PointsOf(list[i])

\* In order, and no two could be one.
GapList(list) ==
  /\ list \in Seq(RangeRecord)
  /\ \A i \in DOMAIN list : Interval(list[i])
  /\ \A i, j \in DOMAIN list : i < j => Gap(list[i], list[j])

\* All of the list ends before r begins.
Behind(list, r) == \A i \in DOMAIN list : Gap(list[i], r)

\* No range of the list begins before r does.
Follows(list, r) == \A i \in DOMAIN list : Low(r) <= Low(list[i])

\* An empty list is in order and covers nothing.
LEMMA EmptyList ==
  /\ GapList(<<>>) /\ \A r : Behind(<<>>, r) /\ Follows(<<>>, r)
  /\ \A p : ~Covers(<<>>, p)
<1>1. <<>> \in Seq(RangeRecord) /\ DOMAIN <<>> = {}
  BY EmptySeq, LenProperties
<1> QED
  BY <1>1 DEF GapList, Behind, Follows, Covers

\* A list of one range covers what the range does.
LEMMA OneInList ==
  ASSUME NEW r
  PROVE  /\ DOMAIN <<r>> = {1} /\ <<r>>[1] = r /\ Head(<<r>>) = r /\ <<r>> # <<>> /\ Len(<<r>>) = 1
         /\ \A p : Covers(<<r>>, p) <=> p \in PointsOf(r)
<1>1. DOMAIN <<r>> = {1} /\ <<r>>[1] = r /\ Head(<<r>>) = r /\ <<r>> # <<>> /\ Len(<<r>>) = 1
  OBVIOUS
<1> QED
  BY <1>1 DEF Covers

\* The first range of a list, and the others.
LEMMA HeadAndTail ==
  ASSUME NEW list, GapList(list), list # <<>>
  PROVE  /\ Interval(Head(list)) /\ Head(list) = list[1] /\ 1 \in DOMAIN list
         /\ GapList(Tail(list)) /\ Len(Tail(list)) = Len(list) - 1 /\ Len(list) \in Nat /\ Len(list) > 0
         /\ \A i \in DOMAIN Tail(list) : Gap(Head(list), Tail(list)[i])
         /\ \A r : Follows(list, r) => Low(r) <= Low(Head(list)) /\ Follows(Tail(list), r)
         /\ \A p : Covers(list, p) <=> p \in PointsOf(Head(list)) \/ Covers(Tail(list), p)
<1>1. list \in Seq(RangeRecord)
  BY DEF GapList
<1>2. Len(list) \in Nat /\ Len(list) > 0 /\ DOMAIN list = 1 .. Len(list)
  <2>1. Len(list) \in Nat /\ DOMAIN list = 1 .. Len(list)
    BY <1>1, LenProperties
  <2>2. Len(list) # 0
    BY <1>1, EmptySeq
  <2> QED
    BY <2>1, <2>2
<1>3. /\ Tail(list) \in Seq(RangeRecord) /\ Len(Tail(list)) = Len(list) - 1
      /\ \A i \in 1 .. Len(Tail(list)) : Tail(list)[i] = list[i + 1]
      /\ DOMAIN Tail(list) = 1 .. Len(Tail(list))
  <2>1. Tail(list) \in Seq(RangeRecord)
    BY <1>1, HeadTailProperties
  <2> QED
    BY <1>1, <2>1, HeadTailProperties, LenProperties
<1>4. Head(list) = list[1]
  BY <1>1
<1> DEFINE size == Len(list)
           tail == Tail(list)
<1>5. /\ size \in Nat /\ size > 0 /\ DOMAIN list = 1 .. size /\ DOMAIN tail = 1 .. (size - 1)
      /\ \A i \in 1 .. (size - 1) : tail[i] = list[i + 1]
  BY <1>2, <1>3
<1> HIDE DEF size, tail
<1>6. 1 \in DOMAIN list
  BY <1>5
<1>7. ASSUME NEW i \in DOMAIN tail PROVE i + 1 \in DOMAIN list /\ tail[i] = list[i + 1] /\ 1 < i + 1
  BY <1>5
<1>8. ASSUME NEW i \in DOMAIN tail, NEW j \in DOMAIN tail, i < j PROVE i + 1 < j + 1
  BY <1>5, <1>8
<1>9. ASSUME NEW i \in DOMAIN list PROVE i = 1 \/ (i - 1 \in DOMAIN tail /\ tail[i - 1] = list[i])
  BY <1>5
<1>10. GapList(tail)
  BY <1>3, <1>7, <1>8 DEF GapList, tail
<1>11. \A i \in DOMAIN tail : Gap(list[1], tail[i])
  BY <1>6, <1>7 DEF GapList
<1>12. \A r : Follows(list, r) => Low(r) <= Low(list[1]) /\ Follows(tail, r)
  BY <1>6, <1>7 DEF Follows
<1>13. \A p : Covers(list, p) <=> p \in PointsOf(list[1]) \/ Covers(tail, p)
  BY <1>6, <1>7, <1>9 DEF Covers
<1>14. Interval(list[1])
  BY <1>6 DEF GapList
<1> QED
  BY <1>2, <1>3, <1>4, <1>6, <1>10, <1>11, <1>12, <1>13, <1>14 DEF tail

\* What ends before r begins also ends before what begins later.
LEMMA GapsAdd ==
  ASSUME NEW q, NEW r, NEW s, q \in RangeRecord, Interval(r), s \in RangeRecord, Gap(q, r), Low(r) <= Low(s)
  PROVE  Gap(q, s)
  BY RangeNumbers, IntervalNumbers DEF Gap

\* A range is put to the end of a list.
LEMMA PutBehind ==
  ASSUME NEW list, NEW r, GapList(list), Interval(r), Behind(list, r)
  PROVE  /\ GapList(list \o <<r>>)
         /\ \A p : Covers(list \o <<r>>, p) <=> Covers(list, p) \/ Covers(<<r>>, p)
         /\ \A s : s \in RangeRecord /\ Gap(r, s) => Behind(list \o <<r>>, s)
<1> DEFINE all  == list \o <<r>>
           size == Len(list)
<1>1. list \in Seq(RangeRecord) /\ r \in RangeRecord /\ <<r>> \in Seq(RangeRecord)
  BY IntervalNumbers DEF GapList
<1>2. all \in Seq(RangeRecord) /\ Len(all) = size + 1 /\ size \in Nat /\ DOMAIN list = 1 .. size
  BY <1>1, ConcatProperties, LenProperties, OneInList
<1>3. DOMAIN all = 1 .. (size + 1)
  BY <1>2, LenProperties
<1>4. \A i \in 1 .. (size + 1) : all[i] = IF i <= size THEN list[i] ELSE r
  <2>1. \A i \in 1 .. (size + 1) : all[i] = IF i <= size THEN list[i] ELSE <<r>>[i - size]
    BY <1>1, ConcatProperties, OneInList
  <2>2. \A i \in 1 .. (size + 1) : ~(i <= size) => i - size = 1
    BY <1>2
  <2> QED
    BY <2>1, <2>2
<1> HIDE DEF all, size
<1>5. ASSUME NEW i \in DOMAIN all
      PROVE  (i \in DOMAIN list /\ all[i] = list[i]) \/ (i = size + 1 /\ all[i] = r)
  BY <1>2, <1>3, <1>4
<1>6. ASSUME NEW i \in DOMAIN list PROVE i \in DOMAIN all /\ all[i] = list[i] /\ i < size + 1
  BY <1>2, <1>3, <1>4
<1>7. size + 1 \in DOMAIN all /\ all[size + 1] = r
  BY <1>2, <1>3, <1>4
<1>8. ASSUME NEW i \in DOMAIN all, NEW j \in DOMAIN all, i < j PROVE Gap(all[i], all[j])
  <2>1. i \in DOMAIN list
    BY <1>2, <1>3, <1>5, <1>8
  <2> QED
    BY <1>5, <1>6, <1>8, <2>1 DEF GapList, Behind
<1>9. GapList(all)
  BY <1>2, <1>5, <1>8 DEF GapList
<1>10. \A p : Covers(all, p) <=> Covers(list, p) \/ Covers(<<r>>, p)
  BY <1>5, <1>6, <1>7, OneInList DEF Covers
<1>11. ASSUME NEW s, s \in RangeRecord, Gap(r, s) PROVE Behind(all, s)
  <2>1. Low(r) <= Low(s)
    BY <1>11, IntervalNumbers, RangeNumbers DEF Gap
  <2>2. ASSUME NEW i \in DOMAIN list PROVE Gap(list[i], s)
    <3>1. list[i] \in RangeRecord /\ Gap(list[i], r)
      BY IntervalNumbers DEF GapList, Behind
    <3> QED
      BY <1>11, <2>1, <3>1, GapsAdd
  <2> QED
    BY <1>5, <1>11, <2>2 DEF Behind
<1> QED
  BY <1>9, <1>10, <1>11 DEF all

---------------------------------------------------------------------------
(* The loop of Union *)

\* What was gone through, and the last range of it.
Front(behind, last) ==
  /\ GapList(behind)
  /\ \/ behind = <<>> /\ last = <<>>
     \/ \E r : last = <<r>> /\ Solid(r) /\ Behind(behind, r)

\* What is to come.
Ahead(last, list) == GapList(list) /\ (last # <<>> => Follows(list, Head(last)))

Lists == [behind : Seq(RangeRecord), last : Seq(RangeRecord),
          ours : Seq(RangeRecord), theirs : Seq(RangeRecord)]

\* All points of X are in one of the lists.
Shared(m, X) ==
  \A p : p \in X <=> Covers(m.behind, p) \/ Covers(m.last, p) \/ Covers(m.ours, p) \/ Covers(m.theirs, p)

MergesRight(m, X) ==
  /\ m \in Lists /\ Front(m.behind, m.last)
  /\ Ahead(m.last, m.ours) /\ Ahead(m.last, m.theirs)
  /\ Shared(m, X)

\* The ranges that are left.
Left(m) == Len(m.ours) + Len(m.theirs)

\* The state of the loop of Union, field by field.
LEMMA MergingFacts ==
  ASSUME NEW b, NEW l, NEW o, NEW t
  PROVE  LET m == Merging(b, l, o, t)
         IN  /\ m.behind = b /\ m.last = l /\ m.ours = o /\ m.theirs = t
             /\ b \in Seq(RangeRecord) /\ l \in Seq(RangeRecord) /\ o \in Seq(RangeRecord)
                  /\ t \in Seq(RangeRecord) => m \in Lists
  BY DEF Merging, Lists

\* A list begins with its first range.
LEMMA FollowsFirst ==
  ASSUME NEW list, NEW r, GapList(list), list # <<>> => Low(r) <= Low(Head(list)), r \in RangeRecord
  PROVE  Follows(list, r)
<1>1. CASE list = <<>>
  BY <1>1, EmptyList
<1>2. CASE list # <<>>
  <2>1. Interval(list[1]) /\ Head(list) = list[1] /\ 1 \in DOMAIN list /\ Low(r) <= Low(list[1])
    BY <1>2, HeadAndTail
  <2>2. ASSUME NEW i \in DOMAIN list PROVE Low(r) <= Low(list[i])
    <3>1. i = 1 \/ 1 < i
      <4>1. DOMAIN list = 1 .. Len(list) /\ Len(list) \in Nat
        BY LenProperties DEF GapList
      <4> QED
        BY <4>1
    <3>2. Interval(list[i])
      BY DEF GapList
    <3>3. 1 < i => Gap(list[1], list[i])
      BY <2>1 DEF GapList
    <3> QED
      BY <2>1, <3>1, <3>2, <3>3, IntervalNumbers, RangeNumbers DEF Gap
  <2> QED
    BY <2>2 DEF Follows
<1> QED
  BY <1>1, <1>2

\* What comes after the first range follows it.
LEMMA TailFollows ==
  ASSUME NEW list, GapList(list), list # <<>>, NEW r, r \in RangeRecord, Low(r) <= Low(Head(list))
  PROVE  Follows(Tail(list), r)
  BY HeadAndTail, FollowsFirst

\* The last range is passed: n is the next.
LEMMA LastIsPassed ==
  ASSUME NEW b, NEW l, NEW n, Front(b, l), Solid(n), l # <<>> => Interval(Head(l)) /\ Gap(Head(l), n)
  PROVE  /\ Front(b \o l, <<n>>)
         /\ b \o l \in Seq(RangeRecord) /\ <<n>> \in Seq(RangeRecord)
         /\ \A p : Covers(b \o l, p) <=> Covers(b, p) \/ Covers(l, p)
<1>1. n \in RangeRecord /\ <<n>> \in Seq(RangeRecord)
  BY DEF Solid
<1>2. CASE b = <<>> /\ l = <<>>
  <2>1. b \o l = <<>>
    BY <1>2, ConcatEmptySeq, EmptySeq
  <2> QED
    BY <1>1, <1>2, <2>1, EmptyList DEF Front, GapList
<1>3. CASE \E r : l = <<r>> /\ Solid(r) /\ Behind(b, r)
  <2>1. PICK r : l = <<r>> /\ Solid(r) /\ Behind(b, r)
    BY <1>3
  <2>2. Interval(r) /\ Gap(r, n) /\ GapList(b)
    BY <2>1, OneInList DEF Front
  <2> QED
    BY <1>1, <2>1, <2>2, PutBehind DEF Front, GapList
<1> QED
  BY <1>2, <1>3 DEF Front

\* Neither meets the other, and r does not begin behind s.
LEMMA ApartAndBefore ==
  ASSUME NEW r, NEW s, Interval(r), Interval(s), ~Meets(r, s), Low(r) <= Low(s) \/ RangeLessThan(r, s) \/ ~RangeLessThan(s, r)
  PROVE  Gap(r, s) /\ Low(r) <= Low(s)
<1>1. Answered(r, s) /\ Answered(s, r)
  BY IntervalsAnswer
<1>2. /\ Low(r) \in Nat /\ High(r) \in Nat /\ (High(r) = 0 \/ Low(r) < High(r)) /\ (Low(r) # 0 \/ High(r) # 0)
      /\ Low(s) \in Nat /\ High(s) \in Nat /\ (High(s) = 0 \/ Low(s) < High(s)) /\ (Low(s) # 0 \/ High(s) # 0)
  BY IntervalNumbers
<1> QED
  BY <1>1, <1>2 DEF Answered, Gap

\* The last range is made longer by the first of a list; the other list is `other`.
LEMMA LastIsWidened ==
  ASSUME NEW b, NEW r, NEW list, NEW other, Front(b, <<r>>), Interval(r),
         Ahead(<<r>>, list), Ahead(<<r>>, other), list # <<>>, Meets(r, Head(list))
  PROVE  LET w == MergeRanges(r, Head(list))
         IN  /\ Front(b, <<w>>) /\ Ahead(<<w>>, Tail(list)) /\ Ahead(<<w>>, other)
             /\ <<w>> \in Seq(RangeRecord)
             /\ \A p : Covers(<<w>>, p) \/ Covers(Tail(list), p) <=> Covers(<<r>>, p) \/ Covers(list, p)
<1> DEFINE h == Head(list)
           w == MergeRanges(r, h)
<1>1. GapList(list) /\ Follows(list, r) /\ GapList(other) /\ Follows(other, r) /\ GapList(b) /\ Behind(b, r)
  <2>1. Head(<<r>>) = r /\ <<r>> # <<>> /\ <<r>>[1] = r
    BY OneInList
  <2>2. \E q : <<r>> = <<q>> /\ Behind(b, q)
    BY <2>1 DEF Front
  <2>3. Behind(b, r)
    BY <2>1, <2>2
  <2> QED
    BY <2>1, <2>3 DEF Front, Ahead
<1>2. /\ Interval(h) /\ GapList(Tail(list)) /\ Low(r) <= Low(h) /\ Follows(Tail(list), r)
      /\ \A p : Covers(list, p) <=> p \in PointsOf(h) \/ Covers(Tail(list), p)
  BY <1>1, HeadAndTail
<1>3. /\ Solid(w) /\ Low(w) = Lower(Low(r), Low(h)) /\ PointsOf(w) = PointsOf(r) \cup PointsOf(h)
  BY <1>2, MergedRange
<1>4. Low(w) = Low(r)
  BY <1>2, <1>3, IntervalNumbers DEF Lower
<1>5. w \in RangeRecord /\ <<w>> \in Seq(RangeRecord)
  BY <1>3 DEF Solid
<1>6. Behind(b, w) /\ Follows(other, w) /\ Follows(Tail(list), w)
  BY <1>1, <1>2, <1>4 DEF Behind, Follows, Gap
<1>7. Head(<<w>>) = w
  OBVIOUS
<1>8. \A p : Covers(<<w>>, p) \/ Covers(Tail(list), p) <=> Covers(<<r>>, p) \/ Covers(list, p)
  BY <1>2, <1>3, OneInList
<1> QED
  BY <1>1, <1>2, <1>3, <1>5, <1>6, <1>7, <1>8 DEF Front, Ahead

\* A turn of the loop takes a range, and loses no point.
LEMMA TurnIsRight ==
  ASSUME NEW m, NEW X, MergesRight(m, X), ~IsMerged(m)
  PROVE  MergesRight(MergeNext(m), X) /\ Left(MergeNext(m)) < Left(m) /\ Left(m) \in Nat /\ Left(MergeNext(m)) \in Nat
<1> DEFINE b == m.behind
           l == m.last
           o == m.ours
           t == m.theirs
           passed == b \o l
<1>1. /\ m \in Lists /\ Front(b, l) /\ Ahead(l, o) /\ Ahead(l, t) /\ Shared(m, X)
      /\ b \in Seq(RangeRecord) /\ l \in Seq(RangeRecord) /\ GapList(o) /\ GapList(t)
      /\ o \in Seq(RangeRecord) /\ t \in Seq(RangeRecord) /\ Len(o) \in Nat /\ Len(t) \in Nat
  <2>1. /\ m \in Lists /\ Front(b, l) /\ Ahead(l, o) /\ Ahead(l, t) /\ Shared(m, X)
    BY DEF MergesRight
  <2>2. b \in Seq(RangeRecord) /\ l \in Seq(RangeRecord) /\ o \in Seq(RangeRecord) /\ t \in Seq(RangeRecord)
    BY <2>1 DEF Lists
  <2> QED
    BY <2>1, <2>2, LenProperties DEF Ahead
<1>2. (o # <<>> \/ t # <<>>) /\ (l # <<>> => ~IsUniverse(Head(l)))
  BY DEF IsMerged, BecameUniverse
<1>3. ASSUME l # <<>>
      PROVE  /\ l = <<Head(l)>> /\ Interval(Head(l)) /\ Head(l) \in RangeRecord
             /\ o # <<>> => Low(Head(l)) <= Low(Head(o))
             /\ t # <<>> => Low(Head(l)) <= Low(Head(t))
  <2>1. PICK r : l = <<r>> /\ Solid(r)
    BY <1>1, <1>3 DEF Front
  <2>2. Head(l) = r /\ ~IsUniverse(r)
    BY <1>2, <1>3, <2>1
  <2>3. Interval(r)
    BY <2>1, <2>2, RangesAreDescribed, RangeNumbers DEF Solid, Interval, Described
  <2>4. Follows(o, r) /\ Follows(t, r)
    BY <1>1, <1>3, <2>2 DEF Ahead
  <2> QED
    BY <1>1, <2>1, <2>2, <2>3, <2>4, HeadAndTail, IntervalNumbers
<1>4. /\ o # <<>> => Interval(Head(o)) /\ GapList(Tail(o)) /\ Tail(o) \in Seq(RangeRecord)
                       /\ Len(Tail(o)) = Len(o) - 1 /\ Len(o) > 0
                       /\ \A p : Covers(o, p) <=> p \in PointsOf(Head(o)) \/ Covers(Tail(o), p)
      /\ t # <<>> => Interval(Head(t)) /\ GapList(Tail(t)) /\ Tail(t) \in Seq(RangeRecord)
                       /\ Len(Tail(t)) = Len(t) - 1 /\ Len(t) > 0
                       /\ \A p : Covers(t, p) <=> p \in PointsOf(Head(t)) \/ Covers(Tail(t), p)
  BY <1>1, HeadAndTail DEF GapList
<1>5. \A p : p \in X <=> Covers(b, p) \/ Covers(l, p) \/ Covers(o, p) \/ Covers(t, p)
  BY <1>1 DEF Shared
<1>6. ASSUME NEW B, NEW L, NEW O, NEW T, MergeNext(m) = Merging(B, L, O, T),
             B \in Seq(RangeRecord), L \in Seq(RangeRecord), O \in Seq(RangeRecord), T \in Seq(RangeRecord),
             Front(B, L), Ahead(L, O), Ahead(L, T), Len(O) + Len(T) < Len(o) + Len(t),
             Len(O) \in Nat, Len(T) \in Nat,
             \A p : Covers(B, p) \/ Covers(L, p) \/ Covers(O, p) \/ Covers(T, p)
                      <=> Covers(b, p) \/ Covers(l, p) \/ Covers(o, p) \/ Covers(t, p)
      PROVE  MergesRight(MergeNext(m), X) /\ Left(MergeNext(m)) < Left(m) /\ Left(m) \in Nat /\ Left(MergeNext(m)) \in Nat
  <2>1. /\ MergeNext(m).behind = B /\ MergeNext(m).last = L
        /\ MergeNext(m).ours = O /\ MergeNext(m).theirs = T /\ MergeNext(m) \in Lists
    BY <1>6, MergingFacts
  <2>2. Shared(MergeNext(m), X)
    BY <1>5, <1>6, <2>1 DEF Shared
  <2>3. MergesRight(MergeNext(m), X)
    BY <1>6, <2>1, <2>2 DEF MergesRight
  <2>4. Left(m) = Len(o) + Len(t) /\ Left(MergeNext(m)) = Len(O) + Len(T)
    BY <2>1 DEF Left
  <2>5. Left(MergeNext(m)) < Left(m) /\ Left(m) \in Nat /\ Left(MergeNext(m)) \in Nat
    <3> DEFINE lo == Len(o)
               lt == Len(t)
               LO == Len(O)
               LT == Len(T)
    <3>1. lo \in Nat /\ lt \in Nat /\ LO \in Nat /\ LT \in Nat /\ LO + LT < lo + lt
      BY <1>1, <1>6
    <3>2. Left(m) = lo + lt /\ Left(MergeNext(m)) = LO + LT
      BY <2>4
    <3> HIDE DEF lo, lt, LO, LT
    <3> QED
      BY <3>1, <3>2
  <2> QED
    BY <2>3, <2>5
<1> HIDE DEF b, l, o, t
<1>7. CASE Extends(m, o)
  <2>1. l # <<>> /\ o # <<>> /\ Meets(Head(l), Head(o))
    BY <1>7 DEF Extends, l
  <2> DEFINE r == Head(l)
             w == MergeRanges(r, Head(o))
  <2>2. MergeNext(m) = Merging(b, <<w>>, Tail(o), t)
    BY <1>7 DEF MergeNext, Widened, b, l, o, t
  <2>3. l = <<r>> /\ Interval(r) /\ Meets(r, Head(o))
    BY <1>3, <2>1
  <2> HIDE DEF r
  <2>4. /\ Front(b, <<w>>) /\ Ahead(<<w>>, Tail(o)) /\ Ahead(<<w>>, t) /\ <<w>> \in Seq(RangeRecord)
        /\ \A p : Covers(<<w>>, p) \/ Covers(Tail(o), p) <=> Covers(l, p) \/ Covers(o, p)
    BY <1>1, <2>1, <2>3, LastIsWidened
  <2>5. Len(Tail(o)) \in Nat /\ Len(t) \in Nat /\ Len(Tail(o)) + Len(t) < Len(o) + Len(t)
    BY <1>1, <1>4, <2>1
  <2>6. Tail(o) \in Seq(RangeRecord) /\ t \in Seq(RangeRecord)
    BY <1>1, <1>4, <2>1
  <2>7. \A p : Covers(b, p) \/ Covers(<<w>>, p) \/ Covers(Tail(o), p) \/ Covers(t, p)
                 <=> Covers(b, p) \/ Covers(l, p) \/ Covers(o, p) \/ Covers(t, p)
    BY <2>4
  <2> HIDE DEF w
  <2> QED
    BY <1>1, <1>6, <2>2, <2>4, <2>5, <2>6, <2>7
<1>8. CASE ~Extends(m, o) /\ Extends(m, t)
  <2>1. l # <<>> /\ t # <<>> /\ Meets(Head(l), Head(t))
    BY <1>8 DEF Extends, l
  <2> DEFINE r == Head(l)
             w == MergeRanges(r, Head(t))
  <2>2. MergeNext(m) = Merging(b, <<w>>, o, Tail(t))
    BY <1>8 DEF MergeNext, Widened, b, l, o, t
  <2>3. l = <<r>> /\ Interval(r) /\ Meets(r, Head(t))
    BY <1>3, <2>1
  <2> HIDE DEF r
  <2>4. /\ Front(b, <<w>>) /\ Ahead(<<w>>, Tail(t)) /\ Ahead(<<w>>, o) /\ <<w>> \in Seq(RangeRecord)
        /\ \A p : Covers(<<w>>, p) \/ Covers(Tail(t), p) <=> Covers(l, p) \/ Covers(t, p)
    BY <1>1, <2>1, <2>3, LastIsWidened
  <2>5. Len(o) \in Nat /\ Len(Tail(t)) \in Nat /\ Len(o) + Len(Tail(t)) < Len(o) + Len(t)
    BY <1>1, <1>4, <2>1
  <2>6. o \in Seq(RangeRecord) /\ Tail(t) \in Seq(RangeRecord)
    BY <1>1, <1>4, <2>1
  <2>7. \A p : Covers(b, p) \/ Covers(<<w>>, p) \/ Covers(o, p) \/ Covers(Tail(t), p)
                 <=> Covers(b, p) \/ Covers(l, p) \/ Covers(o, p) \/ Covers(t, p)
    BY <2>4
  <2> HIDE DEF w
  <2> QED
    BY <1>1, <1>6, <2>2, <2>4, <2>5, <2>6, <2>7
<1>9. ASSUME ~Extends(m, o), ~Extends(m, t), NEW n, Solid(n), NEW O, NEW T,
             MergeNext(m) = Merging(b \o l, <<n>>, O, T), GapList(O), GapList(T),
             o # <<>> \/ t # <<>>,
             o = <<>> \/ t = <<>> \/ Low(Head(o)) <= Low(n) \/ Low(Head(t)) <= Low(n),
             o = <<>> => Low(Head(t)) <= Low(n),
             t = <<>> => Low(Head(o)) <= Low(n),
             Follows(O, n), Follows(T, n), Len(O) + Len(T) < Len(o) + Len(t),
             \A p : p \in PointsOf(n) \/ Covers(O, p) \/ Covers(T, p) <=> Covers(o, p) \/ Covers(t, p)
      PROVE  MergesRight(MergeNext(m), X) /\ Left(MergeNext(m)) < Left(m) /\ Left(m) \in Nat /\ Left(MergeNext(m)) \in Nat
  <2>1. n \in RangeRecord /\ Low(n) \in Nat
    BY <1>9, RangeNumbers DEF Solid
  <2>2. ASSUME l # <<>> PROVE Interval(Head(l)) /\ Gap(Head(l), n)
    <3>1. /\ o # <<>> => Gap(Head(l), Head(o)) /\ Low(Head(o)) \in Nat
          /\ t # <<>> => Gap(Head(l), Head(t)) /\ Low(Head(t)) \in Nat
      <4>1. /\ o # <<>> => ~Meets(Head(l), Head(o))
            /\ t # <<>> => ~Meets(Head(l), Head(t))
        BY <1>9, <2>2 DEF Extends, l
      <4> QED
        BY <1>3, <1>4, <2>2, <4>1, ApartAndBefore, IntervalNumbers
    <3>2. Interval(Head(l)) /\ High(Head(l)) \in Nat
      BY <1>3, <2>2, IntervalNumbers
    <3>3. High(Head(l)) # 0 /\ High(Head(l)) < Low(n)
      BY <1>9, <2>1, <3>1, <3>2 DEF Gap
    <3> QED
      BY <3>2, <3>3 DEF Gap
  <2>3. /\ Front(b \o l, <<n>>) /\ b \o l \in Seq(RangeRecord) /\ <<n>> \in Seq(RangeRecord)
        /\ \A p : Covers(b \o l, p) <=> Covers(b, p) \/ Covers(l, p)
    BY <1>1, <1>9, <2>2, LastIsPassed
  <2>4. Ahead(<<n>>, O) /\ Ahead(<<n>>, T)
    BY <1>9, OneInList DEF Ahead
  <2>5. O \in Seq(RangeRecord) /\ T \in Seq(RangeRecord) /\ Len(O) \in Nat /\ Len(T) \in Nat
    BY <1>9, LenProperties DEF GapList
  <2>6. \A p : Covers(b \o l, p) \/ Covers(<<n>>, p) \/ Covers(O, p) \/ Covers(T, p)
                 <=> Covers(b, p) \/ Covers(l, p) \/ Covers(o, p) \/ Covers(t, p)
    <3>1. \A p : Covers(<<n>>, p) <=> p \in PointsOf(n)
      BY OneInList
    <3> QED
      BY <1>9, <2>3, <3>1
  <2> QED
    BY <1>6, <1>9, <2>3, <2>4, <2>5, <2>6
<1>10. CASE ~Extends(m, o) /\ ~Extends(m, t)
  <2>1. CASE o # <<>> /\ t # <<>> /\ Meets(Head(o), Head(t))
    <3> DEFINE n == MergeRanges(Head(o), Head(t))
    <3>1. MergeNext(m) = Merging(b \o l, <<n>>, Tail(o), Tail(t))
      BY <1>10, <2>1 DEF MergeNext, b, l, o, t
    <3>2. /\ Solid(n) /\ Low(n) = Lower(Low(Head(o)), Low(Head(t)))
          /\ PointsOf(n) = PointsOf(Head(o)) \cup PointsOf(Head(t))
      BY <1>4, <2>1, MergedRange
    <3>3. Low(Head(o)) \in Nat /\ Low(Head(t)) \in Nat /\ n \in RangeRecord
      BY <1>4, <2>1, <3>2, IntervalNumbers DEF Solid
    <3> HIDE DEF n
    <3>4. /\ Low(n) <= Low(Head(o)) /\ Low(n) <= Low(Head(t))
          /\ Low(Head(o)) <= Low(n) \/ Low(Head(t)) <= Low(n)
      BY <3>2, <3>3 DEF Lower
    <3>5. Follows(Tail(o), n) /\ Follows(Tail(t), n)
      BY <1>1, <2>1, <3>3, <3>4, TailFollows
    <3>6. Len(Tail(o)) + Len(Tail(t)) < Len(o) + Len(t)
      BY <1>1, <1>4, <2>1
    <3>7. \A p : p \in PointsOf(n) \/ Covers(Tail(o), p) \/ Covers(Tail(t), p) <=> Covers(o, p) \/ Covers(t, p)
      BY <1>4, <2>1, <3>2
    <3> QED
      BY <1>4, <1>9, <1>10, <2>1, <3>1, <3>2, <3>4, <3>5, <3>6, <3>7
  <2>2. CASE /\ ~(o # <<>> /\ t # <<>> /\ Meets(Head(o), Head(t)))
             /\ t # <<>> /\ (o # <<>> => RangeLessThan(Head(t), Head(o)))
    <3> DEFINE n == Head(t)
    <3>1. MergeNext(m) = Merging(b \o l, <<n>>, o, Tail(t))
      BY <1>2, <1>10, <2>2 DEF MergeNext, b, l, o, t
    <3>2. Interval(n) /\ Solid(n) /\ n \in RangeRecord /\ Low(n) \in Nat
      BY <1>4, <2>2, IntervalsAreSolid, IntervalNumbers
    <3>3. o # <<>> => Low(n) <= Low(Head(o))
      <4>1. ASSUME o # <<>> PROVE ~Meets(n, Head(o))
        <5>1. ~Meets(Head(o), n) /\ Interval(Head(o))
          BY <1>4, <2>2, <4>1
        <5> QED
          BY <3>2, <5>1, IntervalsAnswer DEF Answered
      <4> QED
        BY <1>4, <2>2, <3>2, <4>1, ApartAndBefore
    <3>4. Follows(o, n) /\ Follows(Tail(t), n)
      BY <1>1, <2>2, <3>2, <3>3, FollowsFirst, TailFollows
    <3>5. Len(o) + Len(Tail(t)) < Len(o) + Len(t)
      BY <1>1, <1>4, <2>2
    <3>6. \A p : p \in PointsOf(n) \/ Covers(o, p) \/ Covers(Tail(t), p) <=> Covers(o, p) \/ Covers(t, p)
      BY <1>4, <2>2
    <3>7. Low(Head(t)) <= Low(n)
      BY <3>2
    <3> HIDE DEF n
    <3> QED
      BY <1>1, <1>4, <1>9, <1>10, <2>2, <3>1, <3>2, <3>4, <3>5, <3>6, <3>7
  <2>3. CASE /\ ~(o # <<>> /\ t # <<>> /\ Meets(Head(o), Head(t)))
             /\ ~(t # <<>> /\ (o # <<>> => RangeLessThan(Head(t), Head(o))))
    <3> DEFINE n == Head(o)
    <3>1. MergeNext(m) = Merging(b \o l, <<n>>, Tail(o), t)
      BY <1>2, <1>10, <2>3 DEF MergeNext, b, l, o, t
    <3>2. o # <<>>
      BY <1>2, <2>3
    <3>3. Interval(n) /\ Solid(n) /\ n \in RangeRecord /\ Low(n) \in Nat
      BY <1>4, <3>2, IntervalsAreSolid, IntervalNumbers
    <3>4. t # <<>> => Low(n) <= Low(Head(t))
      BY <1>4, <2>3, <3>2, <3>3, ApartAndBefore
    <3>5. Follows(Tail(o), n) /\ Follows(t, n)
      BY <1>1, <3>2, <3>3, <3>4, FollowsFirst, TailFollows
    <3>6. Len(Tail(o)) + Len(t) < Len(o) + Len(t)
      BY <1>1, <1>4, <3>2
    <3>7. \A p : p \in PointsOf(n) \/ Covers(Tail(o), p) \/ Covers(t, p) <=> Covers(o, p) \/ Covers(t, p)
      BY <1>4, <3>2
    <3>8. Low(Head(o)) <= Low(n)
      BY <3>3
    <3> HIDE DEF n
    <3> QED
      BY <1>1, <1>4, <1>9, <1>10, <3>1, <3>2, <3>3, <3>5, <3>6, <3>7, <3>8
  <2> QED
    BY <2>1, <2>2, <2>3
<1> QED
  BY <1>7, <1>8, <1>10

\* A region of the program: its ranges are in order, and apart.
RegionOK(a) ==
  /\ a \in [ranges : Seq(RangeRecord), universe : BOOLEAN]
  /\ GapList(a.ranges)
  /\ a.universe => a.ranges = <<>>

\* The points of a region are those that its list covers, or all.
LEMMA DenotedPoints ==
  ASSUME NEW a, RegionOK(a)
  PROVE  \A p : p \in Denoted(a) <=> p \in Points /\ (a.universe \/ Covers(a.ranges, p))
<1>1. \A p, r : p \in PointsOf(r) => p \in Points
  BY DEF PointsOf
<1> QED
  BY <1>1 DEF Denoted, RangesOf, Covers

\* When the loop has ended.
LEMMA EndIsRight ==
  ASSUME NEW m, NEW X, MergesRight(m, X), X \in SUBSET Points, IsMerged(m)
  PROVE  LET a == IF BecameUniverse(m) THEN Everything
                  ELSE [ranges |-> m.behind \o m.last, universe |-> FALSE]
         IN  RegionOK(a) /\ Denoted(a) = X
<1>1. Front(m.behind, m.last) /\ Shared(m, X)
  BY DEF MergesRight
<1>2. CASE BecameUniverse(m)
  <2>1. PICK r : m.last = <<r>> /\ Solid(r)
    BY <1>1, <1>2 DEF Front, BecameUniverse
  <2>2. IsUniverse(r) /\ Head(m.last) = r
    BY <1>2, <2>1 DEF BecameUniverse
  <2>3. Low(r) = 0 /\ High(r) = 0
    BY <2>1, <2>2, RangesAreDescribed DEF Solid, Described
  <2>4. \A p \in Points : p \in PointsOf(r)
    BY <2>1, <2>3, SolidPoints DEF Within, From, Until
  <2>5. X = Points
    BY <1>1, <2>1, <2>4, OneInList DEF Shared
  <2>6. RegionOK(Everything) /\ Everything.universe
    BY EmptyList DEF RegionOK, Everything, GapList
  <2>7. Denoted(Everything) = Points
    BY <2>6, DenotedPoints
  <2> QED
    BY <1>2, <2>5, <2>6, <2>7
<1>3. CASE ~BecameUniverse(m)
  <2> DEFINE list == m.behind \o m.last
             a    == [ranges |-> list, universe |-> FALSE]
  <2>1. m.ours = <<>> /\ m.theirs = <<>>
    BY <1>3 DEF IsMerged
  <2>2. \A p : p \in X <=> Covers(m.behind, p) \/ Covers(m.last, p)
    BY <1>1, <2>1, EmptyList DEF Shared
  <2>3. GapList(list) /\ \A p : Covers(list, p) <=> Covers(m.behind, p) \/ Covers(m.last, p)
    <3>1. CASE m.behind = <<>> /\ m.last = <<>>
      <4>1. list = <<>>
        BY <3>1, ConcatEmptySeq, EmptySeq
      <4> QED
        BY <3>1, <4>1, EmptyList
    <3>2. CASE \E r : m.last = <<r>> /\ Solid(r) /\ Behind(m.behind, r)
      <4>1. PICK r : m.last = <<r>> /\ Solid(r) /\ Behind(m.behind, r)
        BY <3>2
      <4>2. ~IsUniverse(r)
        BY <1>3, <4>1, OneInList DEF BecameUniverse
      <4>3. Interval(r)
        BY <4>1, <4>2, RangesAreDescribed DEF Solid, Interval, Described
      <4> QED
        BY <1>1, <4>1, <4>3, PutBehind DEF Front
    <3> QED
      BY <1>1, <3>1, <3>2 DEF Front
  <2> HIDE DEF list
  <2>4. RegionOK(a) /\ ~a.universe /\ a.ranges = list
    BY <2>3 DEF RegionOK, GapList
  <2>5. \A p : p \in Denoted(a) <=> p \in Points /\ Covers(list, p)
    BY <2>4, DenotedPoints
  <2>6. Denoted(a) = X
    <3> HIDE DEF a
    <3> QED
      BY <2>2, <2>3, <2>5
  <2> QED
    BY <1>3, <2>4, <2>6 DEF list
<1> QED
  BY <1>2, <1>3

\* The loop of Union makes a list in order and apart, of the points of both.
LEMMA MergeListsRight ==
  ASSUME NEW o, NEW t, GapList(o), GapList(t)
  PROVE  /\ RegionOK(MergeLists(o, t))
         /\ \A p : p \in Denoted(MergeLists(o, t)) <=> Covers(o, p) \/ Covers(t, p)
<1> DEFINE N == Len(o) + Len(t)
           X == {p \in Points : Covers(o, p) \/ Covers(t, p)}
           S == {m \in Lists : MergesRight(m, X)}
           start == Merging(<<>>, <<>>, o, t)
           go[n \in 0 .. N] == IF n = 0 THEN Merging(<<>>, <<>>, o, t) ELSE MergeNext(go[n - 1])
           step == [n \in 1 .. N |-> [m \in S |-> MergeNext(m)]]
           end == go[N]
<1>1. N \in Nat /\ o \in Seq(RangeRecord) /\ t \in Seq(RangeRecord) /\ Len(o) \in Nat /\ Len(t) \in Nat
  <2>1. o \in Seq(RangeRecord) /\ t \in Seq(RangeRecord)
    BY DEF GapList
  <2>2. Len(o) \in Nat /\ Len(t) \in Nat
    BY <2>1, LenProperties
  <2> QED
    BY <2>1, <2>2
<1>2. start \in S /\ Left(start) = N
  <2>1. <<>> \in Seq(RangeRecord)
    BY EmptySeq
  <2>2. start.behind = <<>> /\ start.last = <<>> /\ start.ours = o /\ start.theirs = t /\ start \in Lists
    BY <1>1, <2>1 DEF Merging, Lists
  <2>3. \A p : (Covers(o, p) => p \in Points) /\ (Covers(t, p) => p \in Points) /\ ~Covers(<<>>, p)
    BY EmptyList DEF Covers, PointsOf
  <2> HIDE DEF start
  <2>4. Front(start.behind, start.last) /\ Ahead(start.last, o) /\ Ahead(start.last, t)
    BY <2>2, EmptyList DEF Front, Ahead
  <2>5. Shared(start, X)
    BY <2>2, <2>3 DEF Shared
  <2>6. MergesRight(start, X)
    BY <2>2, <2>4, <2>5 DEF MergesRight
  <2> QED
    BY <2>2, <2>6 DEF Left
<1>3. ASSUME NEW m \in S
      PROVE  MergeNext(m) \in S /\ (IsMerged(m) => MergeNext(m) = m)
             /\ (~IsMerged(m) => Left(MergeNext(m)) < Left(m)) /\ Left(m) \in Nat /\ Left(MergeNext(m)) \in Nat
  <2>1. MergesRight(m, X) /\ m \in Lists
    OBVIOUS
  <2> HIDE DEF X
  <2>2. CASE ~IsMerged(m)
    <3>1. MergesRight(MergeNext(m), X) /\ Left(MergeNext(m)) < Left(m) /\ Left(m) \in Nat /\ Left(MergeNext(m)) \in Nat
      BY <2>1, <2>2, TurnIsRight
    <3>2. MergeNext(m) \in Lists
      BY <3>1 DEF MergesRight
    <3> QED
      BY <2>2, <3>1, <3>2
  <2>3. CASE IsMerged(m)
    <3>1. MergeNext(m) = m
      BY <2>3 DEF MergeNext
    <3>2. Left(m) \in Nat
      <4>1. m.ours \in Seq(RangeRecord) /\ m.theirs \in Seq(RangeRecord)
        BY <2>1 DEF Lists
      <4>2. Len(m.ours) \in Nat /\ Len(m.theirs) \in Nat
        BY <4>1, LenProperties
      <4> DEFINE lo == Len(m.ours)
                 lt == Len(m.theirs)
      <4>3. lo \in Nat /\ lt \in Nat /\ Left(m) = lo + lt
        BY <4>2 DEF Left
      <4> HIDE DEF lo, lt
      <4> QED
        BY <4>3
    <3> QED
      BY <2>3, <3>1, <3>2
  <2> QED
    BY <2>2, <2>3
<1> N \in Nat
  BY <1>1
<1> start \in S
  BY <1>2
<1> HIDE DEF S, X, N, start
<1>4. \E f : f = [n \in 0 .. N |-> IF n = 0 THEN Merging(<<>>, <<>>, o, t) ELSE MergeNext(f[n - 1])]
  <2>1. \A n \in 1 .. N : \A m \in S : step[n][m] = MergeNext(m) /\ step[n][m] \in S
    BY <1>3
  <2> HIDE DEF step
  <2>2. StaysIn(N, S, step)
    BY <2>1 DEF StaysIn
  <2>7. PICK f : IsLoop(f, N, S, start, step)
    BY <2>2, Turns
  <2>8. f \in [0 .. N -> S] /\ f[0] = start /\ \A n \in 1 .. N : f[n] = step[n][f[n - 1]]
    BY <2>7 DEF IsLoop
  <2>3. ASSUME NEW n \in 1 .. N PROVE f[n] = MergeNext(f[n - 1])
    <3>1. n - 1 \in 0 .. N
      BY <1>1
    <3>2. f[n - 1] \in S
      BY <2>8, <3>1
    <3> QED
      BY <2>1, <2>8, <3>2
  <2>4. f = [n \in 0 .. N |-> f[n]]
    BY <2>8
  <2>5. ASSUME NEW n \in 0 .. N PROVE f[n] = IF n = 0 THEN Merging(<<>>, <<>>, o, t) ELSE MergeNext(f[n - 1])
    <3>1. n = 0 \/ n \in 1 .. N
      BY <1>1
    <3> QED
      BY <2>8, <2>3, <3>1 DEF start
  <2>6. f = [n \in 0 .. N |-> IF n = 0 THEN Merging(<<>>, <<>>, o, t) ELSE MergeNext(f[n - 1])]
    BY <2>4, <2>5
  <2> QED
    BY <2>6
<1>5. go = [n \in 0 .. N |-> IF n = 0 THEN Merging(<<>>, <<>>, o, t) ELSE MergeNext(go[n - 1])]
  BY <1>4, Zenon
<1> HIDE DEF go
<1>6. go[0] = start /\ \A n \in 0 .. N : n < N => go[n + 1] = MergeNext(go[n])
  <2>1. ASSUME NEW n \in 0 .. N, n < N PROVE go[n + 1] = MergeNext(go[n])
    <3>1. n + 1 \in 0 .. N /\ n + 1 # 0 /\ (n + 1) - 1 = n
      BY <1>1, <2>1
    <3> QED
      BY <1>5, <3>1
  <2>2. 0 \in 0 .. N
    BY <1>1
  <2> QED
    BY <1>5, <2>1, <2>2 DEF start
<1> DEFINE T == {n \in 0 .. N : go[n] \in S /\ (IsMerged(go[n]) \/ Left(go[n]) <= N - n)}
<1>7. 0 \in T
  BY <1>1, <1>2, <1>6
<1>8. ASSUME NEW n \in 0 .. N, n < N, n \in T PROVE n + 1 \in T
  <2> DEFINE m == go[n]
             k == MergeNext(m)
  <2>1. m \in S /\ (IsMerged(m) \/ Left(m) <= N - n) /\ go[n + 1] = k /\ n + 1 \in 0 .. N /\ n \in Nat
    BY <1>1, <1>6, <1>8
  <2>2. /\ k \in S /\ (IsMerged(m) => k = m)
        /\ (~IsMerged(m) => Left(k) < Left(m)) /\ Left(m) \in Nat /\ Left(k) \in Nat
    BY <1>3, <2>1
  <2> HIDE DEF m, k
  <2>3. IsMerged(k) \/ Left(k) <= N - (n + 1)
    BY <1>1, <2>1, <2>2
  <2> QED
    BY <2>1, <2>2, <2>3
<1>9. N \in T
  <2> HIDE DEF T
  <2> QED
    BY <1>7, <1>8, EveryTurn
<1>10. end \in S /\ IsMerged(end)
  <2>1. end \in S /\ (IsMerged(end) \/ Left(end) <= N - N)
    BY <1>9
  <2>2. ASSUME Left(end) <= 0 PROVE end.ours = <<>> /\ end.theirs = <<>>
    <3>1. end.ours \in Seq(RangeRecord) /\ end.theirs \in Seq(RangeRecord)
      BY <2>1 DEF S, Lists
    <3>2. Len(end.ours) \in Nat /\ Len(end.theirs) \in Nat
      BY <3>1, LenProperties
    <3>3. Len(end.ours) = 0 /\ Len(end.theirs) = 0
      <4> DEFINE lo == Len(end.ours)
                 lt == Len(end.theirs)
      <4>1. lo \in Nat /\ lt \in Nat /\ lo + lt <= 0
        BY <2>2, <3>2 DEF Left
      <4> HIDE DEF lo, lt
      <4>2. lo = 0 /\ lt = 0
        BY <4>1
      <4> QED
        BY <4>2 DEF lo, lt
    <3> QED
      BY <3>1, <3>3, EmptySeq
  <2>3. N - N = 0
    BY <1>1
  <2> QED
    BY <2>1, <2>2, <2>3 DEF IsMerged
<1>11. MergeLists(o, t) = IF BecameUniverse(end) THEN Everything
                          ELSE [ranges |-> end.behind \o end.last, universe |-> FALSE]
  BY DEF MergeLists, N, go
<1>12. MergesRight(end, X) /\ X \in SUBSET Points
  BY <1>10 DEF S, X
<1>13. RegionOK(MergeLists(o, t)) /\ Denoted(MergeLists(o, t)) = X
  <2> HIDE DEF end
  <2> QED
    BY <1>10, <1>11, <1>12, EndIsRight
<1>14. \A p : p \in X <=> Covers(o, p) \/ Covers(t, p)
  BY DEF X, Covers, PointsOf
<1> QED
  BY <1>13, <1>14

\* Union() is the union.
LEMMA UnionIsUnion ==
  ASSUME NEW a, NEW b, RegionOK(a), RegionOK(b)
  PROVE  RegionOK(Union(a, b)) /\ Denoted(Union(a, b)) = Denoted(a) \cup Denoted(b)
<1>1. /\ \A p : p \in Denoted(a) <=> p \in Points /\ (a.universe \/ Covers(a.ranges, p))
      /\ \A p : p \in Denoted(b) <=> p \in Points /\ (b.universe \/ Covers(b.ranges, p))
  BY DenotedPoints
<1>2. \A c : IsEmpty(c) => ~c.universe /\ \A p : ~Covers(c.ranges, p)
  BY EmptyList DEF IsEmpty
<1>3. CASE a.universe \/ IsEmpty(b)
  BY <1>1, <1>2, <1>3 DEF Union
<1>4. CASE ~(a.universe \/ IsEmpty(b)) /\ (b.universe \/ IsEmpty(a))
  BY <1>1, <1>2, <1>4 DEF Union
<1>5. CASE ~(a.universe \/ IsEmpty(b)) /\ ~(b.universe \/ IsEmpty(a))
  <2>1. Union(a, b) = MergeLists(a.ranges, b.ranges)
    BY <1>5 DEF Union
  <2>2. /\ RegionOK(MergeLists(a.ranges, b.ranges))
        /\ \A p : p \in Denoted(MergeLists(a.ranges, b.ranges)) <=> Covers(a.ranges, p) \/ Covers(b.ranges, p)
    BY MergeListsRight DEF RegionOK
  <2>3. \A p : Covers(a.ranges, p) \/ Covers(b.ranges, p) => p \in Points
    BY DEF Covers, PointsOf
  <2> QED
    BY <1>1, <1>5, <2>1, <2>2, <2>3
<1> QED
  BY <1>3, <1>4, <1>5

---------------------------------------------------------------------------
(* The loop of Complement *)

\* A range is put in front of a list.
LEMMA PutInFront ==
  ASSUME NEW list, NEW r, GapList(list), Interval(r), \A i \in DOMAIN list : Gap(r, list[i])
  PROVE  /\ GapList(<<r>> \o list)
         /\ \A p : Covers(<<r>> \o list, p) <=> p \in PointsOf(r) \/ Covers(list, p)
         /\ \A m : m < Low(r) /\ (\A i \in DOMAIN list : m < Low(list[i]))
                   => \A i \in DOMAIN (<<r>> \o list) : m < Low((<<r>> \o list)[i])
<1> DEFINE all  == <<r>> \o list
           size == Len(list)
<1>1. list \in Seq(RangeRecord) /\ r \in RangeRecord /\ <<r>> \in Seq(RangeRecord)
  BY IntervalNumbers DEF GapList
<1>2. all \in Seq(RangeRecord) /\ Len(all) = 1 + size /\ size \in Nat /\ DOMAIN list = 1 .. size
  BY <1>1, ConcatProperties, LenProperties, OneInList
<1>3. DOMAIN all = 1 .. (size + 1)
  BY <1>2, LenProperties
<1>4. \A i \in 1 .. (size + 1) : all[i] = IF i <= 1 THEN r ELSE list[i - 1]
  <2>1. \A i \in 1 .. (1 + size) : all[i] = IF i <= 1 THEN <<r>>[i] ELSE list[i - 1]
    BY <1>1, ConcatProperties, OneInList
  <2>2. \A i \in 1 .. (size + 1) : i <= 1 => i = 1
    BY <1>2
  <2>3. 1 + size = size + 1
    BY <1>2
  <2> QED
    BY <2>1, <2>2, <2>3, OneInList
<1> HIDE DEF all, size
<1>5. ASSUME NEW i \in DOMAIN all
      PROVE  (i = 1 /\ all[i] = r) \/ (i > 1 /\ i - 1 \in DOMAIN list /\ all[i] = list[i - 1])
  BY <1>2, <1>3, <1>4
<1>6. ASSUME NEW i \in DOMAIN list PROVE i + 1 \in DOMAIN all /\ all[i + 1] = list[i] /\ 1 < i + 1
  BY <1>2, <1>3, <1>4
<1>7. 1 \in DOMAIN all /\ all[1] = r
  BY <1>2, <1>3, <1>4
<1>8. ASSUME NEW i \in DOMAIN all, NEW j \in DOMAIN all, i < j PROVE Gap(all[i], all[j])
  <2>1. j > 1 /\ j - 1 \in DOMAIN list /\ all[j] = list[j - 1]
    BY <1>3, <1>5, <1>8
  <2>2. i > 1 => i - 1 < j - 1
    BY <1>3, <1>8
  <2> QED
    BY <1>5, <2>1, <2>2 DEF GapList
<1>9. GapList(all)
  BY <1>2, <1>5, <1>8 DEF GapList
<1>10. \A p : Covers(all, p) <=> p \in PointsOf(r) \/ Covers(list, p)
  BY <1>5, <1>6, <1>7 DEF Covers
<1>11. \A m : m < Low(r) /\ (\A i \in DOMAIN list : m < Low(list[i])) => \A i \in DOMAIN all : m < Low(all[i])
  BY <1>5
<1> QED
  BY <1>9, <1>10, <1>11 DEF all

Carriers == [mem : AnyBound, ranges : Seq(RangeRecord)]

\* The last n ranges of the list were handled.  The points that are in none of them are
\* those of the pieces, and of the piece that ends at mem.
CarriesRight(acc, list, n) ==
  LET m == HighCut(acc.mem)
  IN  /\ acc \in Carriers /\ GapList(acc.ranges)
      /\ \A i \in DOMAIN acc.ranges : m < Low(acc.ranges[i])
      /\ n = 0 => m = 0 /\ acc.ranges = <<>>
      /\ n > 0 => m = Low(list[Len(list) - n + 1])
      /\ \A p \in Points :
           (\A i \in DOMAIN list : i > Len(list) - n => p \notin PointsOf(list[i]))
             <=> Covers(acc.ranges, p) \/ ((n = 0 \/ m # 0) /\ Until(m, p))

\* A turn of the loop of Complement keeps the types.
LEMMA CarryStays ==
  ASSUME NEW r, Interval(r), NEW acc \in Carriers
  PROVE  Carry(ComplementOfRange(r), acc) \in Carriers
<1> DEFINE t == ComplementOfRange(r)
           q == [t EXCEPT !.upper = acc.mem]
<1>1. t \in RangeRecord
  BY ComplementOfInterval
<1> HIDE DEF t
<1>2. q \in RangeRecord /\ t.upper \in AnyBound /\ acc.mem \in AnyBound /\ acc.ranges \in Seq(RangeRecord)
  BY <1>1 DEF RangeRecord, Carriers
<1>3. <<q>> \in Seq(RangeRecord)
  BY <1>2
<1>4. <<q>> \o acc.ranges \in Seq(RangeRecord)
  BY <1>2, <1>3, ConcatProperties
<1>5. CASE HasLowerBound(t)
  <2>1. Carry(t, acc) = [mem |-> t.upper, ranges |-> <<q>> \o acc.ranges]
    BY <1>5 DEF Carry
  <2> QED
    BY <1>2, <1>4, <2>1 DEF Carriers, t
<1>6. CASE ~HasLowerBound(t)
  <2>1. Carry(t, acc) = [acc EXCEPT !.mem = t.upper]
    BY <1>6 DEF Carry
  <2> QED
    BY <1>2, <2>1 DEF Carriers, t
<1> QED
  BY <1>5, <1>6 DEF t

\* A turn of the loop.
LEMMA CarryIsRight ==
  ASSUME NEW list, GapList(list), NEW n \in Nat, n < Len(list), NEW acc, CarriesRight(acc, list, n)
  PROVE  CarriesRight(Carry(ComplementOfRange(list[Len(list) - (n + 1) + 1]), acc), list, n + 1)
<1> DEFINE size == Len(list)
           i    == size - n
           r    == list[i]
           t    == ComplementOfRange(r)
           q    == [t EXCEPT !.upper = acc.mem]
           m    == HighCut(acc.mem)
           new  == Carry(t, acc)
<1>1. size \in Nat /\ DOMAIN list = 1 .. size /\ n < size
  BY LenProperties DEF GapList
<1>2. i \in DOMAIN list /\ size - (n + 1) + 1 = i /\ i = size - n
  <2> HIDE DEF size
  <2> QED
    BY <1>1
<1>3. Interval(r)
  BY <1>2 DEF GapList
<1>4. /\ t \in RangeRecord /\ t.upper = Flip(r.lower) /\ Low(t) = High(r) /\ High(t) = Low(r)
      /\ HasLowerBound(t) <=> High(r) # 0
  BY <1>3, ComplementOfInterval, RangeNumbers DEF HasLowerBound
<1>5. /\ Low(r) \in Nat /\ High(r) \in Nat /\ (High(r) = 0 \/ Low(r) < High(r)) /\ (Low(r) # 0 \/ High(r) # 0)
      /\ r \in RangeRecord
  BY <1>3, IntervalNumbers
<1>6. acc \in Carriers /\ acc.mem \in AnyBound /\ m \in Nat
  BY BoundFacts DEF CarriesRight, Carriers
<1>7. GapList(acc.ranges) /\ \A j \in DOMAIN acc.ranges : m < Low(acc.ranges[j])
  BY DEF CarriesRight
<1>8. new \in Carriers
  BY <1>3, <1>6, CarryStays
<1>9. IF n = 0 THEN m = 0 /\ acc.ranges = <<>> ELSE m # 0 /\ High(r) # 0 /\ High(r) < m
  <2>1. CASE n = 0
    BY <2>1 DEF CarriesRight
  <2>2. CASE n # 0
    <3>1. m = Low(list[size - n + 1]) /\ i + 1 \in DOMAIN list /\ i < i + 1 /\ size - n + 1 = i + 1
      <4>1. m = Low(list[size - n + 1])
        BY <2>2 DEF CarriesRight
      <4> HIDE DEF size
      <4> QED
        BY <1>1, <2>2, <4>1
    <3>2. Gap(r, list[i + 1])
      BY <1>2, <3>1 DEF GapList
    <3> HIDE DEF r, m
    <3> QED
      BY <1>5, <1>6, <2>2, <3>1, <3>2 DEF Gap
  <2> QED
    BY <2>1, <2>2
<1>10. \A p \in Points : p \in PointsOf(r) <=> Within(Low(r), High(r), p)
  BY <1>3, IntervalsAreSolid, SolidPoints
<1>11. HighCut(new.mem) = Low(r) /\ new.mem = t.upper
  <2>1. new.mem = t.upper
    BY <1>6 DEF Carry, Carriers
  <2> QED
    BY <1>4, <2>1 DEF High
<1>12. ASSUME NEW p \in Points
       PROVE  (\A j \in DOMAIN list : j > size - (n + 1) => p \notin PointsOf(list[j]))
                <=> /\ \A j \in DOMAIN list : j > size - n => p \notin PointsOf(list[j])
                    /\ p \notin PointsOf(r)
  <2>1. \A j \in DOMAIN list : j > size - (n + 1) <=> j > size - n \/ j = i
    <3> HIDE DEF size
    <3> QED
      BY <1>1, <1>2
  <2> HIDE DEF size, i
  <2> QED
    BY <1>2, <2>1
<1>13. ASSUME NEW p \in Points
       PROVE  (\A j \in DOMAIN list : j > size - n => p \notin PointsOf(list[j]))
                <=> Covers(acc.ranges, p) \/ Until(m, p)
  BY <1>9 DEF CarriesRight
<1>14. \A p \in Points : p \in Int /\ (Covers(acc.ranges, p) => ~Until(m, p) \/ m = 0) /\ (m = 0 => n = 0)
  <2>1. ASSUME NEW p \in Points, NEW j \in DOMAIN acc.ranges, p \in PointsOf(acc.ranges[j]) PROVE m < 2 * p
    <3> DEFINE s == acc.ranges[j]
    <3>1. Interval(s) /\ m < Low(s)
      BY <1>7 DEF GapList
    <3>2. Within(Low(s), High(s), p)
      BY <2>1, <3>1, IntervalsAreSolid, SolidPoints
    <3>3. Low(s) \in Nat /\ p \in Int
      BY <3>1, IntervalNumbers, PointsAssumption
    <3> HIDE DEF s, m
    <3> QED
      BY <1>6, <3>1, <3>2, <3>3 DEF Within, From
  <2> HIDE DEF m
  <2> QED
    BY <1>6, <1>9, <2>1, PointsAssumption DEF Covers, Until
<1>15. CASE High(r) # 0
  <2>1. q \in RangeRecord /\ Low(q) = High(r) /\ High(q) = m /\ Interval(q)
    <3>1. q \in RangeRecord /\ q.lower = t.lower /\ q.upper = acc.mem
      <4> HIDE DEF t
      <4> QED
        BY <1>4, <1>6 DEF RangeRecord
    <3>2. Low(q) = High(r) /\ High(q) = m
      BY <1>4, <3>1 DEF Low, High
    <3> HIDE DEF q, m, r
    <3> QED
      BY <1>5, <1>6, <1>9, <1>15, <3>1, <3>2 DEF Interval
  <2>2. new.ranges = <<q>> \o acc.ranges
    BY <1>4, <1>15 DEF Carry
  <2>3. \A j \in DOMAIN acc.ranges : Gap(q, acc.ranges[j])
    <3>1. CASE n = 0
      <4>1. DOMAIN acc.ranges = {}
        BY <1>9, <3>1, EmptySeq, LenProperties
      <4> QED
        BY <4>1
    <3>2. CASE n # 0
      BY <1>7, <1>9, <2>1, <3>2 DEF Gap
    <3> QED
      BY <3>1, <3>2
  <2> HIDE DEF q
  <2>4. /\ GapList(new.ranges)
        /\ \A p : Covers(new.ranges, p) <=> p \in PointsOf(q) \/ Covers(acc.ranges, p)
        /\ \A k : k < Low(q) /\ (\A j \in DOMAIN acc.ranges : k < Low(acc.ranges[j]))
                  => \A j \in DOMAIN new.ranges : k < Low(new.ranges[j])
    BY <1>7, <2>1, <2>2, <2>3, PutInFront
  <2>5. \A j \in DOMAIN acc.ranges : Low(r) < Low(acc.ranges[j])
    <3>1. ASSUME NEW j \in DOMAIN acc.ranges PROVE Low(r) < Low(acc.ranges[j])
      <4> DEFINE s == acc.ranges[j]
      <4>1. m < Low(s) /\ Low(s) \in Nat /\ n # 0
        <5>1. Interval(s)
          BY <1>7 DEF GapList
        <5>2. n # 0
          BY <1>9, EmptySeq, LenProperties
        <5> QED
          BY <1>7, <5>1, <5>2, IntervalNumbers
      <4> HIDE DEF s, m, r
      <4>2. Low(r) < Low(s)
        BY <1>5, <1>6, <1>9, <4>1
      <4> QED
        BY <4>2 DEF s
    <3> QED
      BY <3>1
  <2>6. \A j \in DOMAIN new.ranges : Low(r) < Low(new.ranges[j])
    BY <1>5, <1>15, <2>1, <2>4, <2>5
  <2>7. ASSUME NEW p \in Points
        PROVE  (\A j \in DOMAIN list : j > size - (n + 1) => p \notin PointsOf(list[j]))
                 <=> Covers(new.ranges, p) \/ (Low(r) # 0 /\ Until(Low(r), p))
    <3>1. p \in PointsOf(q) <=> Within(High(r), m, p)
      BY <2>1, IntervalsAreSolid, SolidPoints
    <3>2. (Covers(acc.ranges, p) \/ Until(m, p)) /\ ~Within(Low(r), High(r), p)
            <=> Within(High(r), m, p) \/ Covers(acc.ranges, p) \/ (Low(r) # 0 /\ Until(Low(r), p))
      <4>1. p \in Int /\ (Covers(acc.ranges, p) => ~Until(m, p) \/ m = 0) /\ (m = 0 => n = 0)
        BY <1>14
      <4>2. n = 0 => ~Covers(acc.ranges, p)
        BY <1>9, EmptyList
      <4> HIDE DEF m, r
      <4> QED
        BY <1>5, <1>6, <1>9, <1>15, <4>1, <4>2 DEF Within, From, Until
    <3> HIDE DEF new
    <3> QED
      BY <1>10, <1>12, <1>13, <2>4, <3>1, <3>2
  <2> HIDE DEF new
  <2>8. n + 1 # 0 /\ n + 1 > 0
    OBVIOUS
  <2>9. CarriesRight(new, list, n + 1)
    BY <1>2, <1>8, <1>11, <2>4, <2>6, <2>7, <2>8 DEF CarriesRight
  <2> QED
    BY <1>2, <2>9 DEF new
<1>16. CASE High(r) = 0
  <2>1. n = 0 /\ m = 0 /\ acc.ranges = <<>> /\ Low(r) # 0
    BY <1>5, <1>9, <1>16
  <2>2. new.ranges = <<>>
    BY <1>4, <1>6, <1>16, <2>1 DEF Carry, Carriers
  <2>3. GapList(new.ranges) /\ DOMAIN new.ranges = {} /\ \A p : ~Covers(new.ranges, p)
    BY <2>2, EmptyList, EmptySeq, LenProperties
  <2>4. ASSUME NEW p \in Points
        PROVE  (\A j \in DOMAIN list : j > size - (n + 1) => p \notin PointsOf(list[j]))
                 <=> Covers(new.ranges, p) \/ (Low(r) # 0 /\ Until(Low(r), p))
    <3>1. Until(m, p)
      BY <2>1 DEF Until
    <3>2. ~Within(Low(r), High(r), p) <=> Until(Low(r), p)
      <4>1. p \in Int
        BY PointsAssumption
      <4> HIDE DEF r
      <4> QED
        BY <1>5, <1>16, <2>1, <4>1 DEF Within, From, Until
    <3> HIDE DEF new
    <3> QED
      BY <1>10, <1>12, <1>13, <2>1, <2>3, <3>1, <3>2
  <2> HIDE DEF new
  <2>5. n + 1 # 0 /\ n + 1 > 0
    OBVIOUS
  <2>6. CarriesRight(new, list, n + 1)
    BY <1>2, <1>8, <1>11, <2>1, <2>3, <2>4, <2>5 DEF CarriesRight
  <2> QED
    BY <1>2, <2>6 DEF new
<1> QED
  BY <1>15, <1>16

\* What is left for the beginning when the loop of Complement has ended.
LEMMA ComplementEnds ==
  ASSUME NEW list, GapList(list), list # <<>>, NEW acc, CarriesRight(acc, list, Len(list))
  PROVE  LET all == (IF acc.mem.null THEN <<>> ELSE <<CreateUpperBound(acc.mem)>>) \o acc.ranges
         IN  GapList(all) /\ \A p \in Points : Covers(all, p) <=> ~Covers(list, p)
<1> DEFINE m == HighCut(acc.mem)
           first == CreateUpperBound(acc.mem)
           size == Len(list)
<1>1. size \in Nat /\ size > 0 /\ DOMAIN list = 1 .. size
  BY HeadAndTail, LenProperties DEF GapList
<1>2. acc.mem \in AnyBound /\ acc.ranges \in Seq(RangeRecord)
  BY DEF CarriesRight, Carriers
<1>3. m \in Nat /\ (acc.mem.null <=> m = 0)
  <2>1. ASSUME NEW b \in AnyBound PROVE HighCut(b) \in Nat /\ (b.null <=> HighCut(b) = 0)
    <3> HIDE DEF m, first, size
    <3>1. HighCut(b) \in Nat
      BY BoundFacts
    <3>2. b.null => HighCut(b) = 0
      BY BoundFacts
    <3>3. ~b.null => HighCut(b) > 1
      BY BoundFacts
    <3> QED
      BY <3>1, <3>2, <3>3
  <2> QED
    BY <1>2, <2>1
<1>4. ASSUME NEW p \in Points
      PROVE  ~Covers(list, p) <=> Covers(acc.ranges, p) \/ (m # 0 /\ Until(m, p))
  <2>1. (\A i \in DOMAIN list : i > size - size => p \notin PointsOf(list[i]))
           <=> Covers(acc.ranges, p) \/ ((size = 0 \/ m # 0) /\ Until(m, p))
    BY DEF CarriesRight
  <2>2. \A i \in DOMAIN list : i > size - size
    <3> HIDE DEF size
    <3> QED
      BY <1>1
  <2> HIDE DEF size, m
  <2> QED
    BY <1>1, <2>1, <2>2 DEF Covers
<1>5. GapList(acc.ranges) /\ \A i \in DOMAIN acc.ranges : m < Low(acc.ranges[i])
  BY DEF CarriesRight
<1>6. CASE acc.mem.null
  <2>1. <<>> \o acc.ranges = acc.ranges
    BY <1>2, ConcatEmptySeq
  <2> QED
    BY <1>3, <1>4, <1>5, <1>6, <2>1
<1>7. CASE ~acc.mem.null
  <2>2. first \in RangeRecord /\ first.lower = NullBound /\ first.upper = acc.mem
    <3>1. Universe \in RangeRecord /\ Universe.lower = NullBound
      BY DEF RangeRecord, AnyBound, Universe
    <3>2. first = [Universe EXCEPT !.upper = acc.mem]
      BY DEF CreateUpperBound
    <3> HIDE DEF first
    <3> QED
      BY <1>2, <3>1, <3>2 DEF RangeRecord
  <2>3. Low(first) = 0 /\ High(first) = m /\ m # 0
    BY <1>3, <1>7, <2>2 DEF Low, High, LowCut, NullBound
  <2> HIDE DEF first
  <2>4. Interval(first)
    <3> HIDE DEF m
    <3> QED
      BY <1>3, <2>2, <2>3 DEF Interval
  <2>5. \A i \in DOMAIN acc.ranges : Gap(first, acc.ranges[i])
    BY <1>5, <2>3 DEF Gap
  <2>6. /\ GapList(<<first>> \o acc.ranges)
        /\ \A p : Covers(<<first>> \o acc.ranges, p) <=> p \in PointsOf(first) \/ Covers(acc.ranges, p)
    BY <1>5, <2>4, <2>5, PutInFront
  <2>7. ASSUME NEW p \in Points PROVE p \in PointsOf(first) <=> Until(m, p)
    BY <2>3, <2>4, IntervalsAreSolid, SolidPoints DEF Within, From
  <2> QED
    BY <1>4, <1>7, <2>3, <2>6, <2>7 DEF first
<1> QED
  BY <1>6, <1>7

\* Complement() of a region that has ranges.
LEMMA ComplementOfList ==
  ASSUME NEW a, RegionOK(a), ~a.universe, a.ranges # <<>>
  PROVE  RegionOK(Complement(a)) /\ \A p : p \in Denoted(Complement(a)) <=> p \in Points /\ ~Covers(a.ranges, p)
<1> DEFINE size == Len(a.ranges)
           S == Carriers
           start == [mem |-> NullBound, ranges |-> <<>>]
           go[n \in 0 .. size] ==
             IF n = 0 THEN [mem |-> NullBound, ranges |-> <<>>]
             ELSE Carry(ComplementOfRange(a.ranges[size - n + 1]), go[n - 1])
           step == [n \in 1 .. size |-> [acc \in S |-> Carry(ComplementOfRange(a.ranges[size - n + 1]), acc)]]
           mem == go[size].mem
           first == IF mem.null THEN <<>> ELSE <<CreateUpperBound(mem)>>
<1>1. GapList(a.ranges)
  BY DEF RegionOK
<1>2. size \in Nat /\ size > 0 /\ DOMAIN a.ranges = 1 .. size
  BY <1>1, HeadAndTail, LenProperties DEF GapList
<1>3. ASSUME NEW n \in 1 .. size, NEW acc \in S
      PROVE  Carry(ComplementOfRange(a.ranges[size - n + 1]), acc) \in S
  <2>1. size - n + 1 \in DOMAIN a.ranges
    <3> HIDE DEF size
    <3> QED
      BY <1>2
  <2>2. Interval(a.ranges[size - n + 1])
    BY <1>1, <2>1 DEF GapList
  <2> QED
    BY <2>2, CarryStays
<1>4. start \in S /\ CarriesRight(start, a.ranges, 0)
  <2>1. start.mem = NullBound /\ start.ranges = <<>> /\ start \in Carriers
    BY EmptySeq DEF Carriers, AnyBound
  <2>2. HighCut(start.mem) = 0
    BY <2>1 DEF HighCut, NullBound
  <2>3. DOMAIN start.ranges = {} /\ GapList(start.ranges)
    BY <2>1, EmptyList, EmptySeq, LenProperties
  <2>4. \A i \in DOMAIN a.ranges : ~(i > Len(a.ranges) - 0)
    <3> HIDE DEF size
    <3>1. \A i \in DOMAIN a.ranges : ~(i > size - 0)
      BY <1>2
    <3> QED
      BY <3>1 DEF size
  <2>5. ~(0 > 0)
    OBVIOUS
  <2> HIDE DEF start
  <2> QED
    BY <2>1, <2>2, <2>3, <2>4, <2>5 DEF CarriesRight, Until
<1> start \in S /\ size \in Nat
  BY <1>2, <1>4
<1> HIDE DEF S, size, start
<1>5. \E f : f = [n \in 0 .. size |-> IF n = 0 THEN [mem |-> NullBound, ranges |-> <<>>]
                                      ELSE Carry(ComplementOfRange(a.ranges[size - n + 1]), f[n - 1])]
  <2>1. \A n \in 1 .. size : \A acc \in S :
          /\ step[n][acc] = Carry(ComplementOfRange(a.ranges[size - n + 1]), acc)
          /\ step[n][acc] \in S
    BY <1>3
  <2> HIDE DEF step
  <2>2. StaysIn(size, S, step)
    BY <2>1 DEF StaysIn
  <2>3. PICK f : IsLoop(f, size, S, start, step)
    BY <2>2, Turns
  <2>4. f \in [0 .. size -> S] /\ f[0] = start /\ \A n \in 1 .. size : f[n] = step[n][f[n - 1]]
    BY <2>3 DEF IsLoop
  <2>5. ASSUME NEW n \in 1 .. size
        PROVE  f[n] = Carry(ComplementOfRange(a.ranges[size - n + 1]), f[n - 1])
    <3>1. n - 1 \in 0 .. size
      BY <1>2
    <3>2. f[n - 1] \in S
      BY <2>4, <3>1
    <3> QED
      BY <2>1, <2>4, <3>2
  <2>6. f = [n \in 0 .. size |-> f[n]]
    BY <2>4
  <2>7. ASSUME NEW n \in 0 .. size
        PROVE  f[n] = IF n = 0 THEN [mem |-> NullBound, ranges |-> <<>>]
                      ELSE Carry(ComplementOfRange(a.ranges[size - n + 1]), f[n - 1])
    <3>1. n = 0 \/ n \in 1 .. size
      BY <1>2
    <3> QED
      BY <2>4, <2>5, <3>1 DEF start
  <2>8. f = [n \in 0 .. size |-> IF n = 0 THEN [mem |-> NullBound, ranges |-> <<>>]
                                 ELSE Carry(ComplementOfRange(a.ranges[size - n + 1]), f[n - 1])]
    BY <2>6, <2>7
  <2> QED
    BY <2>8
<1>6. go = [n \in 0 .. size |-> IF n = 0 THEN [mem |-> NullBound, ranges |-> <<>>]
                                ELSE Carry(ComplementOfRange(a.ranges[size - n + 1]), go[n - 1])]
  BY <1>5, Zenon
<1> HIDE DEF go
<1>7. /\ go[0] = start
      /\ \A n \in 0 .. size : n < size => go[n + 1] = Carry(ComplementOfRange(a.ranges[size - (n + 1) + 1]), go[n])
  <2>1. ASSUME NEW n \in 0 .. size, n < size
        PROVE  go[n + 1] = Carry(ComplementOfRange(a.ranges[size - (n + 1) + 1]), go[n])
    <3>1. n + 1 \in 0 .. size /\ n + 1 # 0 /\ (n + 1) - 1 = n
      BY <1>2, <2>1
    <3> QED
      BY <1>6, <3>1
  <2>2. 0 \in 0 .. size
    BY <1>2
  <2> QED
    BY <1>6, <2>1, <2>2 DEF start
<1> DEFINE T == {n \in 0 .. size : CarriesRight(go[n], a.ranges, n)}
<1>8. 0 \in T
  BY <1>2, <1>4, <1>7
<1>9. ASSUME NEW n \in 0 .. size, n < size, n \in T PROVE n + 1 \in T
  <2>1. CarriesRight(go[n], a.ranges, n) /\ n \in Nat /\ n + 1 \in 0 .. size
    BY <1>2, <1>9
  <2>2. n < Len(a.ranges)
    BY <1>9 DEF size
  <2>3. CarriesRight(Carry(ComplementOfRange(a.ranges[Len(a.ranges) - (n + 1) + 1]), go[n]), a.ranges, n + 1)
    BY <1>1, <2>1, <2>2, CarryIsRight
  <2>4. CarriesRight(go[n + 1], a.ranges, n + 1)
    BY <1>7, <1>9, <2>3 DEF size
  <2> QED
    BY <2>1, <2>4
<1>10. size \in T
  <2>1. \A n \in 0 .. size : n < size /\ n \in T => n + 1 \in T
    BY <1>9
  <2> HIDE DEF T, first, mem
  <2>2. \A n \in 0 .. size : n \in T
    BY <1>8, <2>1, EveryTurn
  <2> QED
    BY <1>2, <2>2
<1>11. CarriesRight(go[size], a.ranges, Len(a.ranges))
  BY <1>10 DEF size
<1>12. GapList(first \o go[size].ranges) /\ \A p \in Points : Covers(first \o go[size].ranges, p) <=> ~Covers(a.ranges, p)
  <2>1. \A acc : CarriesRight(acc, a.ranges, Len(a.ranges)) =>
           LET all == (IF acc.mem.null THEN <<>> ELSE <<CreateUpperBound(acc.mem)>>) \o acc.ranges
           IN  GapList(all) /\ \A p \in Points : Covers(all, p) <=> ~Covers(a.ranges, p)
    BY <1>1, ComplementEnds
  <2> QED
    BY <1>11, <2>1
<1>13. Complement(a) = [a EXCEPT !.ranges = first \o go[size].ranges]
  BY DEF Complement, IsEmpty, size, go
<1> HIDE DEF first
<1> DEFINE list == first \o go[size].ranges
           c    == Complement(a)
<1>14. c.ranges = list /\ ~c.universe /\ c \in [ranges : Seq(RangeRecord), universe : BOOLEAN]
  <2>1. list \in Seq(RangeRecord) /\ a \in [ranges : Seq(RangeRecord), universe : BOOLEAN]
    BY <1>12 DEF RegionOK, GapList
  <2> HIDE DEF list
  <2> QED
    BY <1>13, <2>1 DEF list
<1> HIDE DEF list, c
<1>15. RegionOK(c)
  BY <1>12, <1>14 DEF RegionOK, list
<1> QED
  BY <1>12, <1>14, <1>15, DenotedPoints DEF list, c

\* Complement() is the complement.
LEMMA ComplementIsComplement ==
  ASSUME NEW a, RegionOK(a)
  PROVE  RegionOK(Complement(a)) /\ Denoted(Complement(a)) = Points \ Denoted(a)
<1>1. \A p : p \in Denoted(a) <=> p \in Points /\ (a.universe \/ Covers(a.ranges, p))
  BY DenotedPoints
<1>2. RegionOK(EmptyRegion) /\ Denoted(EmptyRegion) = {}
  <2>1. EmptyRegion.ranges = <<>> /\ ~EmptyRegion.universe /\ RegionOK(EmptyRegion)
    BY EmptyList DEF EmptyRegion, RegionOK, GapList
  <2>2. \A p : p \notin Denoted(EmptyRegion)
    BY <2>1, DenotedPoints, EmptyList
  <2> QED
    BY <2>1, <2>2
<1>3. RegionOK(Everything) /\ Denoted(Everything) = Points
  <2>1. Everything.universe /\ RegionOK(Everything)
    BY EmptyList DEF Everything, RegionOK, GapList
  <2>2. \A p : p \in Denoted(Everything) <=> p \in Points
    BY <2>1, DenotedPoints
  <2> QED
    BY <2>1, <2>2
<1>4. CASE a.universe
  <2>1. Complement(a) = EmptyRegion
    BY <1>4 DEF Complement
  <2>2. \A p : p \in Points => p \in Denoted(a)
    BY <1>1, <1>4
  <2> QED
    BY <1>2, <2>1, <2>2
<1>5. CASE ~a.universe /\ a.ranges = <<>>
  <2>1. Complement(a) = Everything
    BY <1>5 DEF Complement, IsEmpty
  <2>2. \A p : p \notin Denoted(a)
    BY <1>1, <1>5, EmptyList
  <2> QED
    BY <1>3, <2>1, <2>2
<1>6. CASE ~a.universe /\ a.ranges # <<>>
  BY <1>1, <1>6, ComplementOfList
<1> QED
  BY <1>4, <1>5, <1>6

\* The operations made of these two.
LEMMA OperationsAreRight ==
  ASSUME NEW a, NEW b, RegionOK(a), RegionOK(b)
  PROVE  /\ RegionOK(Union(a, b)) /\ Denoted(Union(a, b)) = Denoted(a) \cup Denoted(b)
         /\ RegionOK(Intersect(a, b)) /\ Denoted(Intersect(a, b)) = Denoted(a) \cap Denoted(b)
         /\ RegionOK(Difference(a, b)) /\ Denoted(Difference(a, b)) = Denoted(a) \ Denoted(b)
         /\ RegionOK(SymmetricDifference(a, b))
         /\ Denoted(SymmetricDifference(a, b)) = (Denoted(a) \ Denoted(b)) \cup (Denoted(b) \ Denoted(a))
         /\ RegionOK(Complement(a)) /\ Denoted(Complement(a)) = Points \ Denoted(a)
         /\ RegionOK(ComplementIn(a, b)) /\ Denoted(ComplementIn(a, b)) = Denoted(b) \ Denoted(a)
<1>1. ASSUME NEW c, NEW d, RegionOK(c), RegionOK(d)
      PROVE  RegionOK(Intersect(c, d)) /\ Denoted(Intersect(c, d)) = Denoted(c) \cap Denoted(d)
  <2>1. RegionOK(Complement(c)) /\ Denoted(Complement(c)) = Points \ Denoted(c)
    BY <1>1, ComplementIsComplement
  <2>2. RegionOK(Complement(d)) /\ Denoted(Complement(d)) = Points \ Denoted(d)
    BY <1>1, ComplementIsComplement
  <2> DEFINE u == Union(Complement(c), Complement(d))
  <2>3. RegionOK(u) /\ Denoted(u) = (Points \ Denoted(c)) \cup (Points \ Denoted(d))
    BY <2>1, <2>2, UnionIsUnion
  <2>4. RegionOK(Complement(u)) /\ Denoted(Complement(u)) = Points \ Denoted(u)
    BY <2>3, ComplementIsComplement
  <2>5. Denoted(c) \subseteq Points
    BY <1>1, DenotedPoints
  <2> HIDE DEF u
  <2>6. Denoted(Complement(u)) = Denoted(c) \cap Denoted(d)
    BY <2>3, <2>4, <2>5
  <2> QED
    BY <2>4, <2>6 DEF Intersect, u
<1>2. ASSUME NEW c, NEW d, RegionOK(c), RegionOK(d)
      PROVE  RegionOK(Difference(c, d)) /\ Denoted(Difference(c, d)) = Denoted(c) \ Denoted(d)
  <2>1. RegionOK(Complement(d)) /\ Denoted(Complement(d)) = Points \ Denoted(d)
    BY <1>2, ComplementIsComplement
  <2>2. /\ RegionOK(Intersect(c, Complement(d)))
        /\ Denoted(Intersect(c, Complement(d))) = Denoted(c) \cap Denoted(Complement(d))
    BY <1>1, <1>2, <2>1
  <2>3. Denoted(c) \subseteq Points
    BY <1>2, DenotedPoints
  <2> QED
    BY <2>1, <2>2, <2>3 DEF Difference
<1>3. RegionOK(Union(a, b)) /\ Denoted(Union(a, b)) = Denoted(a) \cup Denoted(b)
  BY UnionIsUnion
<1>4. RegionOK(Complement(a)) /\ Denoted(Complement(a)) = Points \ Denoted(a)
  BY ComplementIsComplement
<1>5. RegionOK(Intersect(a, b)) /\ Denoted(Intersect(a, b)) = Denoted(a) \cap Denoted(b)
  BY <1>1
<1>6. /\ RegionOK(Difference(a, b)) /\ Denoted(Difference(a, b)) = Denoted(a) \ Denoted(b)
      /\ RegionOK(Difference(b, a)) /\ Denoted(Difference(b, a)) = Denoted(b) \ Denoted(a)
  BY <1>2
<1>7. /\ RegionOK(SymmetricDifference(a, b))
      /\ Denoted(SymmetricDifference(a, b)) = (Denoted(a) \ Denoted(b)) \cup (Denoted(b) \ Denoted(a))
  <2> DEFINE u == Union(a, b)
             i == Intersect(a, b)
  <2>1. RegionOK(Difference(u, i)) /\ Denoted(Difference(u, i)) = Denoted(u) \ Denoted(i)
    BY <1>2, <1>3, <1>5
  <2>2. Denoted(u) \ Denoted(i) = (Denoted(a) \ Denoted(b)) \cup (Denoted(b) \ Denoted(a))
    BY <1>3, <1>5
  <2> HIDE DEF u, i
  <2>3. SymmetricDifference(a, b) = Difference(u, i)
    BY DEF SymmetricDifference, u, i
  <2> QED
    BY <2>1, <2>2, <2>3
<1>8. RegionOK(ComplementIn(a, b)) /\ Denoted(ComplementIn(a, b)) = Denoted(b) \ Denoted(a)
  <2>1. CASE b.universe
    <3>1. Denoted(b) = Points
      BY <2>1, DenotedPoints
    <3> QED
      BY <1>4, <2>1, <3>1 DEF ComplementIn
  <2>2. CASE ~b.universe
    BY <1>6, <2>2 DEF ComplementIn
  <2> QED
    BY <2>1, <2>2
<1> QED
  BY <1>3, <1>4, <1>5, <1>6, <1>7, <1>8

---------------------------------------------------------------------------
(* Two lists of the same points are the same *)

\* A range of the list reaches from before r to behind it.
Spans(s, r) == Low(s) <= Low(r) /\ (High(s) = 0 \/ (High(r) # 0 /\ High(r) <= High(s)))

\* The points of a range of a list.
LEMMA PointsInList ==
  ASSUME NEW list, GapList(list), NEW i \in DOMAIN list, NEW p \in Points, p \in PointsOf(list[i])
  PROVE  From(Low(list[i]), p) /\ Until(High(list[i]), p)
<1>1. Interval(list[i])
  BY DEF GapList
<1> QED
  BY <1>1, IntervalsAreSolid, SolidPoints DEF Within

\* If a list has all points of a range, then one of its ranges has them.
LEMMA OneSpansIt ==
  ASSUME NEW list, GapList(list), NEW r, Solid(r), \A p \in Points : p \in PointsOf(r) => Covers(list, p)
  PROVE  \E i \in DOMAIN list : Spans(list[i], r)
<1> DEFINE size == Len(list)
           lo   == Low(r)
           hi   == High(r)
           T    == {i \in DOMAIN list : High(list[i]) = 0 \/ lo < High(list[i])}
<1>1. size \in Nat /\ DOMAIN list = 1 .. size
  BY LenProperties DEF GapList
<1>2. lo \in Nat /\ hi \in Nat /\ (hi = 0 \/ lo < hi) /\ (lo = 0 \/ Cut(lo)) /\ (hi = 0 \/ Cut(hi))
  BY RangeNumbers, RangeCuts DEF Solid
<1>3. \A i \in DOMAIN list :
        /\ Low(list[i]) \in Nat /\ High(list[i]) \in Nat /\ (High(list[i]) = 0 \/ Low(list[i]) < High(list[i]))
        /\ (Low(list[i]) = 0 \/ Cut(Low(list[i]))) /\ (High(list[i]) = 0 \/ Cut(High(list[i])))
        /\ list[i] \in RangeRecord
  BY IntervalNumbers, RangeCuts DEF GapList
<1>4. \A i, j \in DOMAIN list : i < j => High(list[i]) # 0 /\ High(list[i]) < Low(list[j])
  BY DEF GapList, Gap
<1>5. ASSUME NEW p \in Points, From(lo, p), Until(hi, p)
      PROVE  \E i \in DOMAIN list : From(Low(list[i]), p) /\ Until(High(list[i]), p)
  <2>1. p \in PointsOf(r)
    BY <1>5, SolidPoints DEF Within
  <2>2. Covers(list, p)
    BY <2>1
  <2>3. PICK i \in DOMAIN list : p \in PointsOf(list[i])
    BY <2>2 DEF Covers
  <2> QED
    BY <2>3, PointsInList
<1>6. \A p \in Points : p \in Int
  BY PointsAssumption
<1> HIDE DEF lo, hi, size
<1>7. \A i \in DOMAIN list : i \notin T => High(list[i]) # 0 /\ High(list[i]) <= lo
  BY <1>2, <1>3
<1>8. T # {}
  <2> SUFFICES ASSUME T = {} PROVE FALSE
    OBVIOUS
  <2>1. PICK p \in Points : Within(lo, hi, p)
    BY <1>2, PointWithin
  <2>2. PICK i \in DOMAIN list : Until(High(list[i]), p)
    BY <1>5, <2>1 DEF Within
  <2>3. High(list[i]) # 0 /\ High(list[i]) <= lo /\ High(list[i]) \in Nat
    BY <1>3, <1>7
  <2> QED
    BY <1>2, <1>6, <2>1, <2>2, <2>3 DEF Within, From, Until
<1>9. PICK i \in T : \A j \in T : i <= j
  <2>1. T \subseteq Nat
    BY <1>1
  <2> HIDE DEF T
  <2> QED
    BY <1>8, <2>1, LeastNumber
<1>10. i \in DOMAIN list /\ (High(list[i]) = 0 \/ lo < High(list[i]))
  OBVIOUS
<1>11. \A j \in DOMAIN list : j < i => High(list[j]) # 0 /\ High(list[j]) <= lo
  <2>1. \A j \in DOMAIN list : j < i => ~(i <= j)
    BY <1>1
  <2> HIDE DEF T
  <2> QED
    BY <1>7, <1>9, <2>1
<1> HIDE DEF T
<1> DEFINE b == Low(list[i])
           e == High(list[i])
<1>12. b \in Nat /\ e \in Nat /\ (e = 0 \/ b < e) /\ (b = 0 \/ Cut(b)) /\ (e = 0 \/ Cut(e)) /\ (e = 0 \/ lo < e)
  BY <1>3, <1>10
<1>13. b <= lo
  <2> SUFFICES ASSUME lo < b PROVE FALSE
    BY <1>2, <1>12
  <2> DEFINE h == IF hi # 0 /\ hi < b THEN hi ELSE b
  <2>1. (h = 0 \/ Cut(h)) /\ lo < h /\ h # 0 /\ h <= b /\ (hi = 0 \/ h <= hi) /\ h \in Nat
    <3> HIDE DEF b, e
    <3> QED
      BY <1>2, <1>12
  <2> HIDE DEF h
  <2>2. PICK p \in Points : Within(lo, h, p)
    BY <1>2, <2>1, PointWithin
  <2>3. p \in Int /\ From(lo, p) /\ 2 * p < h /\ Until(hi, p)
    <3>1. p \in Int /\ From(lo, p) /\ 2 * p < h
      BY <1>6, <2>1, <2>2 DEF Within, Until
    <3> QED
      BY <1>2, <2>1, <3>1 DEF Until
  <2>4. PICK j \in DOMAIN list : From(Low(list[j]), p) /\ Until(High(list[j]), p)
    BY <1>5, <2>3
  <2> DEFINE c == Low(list[j])
             d == High(list[j])
  <2>5. c \in Nat /\ d \in Nat /\ (d = 0 \/ c < d) /\ From(c, p) /\ Until(d, p)
    BY <1>3, <2>4
  <2>6. CASE j < i
    <3>1. d # 0 /\ d <= lo
      BY <1>11, <2>6
    <3> HIDE DEF c, d
    <3> QED
      BY <1>2, <2>3, <2>5, <3>1 DEF From, Until
  <2>7. CASE j = i
    <3>1. c = b
      BY <2>7
    <3> HIDE DEF b, c, d, e
    <3> QED
      BY <1>12, <2>1, <2>3, <2>5, <3>1 DEF From
  <2>8. CASE i < j
    <3>1. e # 0 /\ e < c
      BY <1>4, <1>10, <2>8
    <3> HIDE DEF b, c, d, e
    <3> QED
      BY <1>12, <2>1, <2>3, <2>5, <3>1 DEF From
  <2>9. j < i \/ j = i \/ i < j
    BY <1>1, <1>10
  <2> QED
    BY <2>6, <2>7, <2>8, <2>9
<1>14. e = 0 \/ (hi # 0 /\ hi <= e)
  <2> SUFFICES ASSUME e # 0, hi = 0 \/ e < hi PROVE FALSE
    <3> HIDE DEF b, e
    <3> QED
      BY <1>2, <1>12
  <2> DEFINE c == Low(list[i + 1])
  <2>1. i + 1 \in DOMAIN list => c \in Nat /\ e < c /\ Cut(c)
    <3>1. i < i + 1
      BY <1>1, <1>10
    <3>2. i + 1 \in DOMAIN list => e < c /\ (c = 0 \/ Cut(c)) /\ c \in Nat
      BY <1>3, <1>4, <1>10, <3>1
    <3> HIDE DEF b, c, e
    <3> QED
      BY <1>12, <3>2
  <2> DEFINE h == IF i + 1 \in DOMAIN list /\ (hi = 0 \/ c < hi) THEN c ELSE hi
  <2>2. (h = 0 \/ (Cut(h) /\ e < h)) /\ h \in Nat /\ (hi = 0 \/ (h # 0 /\ h <= hi))
        /\ (i + 1 \in DOMAIN list => h # 0 /\ h <= c)
    <3> HIDE DEF b, c, e
    <3> QED
      BY <1>2, <1>12, <2>1
  <2> HIDE DEF h
  <2>3. PICK p \in Points : Within(e, h, p)
    BY <1>12, <2>2, PointWithin
  <2>4. p \in Int /\ e <= 2 * p /\ From(lo, p) /\ Until(hi, p) /\ (i + 1 \in DOMAIN list => 2 * p < c)
    <3>1. p \in Int /\ e <= 2 * p /\ Until(h, p)
      BY <1>6, <2>3 DEF Within, From
    <3> HIDE DEF b, c, e
    <3> QED
      BY <1>2, <1>12, <2>1, <2>2, <3>1 DEF From, Until
  <2>5. PICK j \in DOMAIN list : From(Low(list[j]), p) /\ Until(High(list[j]), p)
    BY <1>5, <2>4
  <2> DEFINE f == Low(list[j])
             d == High(list[j])
  <2>6. f \in Nat /\ d \in Nat /\ (d = 0 \/ f < d) /\ From(f, p) /\ Until(d, p)
    BY <1>3, <2>5
  <2>7. CASE j < i
    <3>1. d # 0 /\ d < b
      BY <1>4, <1>10, <2>7
    <3> HIDE DEF b, d, e, f
    <3> QED
      BY <1>12, <2>4, <2>6, <3>1 DEF Until
  <2>8. CASE j = i
    <3>1. d = e
      BY <2>8
    <3> HIDE DEF b, d, e, f
    <3> QED
      BY <1>12, <2>4, <2>6, <3>1 DEF Until
  <2>9. CASE i < j
    <3>1. i + 1 \in DOMAIN list /\ (j = i + 1 \/ i + 1 < j)
      BY <1>1, <1>10, <2>9
    <3>2. c \in Nat /\ 2 * p < c
      BY <2>1, <2>4, <3>1
    <3>3. CASE j = i + 1
      <4>1. f = c
        BY <3>3
      <4> HIDE DEF b, c, d, e, f
      <4> QED
        BY <1>12, <2>1, <2>4, <2>6, <3>1, <3>2, <4>1 DEF From
    <3>4. CASE i + 1 < j
      <4> DEFINE x == High(list[i + 1])
      <4>1. x # 0 /\ x < f /\ (x = 0 \/ c < x) /\ x \in Nat
        BY <1>3, <1>4, <3>1, <3>4
      <4> HIDE DEF b, c, d, e, f, x
      <4> QED
        BY <2>4, <2>6, <3>2, <4>1 DEF From
    <3> QED
      BY <3>1, <3>3, <3>4
  <2>10. j < i \/ j = i \/ i < j
    BY <1>1, <1>10
  <2> QED
    BY <2>7, <2>8, <2>9, <2>10
<1> QED
  BY <1>10, <1>13, <1>14 DEF Spans, lo, hi

\* A range is given by its numbers.
LEMMA NumbersAreEnough ==
  ASSUME NEW r \in RangeRecord, NEW s \in RangeRecord, Low(r) = Low(s), High(r) = High(s)
  PROVE  r = s
<1>1. ASSUME NEW b \in AnyBound, NEW c \in AnyBound, LowCut(b) = LowCut(c) \/ HighCut(b) = HighCut(c)
      PROVE  b = c
  <2>1. CASE b.null \/ c.null
    <3>1. ASSUME NEW d \in AnyBound
          PROVE  (d.null => d = NullBound /\ LowCut(d) = 0 /\ HighCut(d) = 0) /\ (~d.null => LowCut(d) # 0 /\ HighCut(d) # 0)
      <4>1. ~d.null => LowCut(d) > 1 /\ HighCut(d) > 1
        BY BoundFacts
      <4>2. LowCut(d) \in Nat /\ HighCut(d) \in Nat
        BY BoundFacts
      <4>3. d.null => d = NullBound /\ LowCut(d) = 0 /\ HighCut(d) = 0
        BY BoundFacts
      <4> QED
        BY <4>1, <4>2, <4>3
    <3>2. b.null /\ c.null
      BY <1>1, <2>1, <3>1
    <3> QED
      BY <3>1, <3>2
  <2>2. CASE ~b.null /\ ~c.null
    <3>1. /\ b \in Bound /\ c \in Bound /\ b.value \in Nat /\ c.value \in Nat
          /\ (b.included = TRUE \/ b.included = FALSE) /\ (c.included = TRUE \/ c.included = FALSE)
      BY <2>2, BoundFacts
    <3>2. /\ LowCut(b) = 2 * b.value + (IF b.included THEN 0 ELSE 1)
          /\ LowCut(c) = 2 * c.value + (IF c.included THEN 0 ELSE 1)
          /\ HighCut(b) = 2 * b.value + (IF b.included THEN 1 ELSE 0)
          /\ HighCut(c) = 2 * c.value + (IF c.included THEN 1 ELSE 0)
      BY <2>2 DEF LowCut, HighCut
    <3>3. \A m, n \in Nat : 2 * m + 1 # 2 * n + 0 /\ 2 * m + 0 # 2 * n + 1 /\ (2 * m + 1 = 2 * n + 1 => m = n)
                            /\ (2 * m + 0 = 2 * n + 0 => m = n)
      OBVIOUS
    <3>4. b.value = c.value /\ b.included = c.included
      BY <1>1, <3>1, <3>2, <3>3
    <3>5. ASSUME NEW d \in Bound PROVE d = [null |-> FALSE, value |-> d.value, included |-> d.included]
      <4>1. d = [null |-> d.null, value |-> d.value, included |-> d.included]
        BY DEF Bound
      <4>2. d.null = FALSE
        BY DEF Bound
      <4> QED
        BY <4>1, <4>2
    <3> QED
      BY <3>1, <3>4, <3>5
  <2> QED
    BY <2>1, <2>2
<1>2. r.lower = s.lower /\ r.upper = s.upper
  <2>1. r.lower \in AnyBound /\ r.upper \in AnyBound /\ s.lower \in AnyBound /\ s.upper \in AnyBound
    BY RangeNumbers
  <2> QED
    BY <1>1, <2>1 DEF Low, High
<1>3. ASSUME NEW t \in RangeRecord PROVE t = [lower |-> t.lower, upper |-> t.upper, null |-> FALSE]
  <2>1. t = [lower |-> t.lower, upper |-> t.upper, null |-> t.null]
    BY DEF RangeRecord
  <2>2. t.null = FALSE
    BY DEF RangeRecord
  <2> QED
    BY <2>1, <2>2
<1> QED
  BY <1>2, <1>3

\* The ranges of one list are in the other.
LEMMA SameRanges ==
  ASSUME NEW l, NEW k, GapList(l), GapList(k), \A p \in Points : Covers(l, p) <=> Covers(k, p), NEW i \in DOMAIN l
  PROVE  \E j \in DOMAIN k : k[j] = l[i]
<1>1. Interval(l[i]) /\ Solid(l[i]) /\ \A p \in Points : p \in PointsOf(l[i]) => Covers(k, p)
  BY IntervalsAreSolid DEF GapList, Covers
<1>2. PICK j \in DOMAIN k : Spans(k[j], l[i])
  BY <1>1, OneSpansIt
<1>3. Interval(k[j]) /\ Solid(k[j]) /\ \A p \in Points : p \in PointsOf(k[j]) => Covers(l, p)
  BY IntervalsAreSolid DEF GapList, Covers
<1>4. PICK n \in DOMAIN l : Spans(l[n], k[j])
  BY <1>3, OneSpansIt
<1> DEFINE a == Low(l[i])
           b == High(l[i])
           c == Low(k[j])
           d == High(k[j])
           e == Low(l[n])
           f == High(l[n])
<1>5. /\ a \in Nat /\ b \in Nat /\ (b = 0 \/ a < b) /\ c \in Nat /\ d \in Nat /\ (d = 0 \/ c < d)
      /\ l[i] \in RangeRecord /\ k[j] \in RangeRecord
  BY <1>1, <1>3, IntervalNumbers
<1>6. e \in Nat /\ f \in Nat /\ (f = 0 \/ e < f)
  <2>1. Interval(l[n])
    BY DEF GapList
  <2> QED
    BY <2>1, IntervalNumbers
<1>7. c <= a /\ (d = 0 \/ (b # 0 /\ b <= d)) /\ e <= c /\ (f = 0 \/ (d # 0 /\ d <= f))
  BY <1>2, <1>4 DEF Spans
<1>8. (i < n => b # 0 /\ b < e) /\ (n < i => f # 0 /\ f < a)
  BY DEF GapList, Gap
<1>9. i < n \/ i = n \/ n < i
  <2>1. DOMAIN l = 1 .. Len(l) /\ Len(l) \in Nat
    BY LenProperties DEF GapList
  <2> QED
    BY <2>1
<1>10. i = n => a = e /\ b = f
  OBVIOUS
<1> HIDE DEF a, b, c, d, e, f
<1>11. a = c /\ b = d
  BY <1>5, <1>6, <1>7, <1>8, <1>9, <1>10
<1> QED
  BY <1>5, <1>11, NumbersAreEnough DEF a, b, c, d

\* If all ranges of one list are in the other, and the lists are the same up to n, then
\* the other has an n-th range, and it does not begin before the n-th of the one.
LEMMA NextIsThere ==
  ASSUME NEW l, NEW k, GapList(l), GapList(k), NEW n \in DOMAIN l, \E j \in DOMAIN k : k[j] = l[n],
         \A m \in 1 .. (n - 1) : m \in DOMAIN k => m \in DOMAIN l /\ l[m] = k[m]
  PROVE  n \in DOMAIN k /\ Low(k[n]) <= Low(l[n])
<1>1. PICK j \in DOMAIN k : k[j] = l[n]
  OBVIOUS
<1>2. DOMAIN k = 1 .. Len(k) /\ Len(k) \in Nat /\ DOMAIN l = 1 .. Len(l) /\ Len(l) \in Nat
  BY LenProperties DEF GapList
<1>3. ASSUME NEW list, GapList(list), NEW x \in DOMAIN list, NEW y \in DOMAIN list, x < y PROVE Low(list[x]) < Low(list[y])
  <2>1. Interval(list[x]) /\ Interval(list[y]) /\ Gap(list[x], list[y])
    BY <1>3 DEF GapList
  <2> QED
    BY <2>1, IntervalNumbers DEF Gap
<1>4. ASSUME NEW list, GapList(list), NEW x \in DOMAIN list PROVE Low(list[x]) \in Nat
  <2>1. Interval(list[x])
    BY <1>4 DEF GapList
  <2> QED
    BY <2>1, IntervalNumbers
<1>5. ~(j < n)
  <2> SUFFICES ASSUME j < n PROVE FALSE
    OBVIOUS
  <2>1. j \in 1 .. (n - 1)
    BY <1>2
  <2>2. j \in DOMAIN l /\ l[j] = k[j]
    BY <2>1
  <2>3. Low(l[j]) < Low(l[n])
    BY <1>3, <2>2
  <2>4. Low(l[j]) = Low(l[n]) /\ Low(l[n]) \in Nat
    BY <1>1, <1>4, <2>2
  <2> QED
    BY <2>3, <2>4
<1>6. n \in DOMAIN k /\ (n < j \/ n = j)
  BY <1>2, <1>5
<1>7. Low(k[n]) \in Nat /\ Low(k[j]) \in Nat
  BY <1>4, <1>6
<1>8. Low(k[n]) <= Low(k[j])
  BY <1>3, <1>6, <1>7
<1> QED
  BY <1>1, <1>6, <1>8

\* Two lists that cover the same points are the same.
LEMMA SameLists ==
  ASSUME NEW l, NEW k, GapList(l), GapList(k), \A p \in Points : Covers(l, p) <=> Covers(k, p)
  PROVE  l = k
<1>1. l \in Seq(RangeRecord) /\ k \in Seq(RangeRecord) /\ Len(l) \in Nat /\ Len(k) \in Nat
      /\ DOMAIN l = 1 .. Len(l) /\ DOMAIN k = 1 .. Len(k)
  BY LenProperties DEF GapList
<1> DEFINE Same(n) == n \in DOMAIN l /\ n \in DOMAIN k /\ l[n] = k[n]
           Bad == {n \in DOMAIN l \cup DOMAIN k : ~Same(n)}
<1>2. Bad = {}
  <2> SUFFICES ASSUME Bad # {} PROVE FALSE
    OBVIOUS
  <2>1. PICK n \in Bad : \A m \in Bad : n <= m
    <3>1. Bad \subseteq Nat
      BY <1>1
    <3> HIDE DEF Bad
    <3> QED
      BY <3>1, LeastNumber
  <2>2. \A m \in 1 .. (n - 1) : m \in DOMAIN l \/ m \in DOMAIN k => Same(m)
    <3>1. \A m \in 1 .. (n - 1) : ~(n <= m)
      BY <1>1
    <3> QED
      BY <2>1, <3>1
  <2>3. n \in DOMAIN l => n \in DOMAIN k /\ Low(k[n]) <= Low(l[n])
    <3> SUFFICES ASSUME n \in DOMAIN l PROVE n \in DOMAIN k /\ Low(k[n]) <= Low(l[n])
      OBVIOUS
    <3>1. \E j \in DOMAIN k : k[j] = l[n]
      BY SameRanges
    <3> QED
      BY <2>2, <3>1, NextIsThere
  <2>4. n \in DOMAIN k => n \in DOMAIN l /\ Low(l[n]) <= Low(k[n])
    <3> SUFFICES ASSUME n \in DOMAIN k PROVE n \in DOMAIN l /\ Low(l[n]) <= Low(k[n])
      OBVIOUS
    <3>1. \E j \in DOMAIN l : l[j] = k[n]
      BY SameRanges
    <3>2. \A m \in 1 .. (n - 1) : m \in DOMAIN l => m \in DOMAIN k /\ k[m] = l[m]
      BY <2>2
    <3> QED
      BY <3>1, <3>2, NextIsThere
  <2>5. n \in DOMAIN l /\ n \in DOMAIN k
    BY <2>3, <2>4
  <2>6. PICK j \in DOMAIN k : k[j] = l[n]
    BY <2>5, SameRanges
  <2>7. Interval(k[j]) /\ Interval(k[n]) /\ (j < n => Gap(k[j], k[n])) /\ (n < j => Gap(k[n], k[j]))
    BY <2>5 DEF GapList
  <2>8. Low(k[j]) = Low(k[n])
    <3>1. Low(k[n]) \in Nat /\ Low(l[n]) \in Nat
      BY <2>6, <2>7, IntervalNumbers
    <3> QED
      BY <2>3, <2>4, <2>5, <2>6, <3>1
  <2>9. j = n
    <3>1. ~(j < n) /\ ~(n < j)
      BY <2>7, <2>8, IntervalNumbers DEF Gap
    <3> QED
      BY <1>1, <2>5, <3>1
  <2> QED
    BY <2>1, <2>5, <2>6, <2>9
<1>3. \A n \in DOMAIN l \cup DOMAIN k : Same(n)
  BY <1>2
<1>4. Len(l) = Len(k)
  <2> DEFINE x == Len(l)
             y == Len(k)
  <2>1. x \in Nat /\ y \in Nat /\ \A n : n \in 1 .. x <=> n \in 1 .. y
    BY <1>1, <1>3
  <2> HIDE DEF x, y
  <2>2. x = y
    <3>1. x # 0 => x \in 1 .. y
      BY <2>1
    <3>2. y # 0 => y \in 1 .. x
      BY <2>1
    <3> QED
      BY <2>1, <3>1, <3>2
  <2> QED
    BY <2>2 DEF x, y
<1> QED
  BY <1>1, <1>3, <1>4, SeqEqual

---------------------------------------------------------------------------
(* The regions of the program *)

\* A region of a range, a hole of which makes it two.
LEMMA RegionOfRange ==
  ASSUME NEW r \in Ranges
  PROVE  RegionOK(RegionOf(r))
<1>1. RegionOK(EmptyRegion) /\ RegionOK(Everything)
  BY EmptyList DEF RegionOK, EmptyRegion, Everything, GapList
<1>2. ASSUME NEW s, Interval(s) PROVE RegionOK(RegionOf(s))
  <2>1. /\ s \in RangeRecord /\ Described(s) /\ Low(s) \in Nat /\ High(s) \in Nat
        /\ (High(s) = 0 \/ Low(s) < High(s)) /\ (Low(s) # 0 \/ High(s) # 0)
    BY <1>2, IntervalNumbers
  <2>2. ~s.null /\ ~IsUniverse(s) /\ ~IsUnbounded(s)
    BY <2>1 DEF Described
  <2>3. RegionOf(s) = [universe |-> FALSE, ranges |-> <<s>>]
    BY <2>2 DEF RegionOf
  <2>4. GapList(<<s>>)
    <3>1. DOMAIN <<s>> = {1} /\ <<s>>[1] = s /\ <<s>> \in Seq(RangeRecord)
      BY <2>1, OneInList
    <3>2. \A i, j \in {1} : ~(i < j)
      OBVIOUS
    <3> QED
      BY <1>2, <3>1, <3>2 DEF GapList
  <2> QED
    BY <2>3, <2>4 DEF RegionOK, GapList
<1>3. \A b \in Bound : b \in AnyBound /\ ~b.null /\ LowCut(b) \in Nat /\ HighCut(b) \in Nat /\ LowCut(b) # 0 /\ HighCut(b) # 0
  <2>1. ASSUME NEW b \in Bound
        PROVE  b \in AnyBound /\ ~b.null /\ LowCut(b) \in Nat /\ HighCut(b) \in Nat /\ LowCut(b) # 0 /\ HighCut(b) # 0
    <3>1. b \in AnyBound
      BY DEF AnyBound
    <3>2. ~b.null
      BY DEF Bound
    <3>3. LowCut(b) > 1 /\ HighCut(b) > 1 /\ LowCut(b) \in Nat /\ HighCut(b) \in Nat
      BY <3>1, <3>2, BoundFacts
    <3> QED
      BY <3>1, <3>2, <3>3
  <2> QED
    BY <2>1
<1>4. Universe \in RangeRecord /\ Universe.lower = NullBound /\ Universe.upper = NullBound
      /\ LowCut(NullBound) = 0 /\ HighCut(NullBound) = 0
  BY DEF RangeRecord, AnyBound, Universe, LowCut, HighCut, NullBound
<1>5. ASSUME NEW b \in Bound
      PROVE  /\ Interval(CreateLowerBound(b)) /\ Low(CreateLowerBound(b)) = LowCut(b) /\ High(CreateLowerBound(b)) = 0
             /\ Interval(CreateUpperBound(b)) /\ Low(CreateUpperBound(b)) = 0 /\ High(CreateUpperBound(b)) = HighCut(b)
  <2> DEFINE l == CreateLowerBound(b)
             u == CreateUpperBound(b)
  <2>1. l = [Universe EXCEPT !.lower = b] /\ u = [Universe EXCEPT !.upper = b]
    BY DEF CreateLowerBound, CreateUpperBound
  <2> HIDE DEF l, u
  <2>2. /\ l \in RangeRecord /\ l.lower = b /\ l.upper = NullBound
        /\ u \in RangeRecord /\ u.lower = NullBound /\ u.upper = b
    BY <1>3, <1>4, <2>1 DEF RangeRecord
  <2>3. Low(l) = LowCut(b) /\ High(l) = 0 /\ Low(u) = 0 /\ High(u) = HighCut(b)
    BY <1>4, <2>2 DEF Low, High
  <2>4. Interval(l) /\ Interval(u)
    <3>1. LowCut(b) # 0 /\ HighCut(b) # 0 /\ LowCut(b) \in Nat /\ HighCut(b) \in Nat
      BY <1>3
    <3> QED
      BY <2>2, <2>3, <3>1 DEF Interval
  <2> QED
    BY <2>3, <2>4 DEF l, u
<1>6. ASSUME NEW l \in Bound, NEW u \in Bound PROVE RegionOK(RegionOf(CreateDoubleBound(l, u)))
  <2> DEFINE s == CreateDoubleBound(l, u)
  <2>1. CASE l.value = u.value /\ l.included # u.included
    <3>1. s = Universe
      BY <2>1 DEF CreateDoubleBound
    <3>2. ~Universe.null /\ IsUniverse(Universe)
      BY <1>4, RangesAreDescribed DEF Described, Low, High
    <3> QED
      BY <1>1, <3>1, <3>2 DEF RegionOf
  <2>2. CASE ~(l.value = u.value /\ l.included # u.included)
    <3>1. s = [lower |-> l, upper |-> u, null |-> FALSE]
      BY <2>2 DEF CreateDoubleBound
    <3> HIDE DEF s
    <3>2. s \in RangeRecord /\ s.lower = l /\ s.upper = u
      BY <1>3, <3>1 DEF RangeRecord
    <3>3. /\ Low(s) = LowCut(l) /\ High(s) = HighCut(u) /\ Low(s) # 0 /\ High(s) # 0
          /\ Low(s) \in Nat /\ High(s) \in Nat
      BY <1>3, <3>2 DEF Low, High
    <3>4. Low(s) # High(s)
      BY <1>3, <2>2, <3>3, TouchingBounds
    <3>5. CASE Low(s) < High(s)
      <4>1. Interval(s)
        BY <3>2, <3>3, <3>5 DEF Interval
      <4> QED
        BY <1>2, <4>1 DEF s
    <3>6. CASE High(s) < Low(s)
      <4>1. ~s.null /\ ~IsUniverse(s) /\ IsUnbounded(s)
        BY <3>2, <3>3, <3>6, RangesAreDescribed DEF Described
      <4> DEFINE below == CreateUpperBound(u)
                 above == CreateLowerBound(l)
      <4>2. RegionOf(s) = [universe |-> FALSE, ranges |-> <<below, above>>]
        BY <3>2, <4>1 DEF RegionOf
      <4>3. Interval(below) /\ Interval(above) /\ Gap(below, above) /\ below \in RangeRecord /\ above \in RangeRecord
        <5>1. /\ Interval(below) /\ High(below) = HighCut(u) /\ Interval(above) /\ Low(above) = LowCut(l)
          BY <1>5
        <5> QED
          BY <3>3, <3>6, <5>1 DEF Gap, Interval
      <4> HIDE DEF below, above
      <4>4. GapList(<<below, above>>)
        <5>1. /\ DOMAIN <<below, above>> = {1, 2} /\ <<below, above>>[1] = below /\ <<below, above>>[2] = above
              /\ <<below, above>> \in Seq(RangeRecord)
          BY <4>3
        <5>2. \A i, j \in {1, 2} : i < j => i = 1 /\ j = 2
          OBVIOUS
        <5> QED
          BY <4>3, <5>1, <5>2 DEF GapList
      <4>5. RegionOK(RegionOf(s))
        BY <4>2, <4>4 DEF RegionOK, GapList
      <4> QED
        BY <4>5 DEF s
    <3> QED
      BY <3>3, <3>4, <3>5, <3>6
  <2> QED
    BY <2>1, <2>2
<1>7. RegionOf(EmptyRange) = EmptyRegion
  <2>1. EmptyRange.null
    BY DEF EmptyRange, Universe
  <2> QED
    BY <2>1 DEF RegionOf
<1>8. RegionOf(Universe) = Everything
  <2>1. ~Universe.null /\ IsUniverse(Universe)
    BY <1>4, RangesAreDescribed DEF Described, Low, High
  <2> QED
    BY <2>1 DEF RegionOf
<1>9. CASE r = EmptyRange \/ r = Universe
  BY <1>1, <1>7, <1>8, <1>9
<1>10. CASE \E b \in Bound : r = CreateLowerBound(b) \/ r = CreateUpperBound(b)
  BY <1>2, <1>5, <1>10
<1>11. CASE \E l, u \in Bound : r = CreateDoubleBound(l, u)
  BY <1>6, <1>11
<1> QED
  BY <1>9, <1>10, <1>11 DEF Ranges

\* RangeContaining ends early, and finds the range.
LEMMA ContainsIsRight ==
  ASSUME NEW a, RegionOK(a), NEW p \in Points
  PROVE  ContainsPoint(a, p) <=> p \in Denoted(a)
<1> DEFINE l == a.ranges
           stops == {i \in 1 .. Len(a.ranges) : RangeContains(a.ranges[i], p) \/ a.ranges[i].lower.value > p}
<1>1. p \in Denoted(a) <=> a.universe \/ Covers(l, p)
  BY DenotedPoints
<1>2. GapList(l) /\ DOMAIN l = 1 .. Len(l) /\ Len(l) \in Nat
  BY LenProperties DEF RegionOK, GapList
<1>3. \A i \in DOMAIN l : p \in PointsOf(l[i]) <=> RangeContains(l[i], p)
  BY DEF PointsOf
<1>4. ContainsPoint(a, p) => p \in Denoted(a)
  BY <1>1, <1>2, <1>3 DEF ContainsPoint, Covers
<1>5. ASSUME Covers(l, p) PROVE ContainsPoint(a, p)
  <2>1. PICK k \in DOMAIN l : p \in PointsOf(l[k])
    BY <1>5 DEF Covers
  <2>2. k \in stops /\ stops \subseteq Nat
    BY <1>2, <1>3, <2>1
  <2>3. PICK i \in stops : \A j \in stops : i <= j
    <3> HIDE DEF stops
    <3> QED
      BY <2>2, LeastNumber
  <2>4. i \in DOMAIN l /\ i <= k /\ (RangeContains(l[i], p) \/ l[i].lower.value > p)
    BY <1>2, <2>2, <2>3
  <2>5. CASE RangeContains(l[i], p)
    BY <2>3, <2>5 DEF ContainsPoint
  <2>6. CASE ~RangeContains(l[i], p)
    <3>1. i < k /\ l[i].lower.value > p
      <4>1. i # k
        BY <1>3, <2>1, <2>6
      <4> QED
        BY <1>2, <2>4, <2>6, <4>1
    <3>2. Interval(l[i]) /\ Interval(l[k]) /\ Gap(l[i], l[k])
      BY <1>2, <2>1, <2>4, <3>1 DEF GapList
    <3>3. From(Low(l[k]), p)
      BY <1>2, <2>1, PointsInList
    <3>4. l[i].lower \in AnyBound /\ Low(l[i]) = LowCut(l[i].lower)
      BY <3>2, RangeNumbers DEF Interval, Low
    <3> DEFINE v == l[i].lower.value
               c == Low(l[i])
               d == High(l[i])
               e == Low(l[k])
    <3>5. v \in Nat /\ 2 * v <= c
      <4>1. ASSUME NEW b \in AnyBound PROVE b.value \in Nat /\ 2 * b.value <= LowCut(b)
        <5>1. CASE b.null
          <6>1. b.value = 0 /\ LowCut(b) = 0
            BY <5>1, BoundFacts
          <6> QED
            BY <6>1
        <5>2. CASE ~b.null
          <6>1. b.value \in Nat
            BY <5>2, BoundFacts
          <6> QED
            BY <5>2, <6>1 DEF LowCut
        <5> QED
          BY <5>1, <5>2
      <4> QED
        BY <3>4, <4>1
    <3>6. /\ c \in Nat /\ d \in Nat /\ e \in Nat /\ (d = 0 \/ c < d) /\ d # 0 /\ d < e /\ From(e, p) /\ p \in Int
          /\ v > p
      BY <3>1, <3>2, <3>3, IntervalNumbers, PointsAssumption DEF Gap
    <3> HIDE DEF c, d, e, v, l
    <3>7. FALSE
      BY <3>5, <3>6 DEF From
    <3> QED
      BY <3>7
  <2> QED
    BY <2>5, <2>6
<1>6. a.universe => ContainsPoint(a, p)
  BY DEF ContainsPoint
<1> QED
  BY <1>1, <1>4, <1>5, <1>6

\* A list of ranges does not have all points.
LEMMA NoListIsEverything ==
  ASSUME NEW list, GapList(list)
  PROVE  \E p \in Points : ~Covers(list, p)
<1> SUFFICES ASSUME \A p \in Points : Covers(list, p) PROVE FALSE
  OBVIOUS
<1>1. Universe \in RangeRecord /\ Universe.lower = NullBound /\ Universe.upper = NullBound
      /\ LowCut(NullBound) = 0 /\ HighCut(NullBound) = 0
  BY DEF RangeRecord, AnyBound, Universe, LowCut, HighCut, NullBound
<1>2. Solid(Universe) /\ Low(Universe) = 0 /\ High(Universe) = 0
  BY <1>1 DEF Solid, Low, High
<1>3. PICK i \in DOMAIN list : Spans(list[i], Universe)
  BY <1>2, OneSpansIt
<1>4. Interval(list[i])
  BY DEF GapList
<1>5. Low(list[i]) \in Nat /\ High(list[i]) \in Nat /\ (Low(list[i]) # 0 \/ High(list[i]) # 0)
  BY <1>4, IntervalNumbers
<1> QED
  BY <1>2, <1>3, <1>5 DEF Spans

\* Two regions of the same points are the same.
LEMMA SameRegions ==
  ASSUME NEW a, NEW b, RegionOK(a), RegionOK(b), Denoted(a) = Denoted(b)
  PROVE  a = b
<1>1. /\ \A p : p \in Denoted(a) <=> p \in Points /\ (a.universe \/ Covers(a.ranges, p))
      /\ \A p : p \in Denoted(b) <=> p \in Points /\ (b.universe \/ Covers(b.ranges, p))
  BY DenotedPoints
<1>2. /\ GapList(a.ranges) /\ GapList(b.ranges)
      /\ (a.universe => a.ranges = <<>>) /\ (b.universe => b.ranges = <<>>)
  BY DEF RegionOK
<1>3. a.universe <=> b.universe
  BY <1>1, <1>2, NoListIsEverything
<1>4. a.ranges = b.ranges
  <2>1. CASE a.universe
    BY <1>2, <1>3, <2>1
  <2>2. CASE ~a.universe
    <3>1. \A p \in Points : Covers(a.ranges, p) <=> Covers(b.ranges, p)
      BY <1>1, <1>3, <2>2
    <3> QED
      BY <1>2, <3>1, SameLists
  <2> QED
    BY <2>1, <2>2
<1>5. a.universe = b.universe
  <2>1. a.universe \in BOOLEAN /\ b.universe \in BOOLEAN
    BY DEF RegionOK
  <2> QED
    BY <1>3, <2>1
<1>6. ASSUME NEW c, RegionOK(c) PROVE c = [ranges |-> c.ranges, universe |-> c.universe]
  BY <1>6 DEF RegionOK
<1> QED
  BY <1>4, <1>5, <1>6

---------------------------------------------------------------------------

\* The inductive invariant: both regions are lists of ranges in order and apart.
RegionsOK == RegionOK(region) /\ RegionOK(operand)

\* What the invariant says of the lists makes the regions exact.
LEMMA RegionsAreExact == RegionsOK => RegionIsExact
<1> SUFFICES ASSUME RegionOK(region), RegionOK(operand) PROVE RegionIsExact
  BY DEF RegionsOK
<1>1. ASSUME NEW i \in DOMAIN region.ranges, NEW j \in DOMAIN region.ranges, i < j
      PROVE  RangeLessThan(region.ranges[i], region.ranges[j]) /\ ~Meets(region.ranges[i], region.ranges[j])
  <2>1. Interval(region.ranges[i]) /\ Interval(region.ranges[j]) /\ Gap(region.ranges[i], region.ranges[j])
    BY <1>1 DEF RegionOK, GapList
  <2> DEFINE r == region.ranges[i]
             s == region.ranges[j]
  <2>2. Answered(r, s) /\ Gap(r, s) /\ High(r) \in Nat /\ Low(s) \in Nat
    BY <2>1, IntervalsAnswer, IntervalNumbers
  <2> HIDE DEF r, s
  <2>3. RangeLessThan(r, s) /\ ~Meets(r, s)
    BY <2>2 DEF Answered, Gap
  <2> QED
    BY <2>3 DEF r, s
<1>2. ListIsMinimal
  BY <1>1, ContainsIsRight, SameRegions DEF ListIsMinimal, RegionOK
<1>3. \A r \in RangesOf(region), s \in RangesOf(operand) : RangesCompareRight(r, s)
  <2>1. ASSUME NEW r \in RangesOf(region), NEW s \in RangesOf(operand) PROVE RangesCompareRight(r, s)
    <3>1. Interval(r) /\ Interval(s)
      BY DEF RangesOf, RegionOK, GapList
    <3> QED
      BY <3>1, RangesRight
  <2> QED
    BY <2>1
<1>4. OperationsAreExact
  BY <1>3, OperationsAreRight DEF OperationsAreExact
<1> QED
  BY <1>2, <1>4 DEF RegionIsExact

\* Every operation leaves both lists in order and apart.
LEMMA RegionsStayOK == RegionSpec => []RegionsOK
<1>1. RegionInit => RegionsOK
  BY EmptyList DEF RegionInit, RegionsOK, RegionOK, EmptyRegion, GapList
<1>2. RegionsOK /\ [RegionNext]_regions => RegionsOK'
  <2> SUFFICES ASSUME RegionsOK, [RegionNext]_regions PROVE RegionsOK'
    OBVIOUS
  <2>1. ASSUME NEW r \in Ranges, AssignRange(r) PROVE RegionsOK'
    BY <2>1, RegionOfRange DEF AssignRange, RegionsOK
  <2>2. CASE Assign
    BY <2>2 DEF Assign, RegionsOK
  <2>3. CASE Operate
    BY <2>3, OperationsAreRight DEF Operate, RegionsOK
  <2>4. CASE UNCHANGED regions
    BY <2>4 DEF regions, RegionsOK
  <2> QED
    BY <2>1, <2>2, <2>3, <2>4 DEF RegionNext
<1> QED
  BY <1>1, <1>2, PTL DEF RegionSpec

\* Whatever operations it went through, a region is a list of ranges in order, no two of
\* which could be one, Contains() may stop early, two regions of the same points are the
\* same list, and the operations are those on sets.
THEOREM RegionStaysExact == RegionSpec => []RegionIsExact
  BY RegionsStayOK, RegionsAreExact, PTL
=============================================================================
