---------------------------- MODULE EditHistory ----------------------------
(***************************************************************************)
(* What an undo facility promises the user of an application: the document *)
(* goes back through exactly the states it has been in, and forward again  *)
(* until something new is done; a macro counts as one edit, and rolling it *)
(* back restores the document it began with.                               *)
(***************************************************************************)
EXTENDS Naturals, Sequences

CONSTANT Document

VARIABLES doc,      \* the document
          past,     \* the documents that undoing leads back through
          future,   \* the documents that redoing leads forward through
          mark,     \* the document a macro in progress began with, if there is one
          broken    \* the promise no longer holds

vars == <<doc, past, future, mark, broken>>

Init == /\ doc \in Document
        /\ past = <<>> /\ future = <<>> /\ mark = <<>> /\ broken = FALSE

Kept == ~broken /\ broken' = broken

Edit == /\ Kept /\ mark = <<>> /\ doc' \in Document
        /\ past' = Append(past, doc) /\ future' = <<>> /\ mark' = mark

EditInMacro == /\ Kept /\ mark # <<>> /\ doc' \in Document
               /\ UNCHANGED <<past, future, mark>>

Undo == /\ Kept /\ mark = <<>> /\ past # <<>>
        /\ doc' = past[Len(past)]
        /\ past' = SubSeq(past, 1, Len(past) - 1)
        /\ future' = <<doc>> \o future
        /\ mark' = mark

Redo == /\ Kept /\ mark = <<>> /\ future # <<>>
        /\ doc' = Head(future)
        /\ past' = Append(past, doc)
        /\ future' = Tail(future)
        /\ mark' = mark

BeginMacro == /\ Kept /\ mark = <<>> /\ mark' = <<doc>>
              /\ UNCHANGED <<doc, past, future>>

CommitMacro == /\ Kept /\ mark # <<>> /\ mark' = <<>>
               /\ past' = Append(past, Head(mark)) /\ future' = <<>>
               /\ doc' = doc

\* An empty macro leaves no trace; any other is undone.
RollbackMacro == /\ Kept /\ mark # <<>> /\ mark' = <<>>
                 /\ doc' = Head(mark)
                 /\ UNCHANGED <<past, future>>

Forget == /\ Kept /\ mark = <<>>
          /\ past' = <<>> /\ future' = <<>>
          /\ UNCHANGED <<doc, mark>>

\* A command failed half-way, or the history itself was damaged.
Break == broken' = TRUE

Next == \/ Edit \/ EditInMacro \/ Undo \/ Redo
        \/ BeginMacro \/ CommitMacro \/ RollbackMacro \/ Forget \/ Break

Spec == Init /\ [][Next]_vars
============================================================================
