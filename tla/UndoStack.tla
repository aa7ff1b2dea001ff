----------------------------- MODULE UndoStack -----------------------------
(***************************************************************************)
(* UndoStack (src/core/utils/undostack.cpp): a stack of commands that have *)
(* been done, with m_ptr at the one to undo next, and a macro that gathers *)
(* commands into one.  Commands act on a document of the application,      *)
(* which is modelled as the sequence of the commands in force; a command's *)
(* Undo() is right only on the document its Do() left, that is when the    *)
(* command is the last in force.  Any call of a command may throw.         *)
(***************************************************************************)
EXTENDS Naturals, Sequences

CONSTANT MaxCommands    \* how many commands the application creates (a bound)

ASSUME MaxCommandsAssumption == MaxCommands \in Nat

VARIABLES
  doc,      \* the commands in force, in order; Ruined marks a wrong Undo()
  stack,    \* m_stack: a command is a sequence of one, a macro of several
  ptr,      \* m_ptr + 1: the number of stack entries that are done
  macro,    \* m_macro: "none", "building", or "freed" once the object that it
            \* still points to was deleted; and the macro's Commands
  created,  \* how many commands the application has created
  trail,    \* history: the document before the first entry and after each entry
  torn,     \* history: some macro was undone or redone only in part
  status    \* "undefined" once freed memory was used

vars == <<doc, stack, ptr, macro, created, trail, torn, status>>

Id       == Nat \ {0}
Ruined   == 0
Document == Seq(Nat)
NoMacro  == [state |-> "none", commands |-> <<>>]

\* Undo() of the last n commands of e, last one first.
Unapply(d, e, n) ==
  IF /\ n <= Len(d)
     /\ SubSeq(d, Len(d) - n + 1, Len(d)) = SubSeq(e, Len(e) - n + 1, Len(e))
  THEN SubSeq(d, 1, Len(d) - n)
  ELSE Append(d, Ruined)

\* Redo() of the first n commands of e.
Apply(d, e, n) == d \o SubSeq(e, 1, n)

Init ==
  /\ doc = <<>> /\ stack = <<>> /\ ptr = 0
  /\ macro = NoMacro
  /\ created = 0
  /\ trail = <<<<>>>>
  /\ torn = FALSE /\ status = "ok"

\* Once a macro is torn the document is none that the stack knows about, and its
\* further life is not followed (a bound: it could grow for ever).
Followed == status = "ok" /\ ~torn
Idle     == Followed /\ macro.state = "none"
Building == Followed /\ macro.state = "building"

---------------------------------------------------------------------------

Create == created < MaxCommands /\ created' = created + 1

\* A bug to detect: the entries that could be redone stay on the stack.
PushKeepingRedo(e, d) ==
  /\ stack' = SubSeq(stack, 1, ptr) \o <<e>> \o SubSeq(stack, ptr + 2, Len(stack))
  /\ trail' = SubSeq(trail, 1, ptr + 1) \o <<d>> \o SubSeq(trail, ptr + 3, Len(trail))
  /\ ptr' = ptr + 1

\* Increment m_ptr, delete the entries from there on, and push e, which turned
\* the document into d.
Push(e, d) ==
  /\ stack' = Append(SubSeq(stack, 1, ptr), e)
  /\ trail' = Append(SubSeq(trail, 1, ptr + 1), d)
  /\ ptr' = ptr + 1

Do ==
  /\ Idle /\ Create
  /\ doc' = Append(doc, created')
  /\ Push(<<created'>>, doc')
  /\ UNCHANGED <<macro, torn, status>>

DoInMacro ==
  /\ Building /\ Create
  /\ doc' = Append(doc, created')
  /\ macro' = [macro EXCEPT !.commands = Append(@, created')]
  /\ UNCHANGED <<stack, ptr, trail, torn, status>>

\* The command's Do() throws: it is deleted again and nothing else happens.
DoThrows ==
  /\ Idle \/ Building
  /\ Create
  /\ UNCHANGED <<doc, stack, ptr, macro, trail, torn, status>>

\* In a macro, or with nothing to undo or redo, Undo and Redo do nothing.
Undo ==
  /\ Idle /\ ptr > 0
  /\ doc' = Unapply(doc, stack[ptr], Len(stack[ptr]))
  /\ ptr' = ptr - 1
  /\ UNCHANGED <<stack, macro, created, trail, torn, status>>

Redo ==
  /\ Idle /\ ptr < Len(stack)
  /\ doc' = Apply(doc, stack[ptr + 1], Len(stack[ptr + 1]))
  /\ ptr' = ptr + 1
  /\ UNCHANGED <<stack, macro, created, trail, torn, status>>

\* The n-th command called throws; m_ptr stays, and so does what the commands
\* before it have done to the document.
UndoThrows ==
  /\ Idle /\ ptr > 0
  /\ \E n \in 0 .. Len(stack[ptr]) - 1 :
       /\ doc' = Unapply(doc, stack[ptr], n)
       /\ torn' = (torn \/ n > 0)
  /\ UNCHANGED <<stack, ptr, macro, created, trail, status>>

RedoThrows ==
  /\ Idle /\ ptr < Len(stack)
  /\ \E n \in 0 .. Len(stack[ptr + 1]) - 1 :
       /\ doc' = Apply(doc, stack[ptr + 1], n)
       /\ torn' = (torn \/ n > 0)
  /\ UNCHANGED <<stack, ptr, macro, created, trail, status>>

\* Inside a macro BeginMacro does nothing.
BeginMacro ==
  /\ Idle
  /\ macro' = [state |-> "building", commands |-> <<>>]
  /\ UNCHANGED <<doc, stack, ptr, created, trail, torn, status>>

\* A macro of one command is replaced by that command: the same entry.
CommitMacro ==
  /\ Building
  /\ macro' = NoMacro
  /\ IF macro.commands = <<>> THEN UNCHANGED <<stack, ptr, trail>>
                              ELSE Push(macro.commands, doc)
  /\ UNCHANGED <<doc, created, torn, status>>

\* A bug to detect: the commands of the macro are undone in the order they were
\* done, so that with several of them the first Undo() is a wrong one.
RollbackForwards ==
  /\ Building
  /\ doc' = IF Len(macro.commands) <= 1
            THEN Unapply(doc, macro.commands, Len(macro.commands))
            ELSE Append(doc, Ruined)
  /\ macro' = NoMacro
  /\ UNCHANGED <<stack, ptr, created, trail, torn, status>>

RollbackMacro ==
  /\ Building
  /\ doc' = Unapply(doc, macro.commands, Len(macro.commands))
  /\ macro' = NoMacro
  /\ UNCHANGED <<stack, ptr, created, trail, torn, status>>

\* m_macro is already NULL when a command throws: the rest stays in force.
RollbackThrows ==
  /\ Building
  /\ \E n \in 0 .. Len(macro.commands) - 1 : doc' = Unapply(doc, macro.commands, n)
  /\ macro' = NoMacro
  /\ torn' = TRUE
  /\ UNCHANGED <<stack, ptr, created, trail, status>>

\* A bug to detect: m_ptr keeps pointing at the entry it pointed at.
ClearKeepingPointer ==
  /\ Idle \/ Building
  /\ stack' = <<>> /\ trail' = <<doc>>
  /\ macro' = IF macro.state = "none" THEN macro
              ELSE [state |-> "freed", commands |-> <<>>]
  /\ UNCHANGED <<doc, ptr, created, torn, status>>

\* The commands stay in force.  A macro being built is deleted, but m_macro keeps
\* pointing to it.
Clear ==
  /\ Idle \/ Building
  /\ stack' = <<>> /\ ptr' = 0 /\ trail' = <<doc>>
  /\ macro' = IF macro.state = "none" THEN macro
              ELSE [state |-> "freed", commands |-> <<>>]
  /\ UNCHANGED <<doc, created, torn, status>>

\* Do, CommitMacro, RollbackMacro, Clear and the destructor all use or delete
\* what m_macro points to.
UseFreedMacro ==
  /\ Followed /\ macro.state = "freed"
  /\ status' = "undefined"
  /\ UNCHANGED <<doc, stack, ptr, macro, created, trail, torn>>

Stopped == ~Followed /\ UNCHANGED vars

Next ==
  \/ Do \/ DoInMacro \/ DoThrows
  \/ Undo \/ Redo \/ UndoThrows \/ RedoThrows
  \/ BeginMacro \/ CommitMacro \/ RollbackMacro \/ RollbackThrows
  \/ Clear \/ UseFreedMacro \/ Stopped

Spec == Init /\ [][Next]_vars

---------------------------------------------------------------------------
(* Correctness *)

TypeOK ==
  /\ doc \in Document
  /\ stack \in Seq(Seq(Id))
  /\ ptr \in 0 .. Len(stack)
  /\ macro \in [state : {"none", "building", "freed"}, commands : Seq(Id)]
  /\ created \in 0 .. MaxCommands
  /\ trail \in Seq(Document) /\ Len(trail) = Len(stack) + 1
  /\ torn \in BOOLEAN /\ status \in {"ok", "undefined"}

Sound == ~torn /\ status = "ok" /\ macro.state # "freed"

\* The document is always the one it was when the stack last stood where it
\* stands now, plus the macro being built: no sequence of Do, Undo, Redo, macros
\* and thrown exceptions makes Undo or Redo lead to another document, as long as
\* no macro was left half-done.
DocumentFollowsStack == Sound => doc = trail[ptr + 1] \o macro.commands

\* What DocumentFollowsStack rests on: each entry leads from the document before
\* it to the document after it.
EntriesConnect ==
  /\ \A i \in 1 .. Len(stack) : trail[i + 1] = trail[i] \o stack[i]
  /\ macro.state # "building" => macro.commands = <<>>

\* The stack and the commands on it implement the document history that a user
\* of the application sees.
History == INSTANCE EditHistory WITH
  past   <- SubSeq(trail, 1, ptr),
  future <- SubSeq(trail, ptr + 2, Len(trail)),
  mark   <- IF macro.state = "building" THEN <<trail[ptr + 1]>> ELSE <<>>,
  broken <- ~Sound

ImplementsHistory == History!Spec
============================================================================
