---------------------------- MODULE SharedPointer ----------------------------
(***************************************************************************)
(* SharedSmartPointer (src/core/utils/smartpointer.h): pointers that share *)
(* an object and an atomic count of references, each used by a thread of   *)
(* its own.  An access to the count, and a deletion, is one step.          *)
(*                                                                         *)
(* Where the call of a pointer stands:                                     *)
(*   "idle"      outside a call                                            *)
(*   "deleting"  in Clear, after counting down to 0                        *)
(*   "sole"      in Detach, after counting down to 0, to count up again    *)
(*   "copying"   in Detach, about to copy an object it no longer counts    *)
(*   "dangling"  the same, but that object has been deleted                *)
(*   "assigning" in operator =, after the destructor                       *)
(***************************************************************************)
EXTENDS Naturals, FiniteSets

CONSTANTS Pointers,    \* the pointers
          Addresses,     \* the addresses of objects
          Null         \* no object

ASSUME PointersAssumption == IsFiniteSet(Pointers)
ASSUME NullAssumption == Null \notin Addresses /\ Null \notin Pointers

VARIABLES
  ptr,        \* m_ptr (and m_refs) of each pointer
  refs,       \* the count that belongs to each object
  live,       \* the objects that exist
  calling,    \* where the call of each pointer stands
  source,     \* the pointer that operator = copies from, or Null
  corrupt     \* memory was used after it was freed

pointerVars == <<ptr, refs, live, calling, source, corrupt>>

PointerInit ==
  /\ ptr = [p \in Pointers |-> Null] /\ refs = [o \in Addresses |-> 0]
  /\ live = {} /\ calling = [p \in Pointers |-> "idle"]
  /\ source = [p \in Pointers |-> Null] /\ corrupt = FALSE

\* Nobody changes a pointer that is being copied from, as is usual in C++.
Free(p) == ~corrupt /\ calling[p] = "idle" /\ \A q \in Pointers \ {p} : source[q] # p

Count(o, n) == refs' = [refs EXCEPT ![o] = n]
Enters(p, to) == calling' = [calling EXCEPT ![p] = to]
Points(p, o) == ptr' = [ptr EXCEPT ![p] = o]

---------------------------------------------------------------------------

\* A new object is given to the pointer p.
Adopt(p, o) ==
  /\ o \in Addresses \ live
  /\ live' = live \union {o} /\ Count(o, 1) /\ Points(p, o)

New(p) ==
  /\ Free(p) /\ ptr[p] = Null
  /\ \E o \in Addresses : Adopt(p, o)
  /\ UNCHANGED <<calling, source, corrupt>>

\* The copy constructor.
Share(p, q) == /\ Points(p, ptr[q])
               /\ IF ptr[q] = Null THEN refs' = refs ELSE Count(ptr[q], refs[ptr[q]] + 1)

CopyOf(p, q) ==
  /\ Free(p) /\ ptr[p] = Null /\ p # q /\ calling[q] = "idle" /\ ptr[q] # Null
  /\ ~corrupt /\ Share(p, q)
  /\ UNCHANGED <<live, calling, source, corrupt>>

\* A bug to detect: the count is left alone when there are other references.
ReleaseUncounted(p, then) ==
  LET left == refs[ptr[p]] - 1
  IN  /\ IF left = 0 THEN Count(ptr[p], left) ELSE refs' = refs
      /\ Points(p, IF left = 0 THEN ptr[p] ELSE Null)
      /\ Enters(p, IF left = 0 THEN "deleting" ELSE then)

\* Clear: count down, and relinquish the object unless it must be deleted.
Release(p, then) ==
  LET left == refs[ptr[p]] - 1
  IN  /\ Count(ptr[p], left)
      /\ Points(p, IF left = 0 THEN ptr[p] ELSE Null)
      /\ Enters(p, IF left = 0 THEN "deleting" ELSE then)

Clear(p) ==
  /\ Free(p) /\ ptr[p] # Null
  /\ Release(p, "idle")
  /\ UNCHANGED <<live, source, corrupt>>

\* Those who are still copying the object are left with a dangling pointer to it.
Delete(p) ==
  /\ ~corrupt /\ calling[p] = "deleting"
  /\ live' = live \ {ptr[p]}
  /\ Points(p, Null)
  /\ calling' = [q \in Pointers |->
       IF q = p THEN IF source[p] = Null THEN "idle" ELSE "assigning"
       ELSE IF calling[q] = "copying" /\ ptr[q] = ptr[p] THEN "dangling" ELSE calling[q]]
  /\ UNCHANGED <<refs, source, corrupt>>

\* operator =: the destructor, then the copy constructor, also if both pointers are one.
Assign(p, q) ==
  /\ Free(p) /\ ~corrupt /\ calling[q] = "idle"
  /\ source' = [source EXCEPT ![p] = q]
  /\ IF ptr[p] # Null THEN Release(p, "assigning")
                      ELSE Enters(p, "assigning") /\ UNCHANGED <<ptr, refs>>
  /\ UNCHANGED <<live, corrupt>>

FinishAssign(p) ==
  /\ ~corrupt /\ calling[p] = "assigning"
  /\ Share(p, source[p])
  /\ Enters(p, "idle") /\ source' = [source EXCEPT ![p] = Null]
  /\ UNCHANGED <<live, corrupt>>

\* Detach: give the reference up.  The pointer remembers the object, as `tmp`, while it
\* copies it.
Detach(p) ==
  /\ Free(p) /\ ptr[p] # Null
  /\ Count(ptr[p], refs[ptr[p]] - 1)
  /\ Enters(p, IF refs[ptr[p]] = 1 THEN "sole" ELSE "copying")
  /\ UNCHANGED <<ptr, live, source, corrupt>>

Recount(p) ==
  /\ ~corrupt /\ calling[p] = "sole"
  /\ Count(ptr[p], refs[ptr[p]] + 1) /\ Enters(p, "idle")
  /\ UNCHANGED <<ptr, live, source, corrupt>>

\* A bug to detect: Detach shares the object again instead of copying it.
CopyObjectShared(p) ==
  /\ ~corrupt /\ calling[p] = "copying"
  /\ Enters(p, "idle")
  /\ UNCHANGED <<ptr, refs, live, source, corrupt>>

CopyObject(p) ==
  /\ ~corrupt /\ calling[p] = "copying"
  /\ \E o \in Addresses : Adopt(p, o)
  /\ Enters(p, "idle")
  /\ UNCHANGED <<source, corrupt>>

CopyDangling(p) ==
  /\ ~corrupt /\ calling[p] = "dangling"
  /\ corrupt' = TRUE
  /\ UNCHANGED <<ptr, refs, live, calling, source>>

PointerStep(p) == Delete(p) \/ FinishAssign(p) \/ Recount(p) \/ CopyObject(p) \/ CopyDangling(p)

PointerNext ==
  \/ \E p \in Pointers : New(p) \/ Clear(p) \/ Detach(p) \/ PointerStep(p)
  \/ \E p, q \in Pointers : CopyOf(p, q) \/ Assign(p, q)
  \/ corrupt /\ UNCHANGED pointerVars

PointerSpec == PointerInit /\ [][PointerNext]_pointerVars

---------------------------------------------------------------------------
(* Properties *)

\* The pointers that the count of an object is about.
Counted(o) == {p \in Pointers : ptr[p] = o /\ calling[p] \in {"idle", "assigning"}}

\* "It counts the references to a given pointer and deletes it when everybody is done
\* referencing it" (smartpointer.h): whatever the threads do, the count is the number of
\* pointers, an object exists as long as there is one, or as the thread that took the
\* count to 0 has it in hand, and only one thread has.
CountsAreExact ==
  /\ \A o \in Addresses : refs[o] = Cardinality(Counted(o)) \/ o \notin live
  /\ \A o \in Addresses : o \in live <=> \E p \in Pointers :
       ptr[p] = o /\ calling[p] \notin {"copying", "dangling"}
  /\ \A p, q \in Pointers :
       calling[p] \in {"deleting", "sole"} /\ ptr[q] = ptr[p] /\ q # p =>
         calling[q] \in {"copying", "dangling"}

\* The object that a thread copies in Detach exists: it does not, because the thread has
\* given its own reference up before.
CopiedObjectsExist == \A p \in Pointers : calling[p] # "dangling"
=============================================================================
