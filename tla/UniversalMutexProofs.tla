------------------------ MODULE UniversalMutexProofs ------------------------
(***************************************************************************)
(* What the universal mutex guarantees for any number of agents, machines  *)
(* and identifiers: exclusion on each machine.                             *)
(***************************************************************************)
EXTENDS UniversalMutex, TLAPS

Locking   == {"reading", "truncating", "writing", "verifying"}
Unlocking == {"clearing", "removing", "releasing"}

\* Who holds the machine mutex at every point of every call.
MutexFollowsPosition ==
  \A a \in Agents :
    /\ at[a] = "gone" => ~HasMutex(a)
    /\ at[a] \in {"idle", "creating", "watching"} =>
         (HasMutex(a) <=> _is_locked[a] \/ a \in unverified)
    /\ at[a] \in Locking \union Unlocking => HasMutex(a)
    /\ at[a] \in Locking \union {"gone", "creating", "watching"} => ~_is_locked[a]
    /\ at[a] \in Unlocking => _is_locked[a]
    /\ at[a] \in Locking \union {"gone"} => a \notin unverified
    /\ thread[a] = "losing" => at[a] = "idle" /\ _is_locked[a]
    /\ ~(_is_locked[a] /\ a \in unverified)

IInv == TypeOK /\ MutexFollowsPosition

LEMMA InitIInv == Init => IInv
  BY NobodyAssumption, MachineOfAssumption
  DEF Init, IInv, TypeOK, MutexFollowsPosition, Position, HasMutex, Mutex, Locking, Unlocking

\* The steps that move one agent and leave the mutexes and the flags alone.
LEMMA FileStep ==
  ASSUME IInv, NEW a \in Agents, NEW from \in Position, NEW to \in Position,
         Move(a, from, to),
         UNCHANGED <<_is_locked, holder, thread, unverified>>,
         \/ from \in Locking /\ to \in Locking
         \/ from \in Unlocking /\ to \in Unlocking
         \/ from \in {"creating", "watching"} /\ to \in {"idle", "watching"}
         \/ from = "idle" /\ LockFree(a) /\ ~_is_locked[a] /\ to \in {"creating", "watching"}
         \/ from = "idle" /\ LockFree(a) /\ _is_locked[a] /\ to \in Unlocking
         \/ from = "gone" /\ to \in {"creating", "watching"}
  PROVE  MutexFollowsPosition'
  BY DEF IInv, TypeOK, MutexFollowsPosition, Position, HasMutex, Mutex, Locking, Unlocking, Move, LockFree

\* The variables that only the type invariant speaks of.
FileType ==
  /\ file \in Ids \union {NoId, Absent}
  /\ watched \subseteq Listening /\ pending \subseteq Listening

LEMMA FileTyped ==
  ASSUME FileType, NEW id \in Ids \union {NoId, Absent}, Changed(id) \/ Unchanged
  PROVE  FileType'
  BY DEF FileType, Changed, Unchanged

LEMMA StepIInv == IInv /\ [Next]_vars => IInv'
<1> SUFFICES ASSUME IInv, [Next]_vars PROVE IInv'
  OBVIOUS
<1> USE NobodyAssumption, MachineOfAssumption, IdsAssumption, IdOfAssumption, ListeningAssumption
<1>0. FileType /\ TypeOK /\ MutexFollowsPosition
  BY DEF IInv, TypeOK, FileType
<1>1. CASE UNCHANGED vars
  BY <1>0, <1>1 DEF vars, IInv, TypeOK, MutexFollowsPosition, HasMutex, Mutex
<1>2. SUFFICES ASSUME NEW a \in Agents,
                      \/ Construct(a) \/ SetFilePath(a) \/ Lock(a) \/ Unlock(a)
                      \/ Destroy(a) \/ Crash(a) \/ Step(a) \/ Background(a)
               PROVE IInv'
  BY <1>1 DEF Next
<1>3. CASE Construct(a)
  <2>1. MutexFollowsPosition'
    BY <1>3, FileStep DEF Construct, LookAtPath, Position
  <2>2. TypeOK'
    BY <1>0, <1>3 DEF Construct, LookAtPath, Move, TypeOK, Position
  <2> QED BY <2>1, <2>2 DEF IInv
<1>4. CASE SetFilePath(a)
  <2>1. MutexFollowsPosition'
    BY <1>4, FileStep DEF SetFilePath, LookAtPath, Position
  <2>2. TypeOK'
    BY <1>0, <1>4 DEF SetFilePath, LookAtPath, Move, TypeOK, Position
  <2> QED BY <2>1, <2>2 DEF IInv
<1>5. CASE Lock(a)
  <2>1. MutexFollowsPosition'
    BY <1>0, <1>5 DEF Lock, LockFree, Move, TypeOK, MutexFollowsPosition, HasMutex, Mutex,
       Locking, Unlocking, Position
  <2>2. TypeOK'
    BY <1>0, <1>5 DEF Lock, Move, TypeOK, Position
  <2> QED BY <2>1, <2>2 DEF IInv
<1>6. CASE Unlock(a)
  <2>1. MutexFollowsPosition'
    BY <1>6, FileStep DEF Unlock, LockFree, Position, Unlocking
  <2>2. TypeOK'
    BY <1>0, <1>6 DEF Unlock, Move, TypeOK, Position
  <2> QED BY <2>1, <2>2 DEF IInv
<1>7. ASSUME Leave(a) PROVE IInv'
  <2>1. MutexFollowsPosition'
    BY <1>0, <1>7 DEF Leave, FreeMutex, TypeOK, MutexFollowsPosition, HasMutex, Mutex,
       Locking, Unlocking, Position
  <2>2. TypeOK'
    BY <1>0, <1>7 DEF Leave, FreeMutex, HasMutex, Mutex, TypeOK, Position
  <2> QED BY <2>1, <2>2 DEF IInv
<1>8. CASE Step(a)
  <2>1. CASE CreateFile(a)
    <3>1. MutexFollowsPosition'
      BY <2>1, FileStep DEF CreateFile, Position
    <3>2. FileType'
      BY <1>0, <2>1, FileTyped DEF CreateFile
    <3>3. TypeOK'
      BY <1>0, <2>1, <3>2 DEF CreateFile, Move, FileType, TypeOK, Position
    <3> QED BY <3>1, <3>3 DEF IInv
  <2>2. CASE AddPath(a)
    <3>1. MutexFollowsPosition'
      BY <2>2, FileStep DEF AddPath, Position
    <3>2. TypeOK'
      BY <1>0, <2>2 DEF AddPath, Move, TypeOK, Position
    <3> QED BY <3>1, <3>2 DEF IInv
  <2>3. CASE ReadFile(a)
    <3>1. MutexFollowsPosition'
      BY <2>3, FileStep DEF ReadFile, Position, Locking
    <3>2. FileType'
      BY <1>0, <2>3, FileTyped DEF ReadFile
    <3>3. TypeOK'
      BY <1>0, <2>3, <3>2 DEF ReadFile, Move, FileType, TypeOK, Position
    <3> QED BY <3>1, <3>3 DEF IInv
  <2>4. CASE OpenFails(a)
    <3>1. MutexFollowsPosition'
      BY <2>4, FileStep DEF OpenFails, Position, Locking
    <3>2. TypeOK'
      BY <1>0, <2>4 DEF OpenFails, Move, TypeOK, Position
    <3> QED BY <3>1, <3>2 DEF IInv
  <2>5. CASE Unrecognized(a)
    <3>1. MutexFollowsPosition'
      BY <1>0, <2>5 DEF Unrecognized, FreeMutex, Move, TypeOK, MutexFollowsPosition, HasMutex,
         Mutex, Locking, Unlocking, Position
    <3>2. TypeOK'
      BY <1>0, <2>5 DEF Unrecognized, FreeMutex, HasMutex, Mutex, Move, TypeOK, Position
    <3> QED BY <3>1, <3>2 DEF IInv
  <2>6. CASE Truncate(a)
    <3>1. MutexFollowsPosition'
      BY <2>6, FileStep DEF Truncate, Position, Locking
    <3>2. FileType'
      BY <1>0, <2>6, FileTyped DEF Truncate
    <3>3. TypeOK'
      BY <1>0, <2>6, <3>2 DEF Truncate, Move, FileType, TypeOK, Position
    <3> QED BY <3>1, <3>3 DEF IInv
  <2>7. CASE WriteId(a)
    <3>1. MutexFollowsPosition'
      BY <2>7, FileStep DEF WriteId, Position, Locking
    <3>2. FileType'
      BY <1>0, <2>7, FileTyped DEF WriteId
    <3>3. TypeOK'
      BY <1>0, <2>7, <3>2 DEF WriteId, Move, FileType, TypeOK, Position
    <3> QED BY <3>1, <3>3 DEF IInv
  <2>8. ASSUME NEW seen \in Sees, Verify(a, seen) PROVE IInv'
    <3>1. MutexFollowsPosition'
      BY <1>0, <2>8 DEF Verify, Move, TypeOK, MutexFollowsPosition, HasMutex, Mutex,
         Locking, Unlocking, Position
    <3>2. TypeOK'
      BY <1>0, <2>8 DEF Verify, Move, TypeOK, Position
    <3> QED BY <3>1, <3>2 DEF IInv
  <2>9. CASE ClearFile(a)
    <3>1. MutexFollowsPosition'
      BY <2>9, FileStep DEF ClearFile, Position, Unlocking
    <3>2. FileType'
      BY <1>0, <2>9, FileTyped DEF ClearFile
    <3>3. TypeOK'
      BY <1>0, <2>9, <3>2 DEF ClearFile, Move, FileType, TypeOK, Position
    <3> QED BY <3>1, <3>3 DEF IInv
  <2>10. CASE RemoveFile(a)
    <3>1. MutexFollowsPosition'
      BY <2>10, FileStep DEF RemoveFile, Position, Unlocking
    <3>2. FileType'
      BY <1>0, <2>10, FileTyped DEF RemoveFile
    <3>3. TypeOK'
      BY <1>0, <2>10, <3>2 DEF RemoveFile, Move, FileType, TypeOK, Position
    <3> QED BY <3>1, <3>3 DEF IInv
  <2>11. CASE ReleaseMutex(a)
    <3>1. MutexFollowsPosition'
      BY <1>0, <2>11 DEF ReleaseMutex, FreeMutex, Move, TypeOK, MutexFollowsPosition, HasMutex,
         Mutex, Locking, Unlocking, Position
    <3>2. TypeOK'
      BY <1>0, <2>11 DEF ReleaseMutex, FreeMutex, HasMutex, Mutex, Move, TypeOK, Position
    <3> QED BY <3>1, <3>2 DEF IInv
  <2> QED
    BY <1>8, <2>1, <2>2, <2>3, <2>4, <2>5, <2>6, <2>7, <2>8, <2>9, <2>10, <2>11 DEF Step
<1>9. CASE Background(a)
  <2>1. CASE LockFileUpdated(a)
    BY <1>0, <2>1 DEF LockFileUpdated, LockFree, IInv, TypeOK, MutexFollowsPosition, HasMutex, Mutex
  <2>2. ASSUME NEW seen \in Sees, CheckFile(a, seen) PROVE IInv'
    BY <1>0, <2>2 DEF CheckFile, LockFree, IInv, TypeOK, MutexFollowsPosition, HasMutex, Mutex
  <2>3. CASE GiveUp(a)
    <3>1. MutexFollowsPosition'
      BY <1>0, <2>3 DEF GiveUp, FreeMutex, TypeOK, MutexFollowsPosition, HasMutex, Mutex,
         Locking, Unlocking, Position
    <3>2. TypeOK'
      BY <1>0, <2>3 DEF GiveUp, FreeMutex, HasMutex, Mutex, TypeOK
    <3> QED BY <3>1, <3>2 DEF IInv
  <2>4. CASE EndThread(a)
    BY <1>0, <2>4 DEF EndThread, IInv, TypeOK, MutexFollowsPosition, HasMutex, Mutex
  <2> QED BY <1>9, <2>1, <2>2, <2>3, <2>4 DEF Background
<1> QED
  BY <1>1, <1>2, <1>3, <1>4, <1>5, <1>6, <1>7, <1>8, <1>9 DEF Destroy, Crash

---------------------------------------------------------------------------

\* Every variable keeps its type; only between opening and closing the file can
\* an agent write to one that is no longer there.
THEOREM TypeCorrect == Spec => []TypeOK
<1>1. IInv => TypeOK BY DEF IInv
<1> QED BY <1>1, InitIInv, StepIInv, PTL DEF Spec

\* Whatever is written to the file, and by whom, a machine has one owner at most.
THEOREM MachineExclusion == Spec => []OneOwnerPerMachine
<1>1. IInv => OneOwnerPerMachine
  BY DEF IInv, MutexFollowsPosition, OneOwnerPerMachine, Owns, LockFree, HasMutex, Mutex
<1> QED BY <1>1, InitIInv, StepIInv, PTL DEF Spec

\* Outside the calls the machine mutex is held by the owners and by those whose
\* Lock failed to verify, and by nobody else.
THEOREM MutexIsGivenBack == Spec => []MutexFollowsFlag
<1>1. IInv => MutexFollowsFlag
  BY DEF IInv, MutexFollowsPosition, MutexFollowsFlag, LockFree
<1> QED BY <1>1, InitIInv, StepIInv, PTL DEF Spec

---------------------------------------------------------------------------
(* What an owner may find in the file *)

Foreign(a) == \E b \in Agents : MachineOf[b] # MachineOf[a] /\ IdOf[b] = Content

LockedFileIsMine ==
  \A a \in Agents :
    _is_locked[a] /\ IdOf[a] # NoId /\ Content \notin {IdOf[a], NoId} => Foreign(a)

FInv == IInv /\ LockedFileIsMine

\* Emptying or removing the file hurts nobody.
LEMMA EmptyStep ==
  ASSUME NEW id \in {NoId, Absent}, Changed(id) PROVE LockedFileIsMine'
  BY IdsAssumption DEF Changed, LockedFileIsMine, Content

\* Nor does a step that leaves the file alone and makes nobody an owner.
LEMMA QuietStep ==
  ASSUME LockedFileIsMine, UNCHANGED file, \A a \in Agents : _is_locked'[a] => _is_locked[a]
  PROVE  LockedFileIsMine'
  BY DEF LockedFileIsMine, Foreign, Content

LEMMA WriteStep ==
  ASSUME FInv, NEW b \in Agents, WriteId(b) PROVE LockedFileIsMine'
<1>1. CASE b \in detached
  BY <1>1, QuietStep DEF FInv, WriteId, Unchanged
<1>2. CASE b \notin detached
  <2>1. Content' = IdOf[b] /\ UNCHANGED <<_is_locked, holder>> /\ at[b] = "writing"
    BY <1>2, IdOfAssumption, IdsAssumption DEF WriteId, Changed, Content, Move
  <2>2. HasMutex(b) /\ ~_is_locked[b]
    BY <2>1 DEF FInv, IInv, MutexFollowsPosition, Locking
  <2>3. ASSUME NEW a \in Agents, _is_locked[a] PROVE MachineOf[b] # MachineOf[a]
    <3>1. HasMutex(a)
      BY <2>3 DEF FInv, IInv, TypeOK, Position, MutexFollowsPosition, Locking, Unlocking
    <3> QED BY <2>2, <2>3, <3>1 DEF HasMutex, Mutex
  <2> QED BY <2>1, <2>3 DEF LockedFileIsMine, Foreign
<1> QED BY <1>1, <1>2

LEMMA StepForeign == FInv /\ [Next]_vars => LockedFileIsMine'
<1> SUFFICES ASSUME FInv, [Next]_vars PROVE LockedFileIsMine'
  OBVIOUS
<1>0. LockedFileIsMine /\ TypeOK
  BY DEF FInv, IInv
<1>1. CASE UNCHANGED vars
  BY <1>0, <1>1, QuietStep DEF vars
<1>2. SUFFICES ASSUME NEW a \in Agents,
                      \/ Construct(a) \/ SetFilePath(a) \/ Lock(a) \/ Unlock(a)
                      \/ Destroy(a) \/ Crash(a) \/ Step(a) \/ Background(a)
               PROVE LockedFileIsMine'
  BY <1>1 DEF Next
<1>3. CASE Construct(a) \/ SetFilePath(a) \/ Lock(a) \/ Unlock(a) \/ Destroy(a) \/ Crash(a)
  BY <1>0, <1>3, QuietStep DEF Construct, SetFilePath, Lock, Unlock, Destroy, Crash, Leave, TypeOK
<1>4. CASE Background(a)
  BY <1>0, <1>4, QuietStep DEF Background, LockFileUpdated, CheckFile, GiveUp, EndThread, TypeOK
<1>5. CASE Step(a)
  <2>1. CASE CreateFile(a) \/ ReadFile(a) \/ Truncate(a) \/ ClearFile(a) \/ RemoveFile(a)
    BY <1>0, <2>1, EmptyStep, QuietStep
    DEF CreateFile, ReadFile, Truncate, ClearFile, RemoveFile, Unchanged
  <2>2. CASE AddPath(a) \/ OpenFails(a) \/ Unrecognized(a) \/ ReleaseMutex(a)
    BY <1>0, <2>2, QuietStep DEF AddPath, OpenFails, Unrecognized, ReleaseMutex, TypeOK
  <2>3. CASE WriteId(a)
    BY <2>3, WriteStep
  <2>4. ASSUME NEW seen \in Sees, Verify(a, seen) PROVE LockedFileIsMine'
    BY <1>0, <2>4 DEF Verify, Sees, LockedFileIsMine, Foreign, Content, TypeOK
  <2> QED BY <1>5, <2>1, <2>2, <2>3, <2>4 DEF Step
<1> QED BY <1>2, <1>3, <1>4, <1>5

\* The file of an owner never names somebody else of the same machine.
THEOREM Intruders == Spec => []IntrudersAreForeign
<1>1. Init => FInv
  BY InitIInv DEF Init, FInv, LockedFileIsMine
<1>2. FInv /\ [Next]_vars => FInv'
  BY StepIInv, StepForeign DEF FInv
<1>3. FInv => IntrudersAreForeign
  BY DEF FInv, LockedFileIsMine, IntrudersAreForeign, Foreign, Owns
<1> QED BY <1>1, <1>2, <1>3, PTL DEF Spec
=============================================================================
