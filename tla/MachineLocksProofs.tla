------------------------- MODULE MachineLocksProofs -------------------------
(***************************************************************************)
(* The machine locks, for any number of objects, processes and file names: *)
(* the two levels of a lock agree, and nobody shares a file.               *)
(***************************************************************************)
EXTENDS MachineLocks, TLAPS

USE DEF Going, Position, NoTask, Task

\* The flag LockOwner is set exactly from the moment that the process's lock is
\* taken until it is given back, and whoever is on the way to it is in lock().
FlagFollowsPosition ==
  \A o \in Objects :
    /\ at[o] \in {"filing", "releasing", "refinding"} => LockOwner[o]
    /\ at[o] \in {"gone", "finding", "grabbing", "dying"} => ~LockOwner[o]
    /\ at[o] \in {"finding", "grabbing", "filing"} => task[o].op = "lock"

IInv == TypeOK /\ FlagFollowsPosition /\ LevelsAgree

LEMMA InitIInv == Init => IInv
  BY NobodyAssumption DEF Init, IInv, TypeOK, FlagFollowsPosition, LevelsAgree, Has

LEMMA StepIInv == IInv /\ [Next]_vars => IInv'
<1> SUFFICES ASSUME IInv, [Next]_vars PROVE IInv'
  OBVIOUS
<1> USE NobodyAssumption, ProcessOfAssumption, NamesOfAssumption, MutexesAssumption
<1> USE DEF IInv
<1>1. CASE UNCHANGED vars
  BY <1>1 DEF vars, TypeOK, FlagFollowsPosition, LevelsAgree, Has
<1>2. ASSUME NEW o \in Objects, Step(o) PROVE IInv'
  <2>1. CASE Found(o)
    <3>1. process_locks' \in [Processes -> [Files -> {"none", "live", "deleted"}]]
      BY <2>1 DEF Found, LeaveMap, TypeOK
    <3>2. /\ at' = [at EXCEPT ![o] = "grabbing"] /\ at[o] = "finding" /\ inserting' \subseteq Objects
          /\ UNCHANGED <<task, file, LockOwner, ReadLockOwner, heldBy, status>>
      BY <2>1 DEF Found, Move, LeaveMap, TypeOK
    <3>3. TypeOK'
      BY <3>1, <3>2 DEF TypeOK
    <3>4. FlagFollowsPosition' /\ LevelsAgree'
      BY <3>2 DEF TypeOK, FlagFollowsPosition, LevelsAgree, Has
    <3> QED BY <3>3, <3>4
  <2>2. CASE Grab(o)
    <3>1. /\ at' = [at EXCEPT ![o] = "filing"] /\ at[o] = "grabbing"
          /\ LockOwner' = [LockOwner EXCEPT ![o] = TRUE]
          /\ ReadLockOwner' = [ReadLockOwner EXCEPT ![o] = task[o].read]
          /\ UNCHANGED <<task, file, process_locks, inserting, heldBy, status>>
      BY <2>2 DEF Grab, Move
    <3>2. task[o].read \in BOOLEAN
      <4>1. task[o] \in Task /\ task[o].op = "lock"
        BY <3>1 DEF TypeOK, FlagFollowsPosition
      <4> QED BY <4>1
    <3> QED BY <3>1, <3>2 DEF TypeOK, FlagFollowsPosition, LevelsAgree, Has
  <2>3. CASE GrabFails(o)
    BY <2>3 DEF GrabFails, Move, Return, TypeOK, FlagFollowsPosition, LevelsAgree, Has
  <2>4. CASE GrabDangling(o)
    BY <2>4 DEF GrabDangling, TypeOK, FlagFollowsPosition, LevelsAgree, Has
  <2>5. CASE TakeFile(o)
    BY <2>5 DEF TakeFile, Move, Return, TypeOK, FlagFollowsPosition, LevelsAgree, Has
  <2>6. CASE FileRefused(o)
    BY <2>6 DEF FileRefused, Move, TypeOK, FlagFollowsPosition, LevelsAgree, Has
  <2>7. CASE Refind(o)
    BY <2>7 DEF Refind, Move, EnterMap, TypeOK, FlagFollowsPosition, LevelsAgree, Has
  <2>8. CASE Release(o)
    BY <2>8 DEF Release, Move, LeaveMap, Return, TypeOK, FlagFollowsPosition, LevelsAgree, Has
  <2>9. CASE Die(o)
    BY <2>9 DEF Die, Move, Forget, TypeOK, FlagFollowsPosition, LevelsAgree, Has
  <2> QED
    BY <1>2, <2>1, <2>2, <2>3, <2>4, <2>5, <2>6, <2>7, <2>8, <2>9 DEF Step
<1>3. ASSUME NEW o \in Objects, FileFails(o) PROVE IInv'
  BY <1>3 DEF FileFails, Move, TypeOK, FlagFollowsPosition, LevelsAgree, Has
<1>4. ASSUME NEW o \in Objects, NEW why \in Task, Unlock(o, why) PROVE IInv'
  BY <1>4 DEF Unlock, Move, GiveFileBack, TypeOK, FlagFollowsPosition, LevelsAgree, Has
<1>5. ASSUME NEW o \in Objects, UnlockForMachine(o) PROVE IInv'
  BY <1>4, <1>5 DEF UnlockForMachine
<1>6. ASSUME NEW o \in Objects, Destroy(o) PROVE IInv'
  <2>1. CASE Unlock(o, [op |-> "destroy"])
    BY <1>4, <2>1
  <2>2. CASE ~Unlock(o, [op |-> "destroy"])
    <3>1. /\ ~LockOwner[o] /\ at[o] = "idle" /\ at' = [at EXCEPT ![o] = "dying"]
          /\ UNCHANGED <<task, file, LockOwner, ReadLockOwner, process_locks, inserting, heldBy, status>>
      BY <1>6, <2>2 DEF Destroy, Move
    <3> QED BY <3>1 DEF TypeOK, FlagFollowsPosition, LevelsAgree, Has
  <2> QED BY <2>1, <2>2
<1>7. ASSUME NEW o \in Objects, NEW read \in BOOLEAN, NEW block \in BOOLEAN,
             Lock(o, read, block)
      PROVE IInv'
  BY <1>7 DEF Lock, Move, EnterMap, TypeOK, FlagFollowsPosition, LevelsAgree, Has
<1>8. ASSUME NEW o \in Objects, NEW f \in Files, Construct(o, f) PROVE IInv'
  BY <1>8 DEF Construct, Move, TypeOK, FlagFollowsPosition, LevelsAgree, Has
<1>9. ASSUME NEW o \in Objects, NEW f \in Files, Rename(o, f) PROVE IInv'
  <2>1. CASE Unlock(o, [op |-> "rename", to |-> f])
    BY <1>4, <2>1
  <2>2. CASE ~Unlock(o, [op |-> "rename", to |-> f])
    <3>1. /\ ~LockOwner[o] /\ at[o] = "idle" /\ file' = [file EXCEPT ![o] = f]
          /\ UNCHANGED <<at, task, LockOwner, ReadLockOwner, process_locks, inserting, heldBy, status>>
      BY <1>9, <2>2 DEF Rename
    <3> QED BY <3>1 DEF TypeOK, FlagFollowsPosition, LevelsAgree, Has
  <2> QED BY <2>1, <2>2
<1>10. ASSUME NEW p \in Processes, Crash(p) PROVE IInv'
  <2>1. /\ at' \in [Objects -> Position] /\ task' \in [Objects -> Task]
        /\ file' \in [Objects -> Files \union {NoName}]
        /\ LockOwner' \in [Objects -> BOOLEAN] /\ ReadLockOwner' \in [Objects -> BOOLEAN]
        /\ inserting' \subseteq Objects /\ status' \in {"ok", "undefined"}
    BY <1>10 DEF Crash, Forget, TypeOK
  <2>2. process_locks' \in [Processes -> [Files -> {"none", "live", "deleted"}]]
    BY <1>10 DEF Crash, TypeOK
  <2>3. heldBy' \in [Files -> Objects \union {Nobody}]
    BY <1>10 DEF Crash, TypeOK
  <2>4. \A o \in Objects : file'[o] = NoName <=> at'[o] = "gone"
    BY <1>10 DEF Crash, Forget, TypeOK
  <2>5. FlagFollowsPosition'
    BY <1>10 DEF Crash, TypeOK, FlagFollowsPosition
  <2>6. LevelsAgree'
    BY <1>10 DEF Crash, Forget, TypeOK, LevelsAgree, Has
  <2> QED BY <2>1, <2>2, <2>3, <2>4, <2>5, <2>6 DEF TypeOK
<1>11. CASE Stopped
  BY <1>1, <1>11 DEF Stopped
<1> QED
  BY <1>1, <1>2, <1>3, <1>5, <1>6, <1>7, <1>8, <1>9, <1>10, <1>11 DEF Next

\* Every variable keeps its type, and an object has a file name while it exists.
THEOREM TypeCorrect == Spec => []TypeOK
<1>1. IInv => TypeOK BY DEF IInv
<1> QED BY <1>1, InitIInv, StepIInv, PTL DEF Spec

\* Whatever is refused, renamed, destroyed or crashes: an object that believes to
\* have the lock holds the file, and a held file will be given back.
THEOREM BothLevels == Spec => []LevelsAgree
<1>1. IInv => LevelsAgree BY DEF IInv
<1> QED BY <1>1, InitIInv, StepIInv, PTL DEF Spec

\* At most one object on the machine has a file locked.
THEOREM Exclusion == Spec => []MutualExclusion
<1>1. IInv => MutualExclusion
  BY DEF IInv, LevelsAgree, MutualExclusion, Has
<1> QED BY <1>1, InitIInv, StepIInv, PTL DEF Spec

---------------------------------------------------------------------------
(* Readers and writers of a process *)

WInv == IInv /\ WriterIsAlone

LEMMA StepWriter == WInv /\ [Next]_vars => WriterIsAlone'
<1> SUFFICES ASSUME WInv, [Next]_vars PROVE WriterIsAlone'
  OBVIOUS
<1> USE NobodyAssumption, ProcessOfAssumption
<1> USE DEF WInv, IInv, TypeOK, WriterIsAlone
<1>1. ASSUME NEW o \in Objects, Grab(o) PROVE WriterIsAlone'
  BY <1>1 DEF Grab, Move, LetsIn, Fellows
<1>2. ASSUME NEW o \in Objects, Release(o) PROVE WriterIsAlone'
  BY <1>2 DEF Release
<1>3. ASSUME NEW o \in Objects, Die(o) PROVE WriterIsAlone'
  BY <1>3 DEF Die, Forget, Move, FlagFollowsPosition
<1>4. ASSUME NEW o \in Objects, NEW f \in Files, Construct(o, f) PROVE WriterIsAlone'
  BY <1>4 DEF Construct, Move, FlagFollowsPosition
<1>5. ASSUME NEW o \in Objects, NEW f \in Files, Rename(o, f) PROVE WriterIsAlone'
  BY <1>5 DEF Rename, Unlock
<1>6. ASSUME NEW p \in Processes, Crash(p) PROVE WriterIsAlone'
  BY <1>6 DEF Crash, Forget
<1>7. ASSUME UNCHANGED <<file, LockOwner, ReadLockOwner>> PROVE WriterIsAlone'
  BY <1>7
<1> QED
  BY <1>1, <1>2, <1>3, <1>4, <1>5, <1>6, <1>7, NamesOfAssumption
  DEF Next, Step, Found, GrabFails, GrabDangling, TakeFile, FileRefused, Refind,
      FileFails, UnlockForMachine, Destroy, Unlock, Lock, Stopped, vars

\* Within a process, one who writes has the process's lock alone.
THEOREM WritersAreAlone == Spec => []WriterIsAlone
<1>1. Init => WInv
  BY InitIInv DEF Init, WInv, WriterIsAlone
<1>2. WInv /\ [Next]_vars => WInv'
  BY StepIInv, StepWriter DEF WInv
<1>3. WInv => WriterIsAlone BY DEF WInv
<1> QED BY <1>1, <1>2, <1>3, PTL DEF Spec

---------------------------------------------------------------------------
(* The locks as those see them who build on them *)

\* The two levels, the map and the calls are hidden; what is left is who holds each file.
Locks == INSTANCE ExclusiveLocks WITH
  Lockers <- Objects, LockFiles <- Files, NoOwner <- Nobody, owner <- heldBy

ImplementsExclusiveLocks == Locks!LocksSpec

\* Every step takes a free file, gives back one's own, drops those of a dead process, or
\* leaves them all alone.
LEMMA StepLocks == IInv /\ [Next]_vars => [Locks!LocksNext]_heldBy
<1> SUFFICES ASSUME IInv, [Next]_vars PROVE [Locks!LocksNext]_heldBy
  OBVIOUS
<1> USE DEF Locks!LocksNext
<1>0. TypeOK
  BY DEF IInv
<1>1. ASSUME NEW o \in Objects, TakeFile(o) PROVE [Locks!LocksNext]_heldBy
  <2>1. file[o] \in Files
    BY <1>0, <1>1 DEF TypeOK, TakeFile, Move
  <2>2. Locks!TakeLock(o, file[o])
    BY <1>1 DEF TakeFile, Locks!TakeLock
  <2> QED
    BY <2>1, <2>2
<1>2. ASSUME NEW o \in Objects, NEW why, Unlock(o, why) PROVE [Locks!LocksNext]_heldBy
  <2>1. file[o] \in Files
    BY <1>0, <1>2 DEF TypeOK, Unlock, Move
  <2>2. CASE heldBy[file[o]] = o
    <3>1. Locks!GiveLock(o, file[o])
      BY <1>2, <2>2 DEF Unlock, GiveFileBack, Locks!GiveLock
    <3> QED
      BY <2>1, <3>1
  <2>3. CASE heldBy[file[o]] # o
    BY <1>0, <1>2, <2>1, <2>3 DEF TypeOK, Unlock, GiveFileBack
  <2> QED
    BY <2>2, <2>3
<1>3. ASSUME NEW p \in Processes, Crash(p) PROVE [Locks!LocksNext]_heldBy
  <2> DEFINE Dead == {o \in Objects : ProcessOf[o] = p}
  <2>1. \A f \in Files :
          heldBy[f] # Nobody /\ ProcessOf[heldBy[f]] = p <=> heldBy[f] \in Dead
    BY <1>0, NobodyAssumption DEF TypeOK
  <2>2. Locks!DropLocks(Dead)
    BY <1>3, <2>1 DEF Crash, Locks!DropLocks
  <2> QED
    BY <2>2
<1>4. ASSUME NEW o \in Objects, Step(o) PROVE [Locks!LocksNext]_heldBy
  BY <1>1, <1>4 DEF Step, Found, Grab, GrabFails, GrabDangling, TakeFile, FileRefused, Refind,
     Release, Die
<1>5. ASSUME NEW o \in Objects, FileFails(o) \/ UnlockForMachine(o) \/ Destroy(o)
      PROVE  [Locks!LocksNext]_heldBy
  BY <1>2, <1>5 DEF FileFails, UnlockForMachine, Destroy
<1>6. ASSUME NEW o \in Objects, NEW f \in NamesOf[o], Construct(o, f) \/ Rename(o, f)
      PROVE  [Locks!LocksNext]_heldBy
  BY <1>2, <1>6 DEF Construct, Rename
<1>7. ASSUME NEW o \in Objects, NEW read \in BOOLEAN, NEW block \in BOOLEAN, Lock(o, read, block)
      PROVE  [Locks!LocksNext]_heldBy
  BY <1>7 DEF Lock
<1>8. CASE Stopped \/ UNCHANGED vars
  BY <1>8 DEF Stopped, vars
<1> QED
  BY <1>3, <1>4, <1>5, <1>6, <1>7, <1>8 DEF Next

\* A machine lock is what ExclusiveLocks says, and what the file device and the status
\* indicator are modelled on: one owner for each file name at a time, on the whole machine.
THEOREM LocksAreExclusive == Spec => ImplementsExclusiveLocks
<1>1. Init => Locks!LocksFree
  BY DEF Init, Locks!LocksFree
<1> QED
  BY <1>1, InitIInv, StepIInv, StepLocks, PTL DEF Spec, Locks!LocksSpec, ImplementsExclusiveLocks
=============================================================================
