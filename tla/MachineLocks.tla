---------------------------- MODULE MachineLocks ----------------------------
(***************************************************************************)
(* MachineLockBase (src/qt/utils/usermachinelocks.cpp), the base of        *)
(* UserMachineMutex and UserMachineReadWriteLock: objects in several       *)
(* processes lock a file name.  A lock has two levels.  Within a process   *)
(* the objects share the static map process_locks from file names to       *)
(* read-write locks, guarded by process_locks_lock; between processes      *)
(* there is a QLockFile on disk.  lock() takes the process's lock first,   *)
(* UnlockForMachine() gives the file back first.                           *)
(*                                                                         *)
(* Every object is used by one thread.  Where it stands:                   *)
(*   "gone"       not constructed                                          *)
(*   "idle"       outside a call                                           *)
(*   "finding"    in _get_lock_reference, on the way to lock               *)
(*   "grabbing"   about to take the process's lock, or blocked in it       *)
(*   "filing"     about to take the file lock, or blocked in it            *)
(*   "releasing"  the file is given back, _release_lock comes next         *)
(*   "refinding"  in _get_lock_reference, on the way to unlock             *)
(*   "dying"      in the destructor, after UnlockForMachine                *)
(***************************************************************************)
CONSTANTS Objects,      \* the instances of MachineLockBase
          Mutexes,      \* those of class UserMachineMutex, which never lock for read
          Processes,    \* the processes of the machine
          ProcessOf,    \* the process that each object lives in
          Files,        \* the file names they lock
          NamesOf,      \* the file names that each object is given
          Nobody,       \* the owner of a file lock that is free
          NoName        \* m_filename of an object that does not exist

ASSUME ProcessOfAssumption == ProcessOf \in [Objects -> Processes]
ASSUME NamesOfAssumption   == NamesOf \in [Objects -> SUBSET Files]
ASSUME MutexesAssumption   == Mutexes \subseteq Objects
ASSUME NobodyAssumption    == Nobody \notin Objects /\ NoName \notin Files

VARIABLES
  at,              \* where each object stands
  task,            \* the call that the object is in
  file,            \* m_filename
  LockOwner,       \* LockOwner
  ReadLockOwner,   \* ReadLockOwner
  process_locks,   \* what each process's map holds for each file name
  inserting,       \* the objects that are inserting into their map
  heldBy,          \* who holds the QLockFile of each name
  status           \* "undefined" after a data race or the use of freed memory

vars == <<at, task, file, LockOwner, ReadLockOwner, process_locks, inserting, heldBy, status>>

Position == {"gone", "idle", "finding", "grabbing", "filing", "releasing", "refinding", "dying"}
NoTask   == [op |-> "none"]
Task     == [op : {"none", "unlock", "destroy"}] \union
            [op : {"lock"}, read : BOOLEAN, block : BOOLEAN] \union
            [op : {"rename"}, to : Files]

Fellows(o) == {q \in Objects \ {o} : ProcessOf[q] = ProcessOf[o]}

Init ==
  /\ at = [o \in Objects |-> "gone"]
  /\ task = [o \in Objects |-> NoTask]
  /\ file = [o \in Objects |-> NoName]
  /\ LockOwner = [o \in Objects |-> FALSE]
  /\ ReadLockOwner = [o \in Objects |-> FALSE]
  /\ process_locks = [p \in Processes |-> [f \in Files |-> "none"]]
  /\ inserting = {}
  /\ heldBy = [f \in Files |-> Nobody]
  /\ status = "ok"

Going == status = "ok"
Move(o, from, to) == at[o] = from /\ at' = [at EXCEPT ![o] = to]

---------------------------------------------------------------------------
(* The map of the process's locks *)

InMap(o) == at[o] \in {"finding", "refinding"}

\* process_locks_lock is held for reading in _get_lock_reference, also by those
\* who insert, and for writing in the constructor and the destructor.
MapUnused(p) == \A o \in Objects : ProcessOf[o] = p => ~InMap(o)

\* Look the lock of o's file up and insert it if there is none.  QMap is not
\* thread-safe: an insertion that overlaps another use is a data race.
EnterMap(o) ==
  LET inserts == process_locks[ProcessOf[o]][file[o]] = "none"
      races   == \E q \in Fellows(o) : InMap(q) /\ (inserts \/ q \in inserting)
  IN /\ inserting' = IF inserts THEN inserting \union {o} ELSE inserting
     /\ status' = IF races THEN "undefined" ELSE status

LeaveMap(o) ==
  /\ inserting' = inserting \ {o}
  /\ process_locks' = IF o \in inserting
                      THEN [process_locks EXCEPT ![ProcessOf[o]][file[o]] = "live"]
                      ELSE process_locks

\* The lock that the map leads to was deleted.
Dangling(o) == process_locks[ProcessOf[o]][file[o]] = "deleted"

---------------------------------------------------------------------------
(* Locking *)

\* lock(for_read, block); an object that owns the lock gets an exception.
Lock(o, read, block) ==
  /\ Going /\ ~LockOwner[o]
  /\ o \in Mutexes => ~read
  /\ Move(o, "idle", "finding")
  /\ EnterMap(o)
  /\ task' = [task EXCEPT ![o] = [op |-> "lock", read |-> read, block |-> block]]
  /\ UNCHANGED <<file, LockOwner, ReadLockOwner, process_locks, heldBy>>

Found(o) ==
  /\ Going
  /\ Move(o, "finding", "grabbing")
  /\ LeaveMap(o)
  /\ UNCHANGED <<task, file, LockOwner, ReadLockOwner, heldBy, status>>

\* Whom the read-write lock of the process lets in: LockOwner is set by the
\* thread that has locked it and cleared by the thread that unlocks it.
LetsIn(o, read) ==
  \A q \in Fellows(o) :
    LockOwner[q] /\ file[q] = file[o] => read /\ ReadLockOwner[q]

\* A bug to detect: a writer locks the process's lock like a reader.
GrabForRead(o) ==
  /\ Going
  /\ Move(o, "grabbing", "filing")
  /\ ~Dangling(o) /\ LetsIn(o, TRUE)
  /\ LockOwner' = [LockOwner EXCEPT ![o] = TRUE]
  /\ ReadLockOwner' = [ReadLockOwner EXCEPT ![o] = task[o].read]
  /\ UNCHANGED <<task, file, process_locks, inserting, heldBy, status>>

Grab(o) ==
  /\ Going
  /\ Move(o, "grabbing", "filing")
  /\ ~Dangling(o) /\ LetsIn(o, task[o].read)
  /\ LockOwner' = [LockOwner EXCEPT ![o] = TRUE]
  /\ ReadLockOwner' = [ReadLockOwner EXCEPT ![o] = task[o].read]
  /\ UNCHANGED <<task, file, process_locks, inserting, heldBy, status>>

Return(o) == task' = [task EXCEPT ![o] = NoTask]

\* tryLockForRead or tryLockForWrite fails: an exception.
GrabFails(o) ==
  /\ Going
  /\ Move(o, "grabbing", "idle")
  /\ ~Dangling(o) /\ ~task[o].block /\ ~LetsIn(o, task[o].read)
  /\ Return(o)
  /\ UNCHANGED <<file, LockOwner, ReadLockOwner, process_locks, inserting, heldBy, status>>

GrabDangling(o) ==
  /\ Going
  /\ at[o] = "grabbing" /\ Dangling(o)
  /\ status' = "undefined"
  /\ UNCHANGED <<at, task, file, LockOwner, ReadLockOwner, process_locks, inserting, heldBy>>

\* A QLockFile is exclusive, for readers as well.
TakeFile(o) ==
  /\ Going
  /\ Move(o, "filing", "idle")
  /\ heldBy[file[o]] = Nobody
  /\ heldBy' = [heldBy EXCEPT ![file[o]] = o]
  /\ Return(o)
  /\ UNCHANGED <<file, LockOwner, ReadLockOwner, process_locks, inserting, status>>

\* A bug to detect: lock() throws without giving the process's lock back.
FileRefusedKeeping(o) ==
  /\ Going
  /\ Move(o, "filing", "idle")
  /\ ~task[o].block /\ heldBy[file[o]] # Nobody
  /\ Return(o)
  /\ UNCHANGED <<file, LockOwner, ReadLockOwner, process_locks, inserting, heldBy, status>>

\* tryLock fails: release the process's lock before the exception.
FileRefused(o) ==
  /\ Going
  /\ Move(o, "filing", "releasing")
  /\ ~task[o].block /\ heldBy[file[o]] # Nobody
  /\ UNCHANGED <<task, file, LockOwner, ReadLockOwner, process_locks, inserting, heldBy, status>>

\* The lock file cannot be written at all.
FileFails(o) ==
  /\ Going
  /\ Move(o, "filing", "releasing")
  /\ UNCHANGED <<task, file, LockOwner, ReadLockOwner, process_locks, inserting, heldBy, status>>

---------------------------------------------------------------------------
(* Unlocking *)

\* QLockFile::unlock does nothing if the object does not hold the file.
GiveFileBack(o) ==
  heldBy' = [heldBy EXCEPT ![file[o]] = IF @ = o THEN Nobody ELSE @]

\* UnlockForMachine, called for its own sake, by the destructor or by
\* SetUserMachineLockFileName.
Unlock(o, why) ==
  /\ Going /\ LockOwner[o]
  /\ Move(o, "idle", "releasing")
  /\ GiveFileBack(o)
  /\ task' = [task EXCEPT ![o] = why]
  /\ UNCHANGED <<file, LockOwner, ReadLockOwner, process_locks, inserting, status>>

UnlockForMachine(o) == Unlock(o, [op |-> "unlock"])

Refind(o) ==
  /\ Going
  /\ Move(o, "releasing", "refinding")
  /\ EnterMap(o)
  /\ UNCHANGED <<task, file, LockOwner, ReadLockOwner, process_locks, heldBy>>

\* A bug to detect: the process's lock stays locked.
ReleaseForgotten(o) ==
  /\ Going /\ at[o] = "refinding"
  /\ LeaveMap(o)
  /\ Move(o, "refinding", IF task[o].op = "destroy" THEN "dying" ELSE "idle")
  /\ file' = IF task[o].op = "rename" THEN [file EXCEPT ![o] = task[o].to] ELSE file
  /\ Return(o)
  /\ UNCHANGED <<LockOwner, ReadLockOwner, heldBy, status>>

\* Unlock the process's lock, and do what UnlockForMachine was called for.
Release(o) ==
  /\ Going /\ at[o] = "refinding"
  /\ LeaveMap(o)
  /\ LockOwner' = [LockOwner EXCEPT ![o] = FALSE]
  /\ Move(o, "refinding", IF task[o].op = "destroy" THEN "dying" ELSE "idle")
  /\ file' = IF task[o].op = "rename" THEN [file EXCEPT ![o] = task[o].to] ELSE file
  /\ Return(o)
  /\ UNCHANGED <<ReadLockOwner, heldBy, status>>

---------------------------------------------------------------------------
(* Objects and processes come and go *)

\* A bug to detect: the file name changes under a lock that is held.
RenameLocked(o, f) ==
  /\ Going /\ f # file[o]
  /\ at[o] = "idle"
  /\ file' = [file EXCEPT ![o] = f]
  /\ UNCHANGED <<at, task, LockOwner, ReadLockOwner, process_locks, inserting, heldBy, status>>

\* SetUserMachineLockFileName.
Rename(o, f) ==
  /\ f # file[o]
  /\ \/ Unlock(o, [op |-> "rename", to |-> f])
     \/ /\ Going /\ ~LockOwner[o] /\ at[o] = "idle"
        /\ file' = [file EXCEPT ![o] = f]
        /\ UNCHANGED <<at, task, LockOwner, ReadLockOwner, process_locks, inserting, heldBy, status>>

\* What an object holds once its memory is gone: the values of a new one.
Forget(S) ==
  /\ file' = [o \in Objects |-> IF o \in S THEN NoName ELSE file[o]]
  /\ ReadLockOwner' = [o \in Objects |-> ReadLockOwner[o] /\ o \notin S]

\* A bug to detect: the file name is not set.
ConstructNameless(o, f) ==
  /\ Going /\ MapUnused(ProcessOf[o])
  /\ Move(o, "gone", "idle")
  /\ UNCHANGED <<task, file, LockOwner, ReadLockOwner, process_locks, inserting, heldBy, status>>

\* The constructors: the semaphore counts the objects of the process.
Construct(o, f) ==
  /\ Going /\ MapUnused(ProcessOf[o])
  /\ Move(o, "gone", "idle")
  /\ file' = [file EXCEPT ![o] = f]
  /\ UNCHANGED <<task, LockOwner, ReadLockOwner, process_locks, inserting, heldBy, status>>

Destroy(o) ==
  \/ Unlock(o, [op |-> "destroy"])
  \/ /\ Going /\ ~LockOwner[o]
     /\ Move(o, "idle", "dying")
     /\ UNCHANGED <<task, file, LockOwner, ReadLockOwner, process_locks, inserting, heldBy, status>>

\* The rest of the destructor.  The last object of the process deletes the
\* locks, and leaves the pointers to them in the map.
Die(o) ==
  /\ Going /\ MapUnused(ProcessOf[o])
  /\ Move(o, "dying", "gone")
  /\ process_locks' =
       IF \A q \in Fellows(o) : at[q] = "gone"
       THEN [process_locks EXCEPT ![ProcessOf[o]] =
               [f \in Files |-> IF @[f] = "none" THEN "none" ELSE "deleted"]]
       ELSE process_locks
  /\ Forget({o})
  /\ UNCHANGED <<task, LockOwner, inserting, heldBy, status>>

\* The process dies.  A QLockFile whose process is gone counts as free.
Crash(p) ==
  /\ Going
  /\ at' = [o \in Objects |-> IF ProcessOf[o] = p THEN "gone" ELSE at[o]]
  /\ task' = [o \in Objects |-> IF ProcessOf[o] = p THEN NoTask ELSE task[o]]
  /\ LockOwner' = [o \in Objects |-> LockOwner[o] /\ ProcessOf[o] # p]
  /\ inserting' = {o \in inserting : ProcessOf[o] # p}
  /\ process_locks' = [process_locks EXCEPT ![p] = [f \in Files |-> "none"]]
  /\ heldBy' = [f \in Files |-> IF heldBy[f] # Nobody /\ ProcessOf[heldBy[f]] = p
                                THEN Nobody ELSE heldBy[f]]
  /\ Forget({o \in Objects : ProcessOf[o] = p})
  /\ UNCHANGED status

Stopped == ~Going /\ UNCHANGED vars

---------------------------------------------------------------------------

\* What a thread inside a call does next, if nothing blocks it.
Step(o) ==
  \/ Found(o) \/ Grab(o) \/ GrabFails(o) \/ GrabDangling(o)
  \/ TakeFile(o) \/ FileRefused(o)
  \/ Refind(o) \/ Release(o) \/ Die(o)

Next ==
  \/ \E o \in Objects : Step(o) \/ FileFails(o) \/ UnlockForMachine(o) \/ Destroy(o)
  \/ \E o \in Objects, read \in BOOLEAN, block \in BOOLEAN : Lock(o, read, block)
  \/ \E o \in Objects : \E f \in NamesOf[o] : Construct(o, f) \/ Rename(o, f)
  \/ \E p \in Processes : Crash(p)
  \/ Stopped

\* Threads inside a call run, and whoever has a lock unlocks it some day.
Fairness == \A o \in Objects : WF_vars(Step(o)) /\ WF_vars(UnlockForMachine(o))

Spec == Init /\ [][Next]_vars /\ Fairness

---------------------------------------------------------------------------
(* Correctness *)

TypeOK ==
  /\ at \in [Objects -> Position] /\ task \in [Objects -> Task]
  /\ file \in [Objects -> Files \union {NoName}]
  /\ \A o \in Objects : file[o] = NoName <=> at[o] = "gone"
  /\ LockOwner \in [Objects -> BOOLEAN] /\ ReadLockOwner \in [Objects -> BOOLEAN]
  /\ process_locks \in [Processes -> [Files -> {"none", "live", "deleted"}]]
  /\ inserting \subseteq Objects
  /\ heldBy \in [Files -> Objects \union {Nobody}]
  /\ status \in {"ok", "undefined"}

\* What o's user may rely on: IsLockedOnMachine between two calls.
Has(o, f) == at[o] = "idle" /\ LockOwner[o] /\ file[o] = f

\* At most one object on the machine has a file locked, whatever fails, crashes,
\* is renamed or destroyed in between.
MutualExclusion ==
  \A f \in Files, o, q \in Objects : Has(o, f) /\ Has(q, f) => o = q

\* The two levels and the flag agree: who believes to have the lock holds the
\* file, and a file is held only by one who knows and will give it back.
LevelsAgree ==
  /\ \A o \in Objects : at[o] = "idle" /\ LockOwner[o] => heldBy[file[o]] = o
  /\ \A f \in Files : heldBy[f] # Nobody => Has(heldBy[f], f)

\* Within a process, one who writes has the process's lock alone.
WriterIsAlone ==
  \A o \in Objects, q \in Objects :
    /\ o # q /\ ProcessOf[o] = ProcessOf[q] /\ file[o] = file[q]
    /\ LockOwner[o] /\ LockOwner[q]
    => ReadLockOwner[o] /\ ReadLockOwner[q]

\* Nobody waits for a lock that nobody has: a file name that somebody wants to
\* lock is locked again and again, or no longer wanted, unless processes go on
\* crashing or the lock file cannot be written.
Wants(o, f) == at[o] \in {"finding", "grabbing", "filing"} /\ file[o] = f

Disturbance == (\E p \in Processes : Crash(p)) \/ (\E o \in Objects : FileFails(o))

NobodyWaitsForNobody ==
  \/ []<><<Disturbance>>_vars
  \/ \A f \in Files :
       []<>(heldBy[f] # Nobody \/ ~Going \/ \A o \in Objects : ~Wants(o, f))

\* "Clean up the locks if i'm the last one dying" (~MachineLockBase): once they
\* are cleaned up no object takes one of them.
LocksAreLive == \A o \in Objects : at[o] = "grabbing" => ~Dangling(o)
============================================================================
