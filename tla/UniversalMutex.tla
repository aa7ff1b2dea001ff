--------------------------- MODULE UniversalMutex ---------------------------
(***************************************************************************)
(* UniversalMutex (src/qt/utils/universalmutex.cpp): a mutex for everyone  *)
(* who can write a certain file, on whatever machine.  An agent takes the  *)
(* mutex of its machine (see MachineLocks), looks whether the lock file    *)
(* holds the id of somebody else, writes its own id and reads it back.     *)
(* While it has the lock a file watcher and a background thread look out   *)
(* for others who overwrite the file.  Calls of an agent exclude one       *)
(* another by _lockfile_lock; calls of different agents interleave at      *)
(* every access to the file.                                               *)
(*                                                                         *)
(* Where an agent stands: "gone", "idle" (outside a call), in SetFilePath  *)
(* "creating" or "watching", in Lock "reading", "truncating", "writing" or *)
(* "verifying", in Unlock "clearing", "removing" or "releasing".           *)
(***************************************************************************)
CONSTANTS Agents,     \* the UniversalMutex objects that use one file path
          Machines,   \* the machines
          MachineOf,  \* where each agent runs
          Ids,        \* the identifiers
          NoId,       \* the null identifier, which an empty file reads as
          Absent,     \* the lock file does not exist
          IdOf,       \* m_id
          Accepted,   \* m_Ids
          Listening,  \* the agents whose thread has an event loop, without which
                      \* the signals of a file watcher reach nobody
          Nobody      \* the owner of a machine mutex that is free

ASSUME MachineOfAssumption == MachineOf \in [Agents -> Machines]
ASSUME IdsAssumption       == NoId \notin Ids /\ Absent \notin Ids /\ Absent # NoId
ASSUME IdOfAssumption      == IdOf \in [Agents -> Ids \union {NoId}]
ASSUME AcceptedAssumption  == /\ Accepted \in [Agents -> SUBSET Ids]
                              /\ \A a \in Agents : IdOf[a] # NoId => IdOf[a] \in Accepted[a]
ASSUME ListeningAssumption == Listening \subseteq Agents
ASSUME NobodyAssumption    == Nobody \notin Agents

VARIABLES
  at,          \* where each agent stands
  _is_locked,  \* _is_locked
  holder,      \* who has the mutex of each machine
  file,        \* the lock file: Absent, or the id it reads as
  detached,    \* the agents whose write goes nowhere: the file they opened was
               \* removed, or they could not open it
  watched,     \* the listening agents whose _fsw watches the file
  pending,     \* the agents with a fileChanged signal on its way
  thread,      \* the background thread of each agent
  unverified   \* history: Lock returned normally without having the lock

vars == <<at, _is_locked, holder, file, detached, watched, pending, thread, unverified>>

Position == {"gone", "idle", "creating", "watching", "reading", "truncating", "writing",
             "verifying", "clearing", "removing", "releasing"}

Init ==
  /\ at = [a \in Agents |-> "gone"]
  /\ _is_locked = [a \in Agents |-> FALSE]
  /\ holder = [m \in Machines |-> Nobody]
  /\ file = Absent
  /\ detached = {} /\ watched = {} /\ pending = {} /\ unverified = {}
  /\ thread = [a \in Agents |-> "stopped"]

Move(a, from, to) == at[a] = from /\ at' = [at EXCEPT ![a] = to]

\* The id that the file reads as.
Content == IF file = Absent THEN NoId ELSE file

\* A change of the file, which every watcher reports.  Watching ends when the
\* file is removed.
Changed(new) ==
  /\ file' = new
  /\ pending' = pending \union watched
  /\ watched' = IF new = Absent THEN {} ELSE watched

Unchanged == UNCHANGED <<file, pending, watched>>

\* Nobody is inside a call of a, nor is its thread, so that _lockfile_lock is free.
LockFree(a) == at[a] = "idle" /\ thread[a] # "losing"

Mutex(a)    == holder[MachineOf[a]]
HasMutex(a) == Mutex(a) = a
FreeMutex(a) ==
  holder' = IF HasMutex(a) THEN [holder EXCEPT ![MachineOf[a]] = Nobody] ELSE holder

---------------------------------------------------------------------------
(* Constructor and SetFilePath *)

\* QFile::exists(fp): the path is that of the file by which the machine mutex is
\* locked, so it exists while the mutex of this machine is held; otherwise it
\* depends on other machines and on what crashes have left behind.
LookAtPath(a, from) ==
  \/ Move(a, from, "watching")
  \/ Mutex(a) = Nobody /\ Move(a, from, "creating")

Construct(a) ==
  /\ LookAtPath(a, "gone")
  /\ UNCHANGED <<_is_locked, holder, file, detached, watched, pending, thread, unverified>>

\* SetFilePath with the same path.
SetFilePath(a) ==
  /\ LockFree(a) /\ ~_is_locked[a]
  /\ LookAtPath(a, "idle")
  /\ watched' = watched \ {a}
  /\ UNCHANGED <<_is_locked, holder, file, detached, pending, thread, unverified>>

\* Opening for WriteOnly truncates a lock file that exists.
CreateFile(a) ==
  /\ Move(a, "creating", "watching")
  /\ Changed(NoId)
  /\ UNCHANGED <<_is_locked, holder, detached, thread, unverified>>

AddPath(a) ==
  /\ Move(a, "watching", "idle")
  /\ watched' = IF file = Absent THEN watched ELSE watched \union ({a} \intersect Listening)
  /\ UNCHANGED <<_is_locked, holder, file, detached, pending, thread, unverified>>

---------------------------------------------------------------------------
(* Lock *)

\* A bug to detect: the machine mutex is not asked for.
LockAnyway(a) ==
  /\ LockFree(a) /\ ~_is_locked[a]
  /\ Move(a, "idle", "reading")
  /\ holder' = [holder EXCEPT ![MachineOf[a]] = a]
  /\ UNCHANGED <<_is_locked, file, detached, watched, pending, thread, unverified>>

\* If the agent is locked or the machine mutex is not free (a's own included)
\* there is an exception and nothing changes.
Lock(a) ==
  /\ LockFree(a) /\ ~_is_locked[a]
  /\ Move(a, "idle", "reading")
  /\ Mutex(a) = Nobody
  /\ holder' = [holder EXCEPT ![MachineOf[a]] = a]
  /\ UNCHANGED <<_is_locked, file, detached, watched, pending, thread, unverified>>

\* Open the file, which creates it, and read it.
ReadFile(a) ==
  /\ Move(a, "reading", "truncating")
  /\ Content \in Accepted[a] \union {NoId}
  /\ IF file = Absent THEN Changed(NoId) ELSE Unchanged
  /\ UNCHANGED <<_is_locked, holder, detached, thread, unverified>>

\* The result of open is ignored; what cannot be opened reads as empty.
OpenFails(a) ==
  /\ Move(a, "reading", "truncating")
  /\ detached' = detached \union {a}
  /\ UNCHANGED <<_is_locked, holder, file, watched, pending, thread, unverified>>

\* A bug to detect: the exception leaves the machine mutex locked.
UnrecognizedKeeping(a) ==
  /\ Move(a, "reading", "idle")
  /\ Content \notin Accepted[a] \union {NoId}
  /\ UNCHANGED <<_is_locked, holder, file, detached, watched, pending, thread, unverified>>

\* Somebody else has the lock: an exception.
Unrecognized(a) ==
  /\ Move(a, "reading", "idle")
  /\ Content \notin Accepted[a] \union {NoId}
  /\ FreeMutex(a)
  /\ UNCHANGED <<_is_locked, file, detached, watched, pending, thread, unverified>>

Truncate(a) ==
  /\ Move(a, "truncating", "writing")
  /\ IF a \in detached THEN Unchanged ELSE Changed(NoId)
  /\ UNCHANGED <<_is_locked, holder, detached, thread, unverified>>

\* A bug to detect: the file stays open.
WriteUnclosed(a) ==
  /\ Move(a, "writing", "verifying")
  /\ IF a \in detached THEN Unchanged ELSE Changed(IdOf[a])
  /\ UNCHANGED <<_is_locked, holder, detached, thread, unverified>>

\* The id gets into the file when it is closed.
WriteId(a) ==
  /\ Move(a, "writing", "verifying")
  /\ IF a \in detached THEN Unchanged ELSE Changed(IdOf[a])
  /\ detached' = detached \ {a}
  /\ UNCHANGED <<_is_locked, holder, thread, unverified>>

\* _has_lock(false): what a sees when it reads the file, or fails to open it.
Sees == {Content, NoId}

\* Lock returns normally whatever it has read.
Verify(a, seen) ==
  /\ Move(a, "verifying", "idle")
  /\ _is_locked' = [_is_locked EXCEPT ![a] = seen = IdOf[a]]
  /\ unverified' = IF seen = IdOf[a] THEN unverified ELSE unverified \union {a}
  /\ UNCHANGED <<holder, file, detached, watched, pending, thread>>

---------------------------------------------------------------------------
(* Unlock *)

Unlock(a) ==
  /\ LockFree(a) /\ _is_locked[a]
  /\ Move(a, "idle", "clearing")
  /\ UNCHANGED <<_is_locked, holder, file, detached, watched, pending, thread, unverified>>

\* The file is emptied whatever is in it, unless it cannot be opened.
ClearFile(a) ==
  /\ Move(a, "clearing", "removing")
  /\ Changed(NoId) \/ Unchanged
  /\ UNCHANGED <<_is_locked, holder, detached, thread, unverified>>

\* Whoever has opened the file writes to a file without a name; or the file
\* cannot be removed.
RemoveFile(a) ==
  /\ Move(a, "removing", "releasing")
  /\ \/ /\ Changed(Absent)
        /\ detached' = detached \union {b \in Agents : at[b] \in {"truncating", "writing"}}
     \/ Unchanged /\ UNCHANGED detached
  /\ UNCHANGED <<_is_locked, holder, thread, unverified>>

ReleaseMutex(a) ==
  /\ Move(a, "releasing", "idle")
  /\ FreeMutex(a)
  /\ _is_locked' = [_is_locked EXCEPT ![a] = FALSE]
  /\ UNCHANGED <<file, detached, watched, pending, thread, unverified>>

---------------------------------------------------------------------------
(* The watcher and the background thread *)

\* lock_file_updated.
LockFileUpdated(a) ==
  /\ LockFree(a) /\ a \in pending
  /\ pending' = pending \ {a}
  /\ thread' = IF _is_locked[a] /\ thread[a] = "stopped"
               THEN [thread EXCEPT ![a] = "started"] ELSE thread
  /\ UNCHANGED <<at, _is_locked, holder, file, detached, watched, unverified>>

\* A bug to detect: run() trusts the flag instead of the file.
CheckFlag(a, seen) ==
  /\ LockFree(a) /\ thread[a] = "started"
  /\ thread' = [thread EXCEPT ![a] = IF _is_locked[a] THEN "ending" ELSE "losing"]
  /\ UNCHANGED <<at, _is_locked, holder, file, detached, watched, pending, unverified>>

\* run(): _lockfile_lock is kept from here to GiveUp if the lock is lost.
CheckFile(a, seen) ==
  /\ LockFree(a) /\ thread[a] = "started"
  /\ thread' = [thread EXCEPT ![a] =
                  IF _is_locked[a] /\ seen # IdOf[a] THEN "losing" ELSE "ending"]
  /\ UNCHANGED <<at, _is_locked, holder, file, detached, watched, pending, unverified>>

\* A bug to detect: the machine mutex stays locked.
GiveUpKeeping(a) ==
  /\ thread[a] = "losing"
  /\ thread' = [thread EXCEPT ![a] = "ending"]
  /\ _is_locked' = [_is_locked EXCEPT ![a] = FALSE]
  /\ UNCHANGED <<at, holder, file, detached, watched, pending, unverified>>

\* NotifyLostLock is emitted.
GiveUp(a) ==
  /\ thread[a] = "losing"
  /\ thread' = [thread EXCEPT ![a] = "ending"]
  /\ _is_locked' = [_is_locked EXCEPT ![a] = FALSE]
  /\ FreeMutex(a)
  /\ UNCHANGED <<at, file, detached, watched, pending, unverified>>

EndThread(a) ==
  /\ thread[a] = "ending"
  /\ thread' = [thread EXCEPT ![a] = "stopped"]
  /\ UNCHANGED <<at, _is_locked, holder, file, detached, watched, pending, unverified>>

---------------------------------------------------------------------------
(* Agents go *)

\* What remains of an agent is what it has written.
Leave(a) ==
  /\ at' = [at EXCEPT ![a] = "gone"]
  /\ _is_locked' = [_is_locked EXCEPT ![a] = FALSE]
  /\ thread' = [thread EXCEPT ![a] = "stopped"]
  /\ FreeMutex(a)
  /\ detached' = detached \ {a} /\ watched' = watched \ {a}
  /\ pending' = pending \ {a} /\ unverified' = unverified \ {a}
  /\ UNCHANGED file

\* The destructor, after its call of Unlock; ~UserMachineMutex unlocks.
Destroy(a) == LockFree(a) /\ ~_is_locked[a] /\ Leave(a)

\* The process dies, and the next who tries removes its stale QLockFile.
Crash(a) == at[a] # "gone" /\ Leave(a)

---------------------------------------------------------------------------

\* The calls that an agent has begun go on.
Step(a) ==
  \/ CreateFile(a) \/ AddPath(a)
  \/ ReadFile(a) \/ OpenFails(a) \/ Unrecognized(a) \/ Truncate(a) \/ WriteId(a)
  \/ \E seen \in Sees : Verify(a, seen)
  \/ ClearFile(a) \/ RemoveFile(a) \/ ReleaseMutex(a)

\* The event loop and the thread scheduler.
Background(a) ==
  \/ LockFileUpdated(a) \/ GiveUp(a) \/ EndThread(a)
  \/ \E seen \in Sees : CheckFile(a, seen)

Next ==
  \E a \in Agents :
    \/ Construct(a) \/ SetFilePath(a) \/ Lock(a) \/ Unlock(a) \/ Destroy(a) \/ Crash(a)
    \/ Step(a) \/ Background(a)

\* _lockfile_lock is fair: the slot and the thread get their turn between calls.
Fairness ==
  /\ \A a \in Agents : WF_vars(Step(a))
  /\ \A a \in Listening :
       /\ SF_vars(LockFileUpdated(a)) /\ SF_vars(\E seen \in Sees : CheckFile(a, seen))
       /\ WF_vars(GiveUp(a)) /\ WF_vars(EndThread(a))

Spec == Init /\ [][Next]_vars /\ Fairness

---------------------------------------------------------------------------
(* Correctness *)

TypeOK ==
  /\ at \in [Agents -> Position]
  /\ _is_locked \in [Agents -> BOOLEAN]
  /\ holder \in [Machines -> Agents \union {Nobody}]
  /\ file \in Ids \union {NoId, Absent}
  /\ detached \subseteq {a \in Agents : at[a] \in {"truncating", "writing"}}
  /\ watched \subseteq Listening /\ pending \subseteq Listening /\ unverified \subseteq Agents
  /\ thread \in [Agents -> {"stopped", "started", "losing", "ending"}]

\* What HasLock() returns when it gets _lockfile_lock.
Owns(a) == LockFree(a) /\ _is_locked[a]

\* On one machine there is at most one owner.
OneOwnerPerMachine ==
  \A a, b \in Agents : Owns(a) /\ Owns(b) /\ MachineOf[a] = MachineOf[b] => a = b

\* Outside the calls the machine mutex is held by owners, and apart from them
\* only by those whose Lock has failed to verify: no exception and no lost lock
\* leaves it locked.
MutexFollowsFlag ==
  \A a \in Agents : LockFree(a) => (HasMutex(a) <=> _is_locked[a] \/ a \in unverified)

\* If the file of an owner names somebody else, then somebody of another machine.
IntrudersAreForeign ==
  \A a \in Agents :
    Owns(a) /\ IdOf[a] # NoId /\ Content \notin {IdOf[a], NoId}
    => \E b \in Agents : MachineOf[b] # MachineOf[a] /\ IdOf[b] = Content

\* An owner with an id, whose file has been overwritten and whose watcher has
\* noticed it while no earlier check was running, gives the lock up.
LossIsNoticed ==
  \A a \in Agents : IdOf[a] # NoId =>
    (Owns(a) /\ Content # IdOf[a] /\ a \in pending /\ thread[a] = "stopped")
      ~> (~Owns(a) \/ Content = IdOf[a])

\* "as long as everyone accessing it locks it with this Universal Mutex class
\* the access will be controlled" (universalmutex.h)
MutualExclusion == \A a, b \in Agents : Owns(a) /\ Owns(b) => a = b
=============================================================================
