----------------------------- MODULE Settings -----------------------------
(***************************************************************************)
(* Settings (src/core/data_access/settings.cpp): a map of settings cached  *)
(* in memory and kept in a file by one worker thread.  Callers and the     *)
(* worker share m_lock and a single condition variable; m_command is the   *)
(* one-place mailbox through which the callers and the destructor tell the *)
(* worker what to do, and which the worker sets back to cmd_sleep.         *)
(*                                                                         *)
(* A critical section of m_lock is one step.  The worker releases the lock *)
(* while it reads or writes the file, so the file steps are actions of     *)
(* their own, each of which may fail, and the process may crash between    *)
(* any two of them.                                                        *)
(***************************************************************************)
CONSTANTS Clients,    \* the threads that call the object
          Keys,       \* the setting names in use
          Values,     \* the values they are given
          Absent,     \* a key that is not in a map
          Garbled     \* what is left of a value when its line was cut short

ASSUME DistinctValues == Absent \notin Values /\ Garbled \notin Values /\ Absent # Garbled

\* The worker thread, and the thread that creates and destroys the object.
ASSUME OtherThreads == {"worker", "owner"} \intersect Clients = {}

VARIABLES
  file,       \* the settings file: its state and the key-value lines in it
  data,       \* m_data, the cache
  prevData,   \* m_prevData
  dirty,      \* m_dirty
  command,    \* m_command
  worker,     \* where the worker is between two critical sections
  copy,       \* the worker's private map: newdata or the data it is writing
  wasDirty,   \* was_dirty, local to _commit_changes
  asleep,     \* the threads in m_waitCondition.wait that were not notified
  call,       \* the call each client is blocked in, or "none"
  life        \* "gone", "open", or how far the destructor is: "closing" (until
              \* the worker is idle), "saving" (until it has written),
              \* "leaving" (cmd_exit is set), "joining"

cache == <<data, prevData, dirty>>
job   == <<copy, wasDirty>>
vars  == <<file, cache, command, worker, job, asleep, call, life>>

Map   == [Keys -> Values \union {Absent, Garbled}]
Empty == [k \in Keys |-> Absent]

\* "sealed": header, lines and matching checksum.  "damaged": truncated by a
\* write that has not (yet) put its checksum in place.
FileState == {"absent", "damaged", "sealed"}

WorkerState ==
  {"ready",                             \* about to test m_command
   "reading", "loaded", "loadFailed",   \* in _reload
   "opening", "writing", "sealing",     \* in _commit_changes
   "written", "writeFailed", "exited"}

Command  == {"sleep", "reload", "write", "exit"}
Blocking == {"reload", "commit", "remove", "read"}

\* Some of the lines of a map, and the same with one line cut short: what a read
\* that stops half-way has seen, and what a write that stops half-way has left.
Some(m)  == {[k \in Keys |-> IF k \in K THEN m[k] ELSE Absent] : K \in SUBSET Keys}
Parts(m) == Some(m) \union
            {[p EXCEPT ![k] = Garbled] : p \in Some(m), k \in {k \in Keys : m[k] # Absent}}

---------------------------------------------------------------------------
(* The condition variable *)

\* notify_one wakes any one sleeper, if there is one.
NotifyOne == IF asleep = {} THEN asleep' = {}
             ELSE \E p \in asleep : asleep' = asleep \ {p}

\* The predicates that threads wait for.
MayProceed(op) == IF op \in {"reload", "commit"} THEN command = "sleep"
                  ELSE command # "reload"

Awaited(p) == IF p = "worker" THEN command # "sleep"
              ELSE IF p = "owner" THEN command = "sleep"
              ELSE MayProceed(call[p])

\* The condition variable may wake a thread that nobody notified.
SpuriousWakeup ==
  /\ life # "gone"
  /\ \E p \in asleep : asleep' = asleep \ {p}
  /\ UNCHANGED <<file, cache, command, worker, job, call, life>>

---------------------------------------------------------------------------
(* The callers *)

\* c enters op, or resumes it after a wakeup.
At(c, op) == life = "open" /\ c \notin asleep /\ call[c] \in {"none", op}

Return(c) == call' = [call EXCEPT ![c] = "none"]

\* op's predicate does not hold: wait.
Block(c) ==
  /\ \E op \in Blocking :
       /\ At(c, op) /\ ~MayProceed(op)
       /\ call' = [call EXCEPT ![c] = op]
  /\ asleep' = asleep \union {c}
  /\ UNCHANGED <<file, cache, command, worker, job, life>>

\* A bug to detect: Reload() does not wait for the worker to be idle.
ReloadAtOnce(c) ==
  /\ At(c, "reload")
  /\ command' = "reload"
  /\ NotifyOne
  /\ Return(c)
  /\ UNCHANGED <<file, cache, worker, job, life>>

Reload(c) ==
  /\ At(c, "reload") /\ MayProceed("reload")
  /\ command' = "reload"
  /\ NotifyOne
  /\ Return(c)
  /\ UNCHANGED <<file, cache, worker, job, life>>

CommitChanges(c) ==
  /\ At(c, "commit") /\ MayProceed("commit")
  /\ command' = "write"
  /\ prevData' = data
  /\ NotifyOne
  /\ Return(c)
  /\ UNCHANGED <<file, data, dirty, worker, job, life>>

\* A bug to detect: Remove() forgets to mark the cache dirty.
RemoveUnmarked(c, k) ==
  /\ At(c, "remove") /\ MayProceed("remove")
  /\ data' = [data EXCEPT ![k] = Absent]
  /\ Return(c)
  /\ UNCHANGED <<file, prevData, dirty, command, worker, job, asleep, life>>

\* A bug to detect: the key stays, with an empty value.
RemoveBlanking(c, k) ==
  /\ At(c, "remove") /\ MayProceed("remove")
  /\ data' = [data EXCEPT ![k] = ""]
  /\ dirty' = (dirty \/ data[k] # Absent)
  /\ Return(c)
  /\ UNCHANGED <<file, prevData, command, worker, job, asleep, life>>

Remove(c, k) ==
  /\ At(c, "remove") /\ MayProceed("remove")
  /\ data' = [data EXCEPT ![k] = Absent]
  /\ dirty' = (dirty \/ data[k] # Absent)
  /\ Return(c)
  /\ UNCHANGED <<file, prevData, command, worker, job, asleep, life>>

\* Contains, GetValue, GetValues, AllData and Keys only look.
Read(c) ==
  /\ At(c, "read") /\ MayProceed("read")
  /\ Return(c)
  /\ UNCHANGED <<file, cache, command, worker, job, asleep, life>>

\* These three take the lock but wait for nothing, not even for a reload.
Unblocked(c) ==
  /\ life = "open" /\ call[c] = "none"
  /\ UNCHANGED <<file, command, worker, job, asleep, call, life>>

SetValue(c, k, v) ==
  /\ Unblocked(c)
  /\ data' = [data EXCEPT ![k] = v]
  /\ dirty' = TRUE
  /\ UNCHANGED prevData

\* unordered_map::insert keeps the value of a key that is already there.
SetValues(c, m) ==
  /\ Unblocked(c)
  /\ data' = [k \in Keys |-> IF data[k] = Absent THEN m[k] ELSE data[k]]
  /\ dirty' = TRUE
  /\ UNCHANGED prevData

RejectChanges(c) ==
  /\ Unblocked(c)
  /\ data' = prevData
  /\ dirty' = FALSE
  /\ UNCHANGED prevData

IsDirty == dirty /\ command = "sleep"

---------------------------------------------------------------------------
(* The worker thread *)

WorkerAt(positions) == life # "gone" /\ worker \in positions /\ "worker" \notin asleep

WorkerSleeps ==
  /\ WorkerAt({"ready"}) /\ command = "sleep"
  /\ asleep' = asleep \union {"worker"}
  /\ UNCHANGED <<file, cache, command, worker, job, call, life>>

WorkerExits ==
  /\ WorkerAt({"ready"}) /\ command = "exit"
  /\ worker' = "exited"
  /\ UNCHANGED <<file, cache, command, job, asleep, call, life>>

\* A bug to detect: the finally body notifies one waiter instead of all.
IdleNotifyOne ==
  /\ command' = "sleep" /\ worker' = "ready"
  /\ IF asleep = {} THEN asleep' = {"worker"}
     ELSE \E p \in asleep : asleep' = (asleep \ {p}) \union {"worker"}
  /\ copy' = Empty /\ wasDirty' = FALSE

\* The end of _reload and _commit_changes (their finally body), and the worker's
\* return to its wait: everyone else is notified before it sleeps itself.  The
\* locals go out of scope.
Idle ==
  /\ command' = "sleep" /\ worker' = "ready" /\ asleep' = {"worker"}
  /\ copy' = Empty /\ wasDirty' = FALSE

StartReload ==
  /\ WorkerAt({"ready"}) /\ command = "reload"
  /\ worker' = "reading"
  /\ UNCHANGED <<file, cache, command, job, asleep, call, life>>

\* Without a file there are no settings, and that is no error.
ReadFile ==
  /\ WorkerAt({"reading"}) /\ file.state # "damaged"
  /\ copy' = file.lines
  /\ worker' = "loaded"
  /\ UNCHANGED <<file, cache, command, wasDirty, asleep, call, life>>

\* A line or the checksum does not fit, or the device fails half-way: an
\* exception, with newdata holding the lines read so far.
ReadFails ==
  /\ WorkerAt({"reading"}) /\ file.state # "absent"
  /\ copy' \in Some(file.lines)
  /\ worker' = "loadFailed"
  /\ UNCHANGED <<file, cache, command, wasDirty, asleep, call, life>>

\* The cache is replaced in both cases; prevData only if nothing was thrown.
FinishReload ==
  /\ WorkerAt({"loaded", "loadFailed"})
  /\ data' = copy
  /\ dirty' = FALSE
  /\ prevData' = IF worker = "loaded" THEN copy ELSE prevData
  /\ Idle
  /\ UNCHANGED <<file, call, life>>

\* A bug to detect: the cache is marked clean when the write ends, not when
\* the copy is taken.
StartWriteStillDirty ==
  /\ WorkerAt({"ready"}) /\ command = "write"
  /\ copy' = data
  /\ wasDirty' = FALSE
  /\ worker' = "opening"
  /\ UNCHANGED <<file, cache, command, asleep, call, life>>

StartWrite ==
  /\ WorkerAt({"ready"}) /\ command = "write"
  /\ copy' = data
  /\ wasDirty' = dirty
  /\ dirty' = FALSE
  /\ worker' = "opening"
  /\ UNCHANGED <<file, data, prevData, command, asleep, call, life>>

\* OpenReadWriteTruncate empties the file; the header and the place-holder for
\* the checksum follow.
OpenFile ==
  /\ WorkerAt({"opening"})
  /\ file' = [state |-> "damaged", lines |-> Empty]
  /\ worker' = "writing"
  /\ UNCHANGED <<cache, command, job, asleep, call, life>>

WriteLines ==
  /\ WorkerAt({"writing"})
  /\ \E m \in Parts(copy) : file' = [state |-> "damaged", lines |-> m]
  /\ worker' = "sealing"
  /\ UNCHANGED <<cache, command, job, asleep, call, life>>

\* The checksum is written over its place-holder and the file is closed.
SealFile ==
  /\ WorkerAt({"sealing"})
  /\ file' = [state |-> "sealed", lines |-> copy]
  /\ worker' = "written"
  /\ UNCHANGED <<cache, command, job, asleep, call, life>>

\* Opening, writing or seeking throws.
WriteFails ==
  /\ WorkerAt({"opening", "writing", "sealing"})
  /\ worker' = "writeFailed"
  /\ UNCHANGED <<file, cache, command, job, asleep, call, life>>

\* The last bytes are flushed by fclose, whose failure File::Close ignores.
CloseFails ==
  /\ WorkerAt({"sealing"})
  /\ worker' = "written"
  /\ UNCHANGED <<file, cache, command, job, asleep, call, life>>

\* A bug to detect: the cleanup is skipped when something was thrown.
FinishWriteUnlessFailed ==
  /\ WorkerAt({"written"})
  /\ Idle
  /\ UNCHANGED <<file, cache, call, life>>

\* restore_dirty is still set only if something was thrown.
FinishWrite ==
  /\ WorkerAt({"written", "writeFailed"})
  /\ dirty' = IF worker = "writeFailed" THEN wasDirty \/ dirty ELSE dirty
  /\ Idle
  /\ UNCHANGED <<file, data, prevData, call, life>>

---------------------------------------------------------------------------
(* The object's life *)

\* The members as the constructor initializes them.
FreshMembers ==
  /\ data' = Empty /\ prevData' = Empty /\ dirty' = TRUE
  /\ command' = "reload"
  /\ worker' = "ready" /\ copy' = Empty /\ wasDirty' = FALSE
  /\ asleep' = {}
  /\ call' = [c \in Clients |-> "none"]

\* The constructor starts the worker, whose first command is to load the file.
Construct ==
  /\ life = "gone"
  /\ life' = "open"
  /\ FreshMembers
  /\ UNCHANGED file

\* The destructor; by then no client may be inside a call.
Destroy ==
  /\ life = "open" /\ \A c \in Clients : call[c] = "none"
  /\ life' = "closing"
  /\ UNCHANGED <<file, cache, command, worker, job, asleep, call>>

OwnerAt(stage) == life = stage /\ "owner" \notin asleep

OwnerSleeps ==
  /\ OwnerAt("closing") \/ OwnerAt("saving")
  /\ command # "sleep"
  /\ asleep' = asleep \union {"owner"}
  /\ UNCHANGED <<file, cache, command, worker, job, call, life>>

\* Still dirty: have it written, and go to sleep in the same critical section.
SaveOnExit ==
  /\ OwnerAt("closing") /\ command = "sleep" /\ dirty
  /\ command' = "write"
  /\ asleep' = (asleep \ {"worker"}) \union {"owner"}
  /\ life' = "saving"
  /\ UNCHANGED <<file, cache, worker, job, call>>

\* A bug to detect: cmd_exit is posted without waiting for the last write.
OrderExitEarly ==
  /\ \/ OwnerAt("closing") /\ command = "sleep" /\ ~dirty
     \/ life = "saving"
  /\ command' = "exit"
  /\ life' = "leaving"
  /\ UNCHANGED <<file, cache, worker, job, asleep, call>>

\* Set cmd_exit and release the lock.
OrderExit ==
  /\ \/ OwnerAt("closing") /\ ~dirty
     \/ OwnerAt("saving")
  /\ command = "sleep"
  /\ command' = "exit"
  /\ life' = "leaving"
  /\ UNCHANGED <<file, cache, worker, job, asleep, call>>

NotifyExit ==
  /\ life = "leaving"
  /\ NotifyOne
  /\ life' = "joining"
  /\ UNCHANGED <<file, cache, command, worker, job, call>>

Join ==
  /\ life = "joining" /\ worker = "exited"
  /\ life' = "gone"
  /\ FreshMembers
  /\ UNCHANGED file

\* The process dies; only the file survives.  (What the members hold while there
\* is no object is immaterial, here and after Join: the next constructor's values.)
Crash ==
  /\ life # "gone"
  /\ life' = "gone"
  /\ FreshMembers
  /\ UNCHANGED file

---------------------------------------------------------------------------

ClientStep(c) ==
  \/ Block(c) \/ Reload(c) \/ CommitChanges(c) \/ RejectChanges(c) \/ Read(c)
  \/ \E k \in Keys : Remove(c, k)
  \/ \E k \in Keys, v \in Values : SetValue(c, k, v)
  \/ \E m \in [Keys -> Values \union {Absent}] : SetValues(c, m)

WorkerStep ==
  \/ WorkerSleeps \/ WorkerExits
  \/ StartReload \/ ReadFile \/ ReadFails \/ FinishReload
  \/ StartWrite \/ OpenFile \/ WriteLines \/ SealFile \/ WriteFails \/ CloseFails
  \/ FinishWrite

OwnerStep == OwnerSleeps \/ SaveOnExit \/ OrderExit \/ NotifyExit \/ Join

Init ==
  /\ file = [state |-> "absent", lines |-> Empty]
  /\ data = Empty /\ prevData = Empty /\ dirty = TRUE
  /\ command = "reload"
  /\ worker = "ready" /\ copy = Empty /\ wasDirty = FALSE
  /\ asleep = {}
  /\ call = [c \in Clients |-> "none"]
  /\ life = "open"

Next ==
  \/ \E c \in Clients : ClientStep(c)
  \/ WorkerStep \/ OwnerStep
  \/ Construct \/ Destroy \/ Crash \/ SpuriousWakeup

\* The scheduler runs the worker and a destructor that has begun; file
\* operations return, with or without success.  Clients call when they like.
Fairness == WF_vars(WorkerStep) /\ WF_vars(OwnerStep)

Spec == Init /\ [][Next]_vars /\ Fairness

---------------------------------------------------------------------------
(* Correctness *)

TypeOK ==
  /\ file \in [state : FileState, lines : Map]
  /\ data \in Map /\ prevData \in Map /\ copy \in Map
  /\ dirty \in BOOLEAN /\ wasDirty \in BOOLEAN
  /\ command \in Command /\ worker \in WorkerState
  /\ asleep \subseteq Clients \union {"worker", "owner"}
  /\ call \in [Clients -> Blocking \union {"none"}]
  /\ life \in {"gone", "open", "closing", "saving", "leaving", "joining"}

\* No thread sleeps on a condition that holds.  One condition variable serves
\* three predicates and is mostly notified with notify_one, which wakes only one
\* thread, so this rests on who can be asleep when a command is posted.  Between
\* setting cmd_exit and notifying, the destructor still owes the worker a wakeup.
NoLostWakeup ==
  life # "gone" =>
    \A p \in asleep : Awaited(p) => p = "worker" /\ life = "leaving"

\* The mailbox holds one command at a time: a posted command is never replaced
\* before the worker has carried it out.
CommandsAreCarriedOut ==
  [][life # "gone" /\ life' # "gone" /\ command' # command =>
       command = "sleep" \/ command' = "sleep"]_vars

\* "Open the file and make sure it's valid" (_reload): a value that is not what
\* some client set never gets into the cache from a file that fails its checks.
OnlyValidDataIsCached == \A k \in Keys : data[k] # Garbled

\* The worker carries out every command it is given, and the destructor gets past both of
\* its waits and the join.
CommandsComplete ==
  /\ (life # "gone" /\ command \in {"reload", "write"}) ~> (command = "sleep" \/ life = "gone")
  /\ (life = "closing") ~> (life = "gone")
============================================================================
