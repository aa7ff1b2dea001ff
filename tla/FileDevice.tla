----------------------------- MODULE FileDevice -----------------------------
(***************************************************************************)
(* FileIODevice (src/qt/data_access/fileiodevice.cpp) on QT_IODevice and   *)
(* IODevice: threads send messages to files, read them, and truncate them, *)
(* through devices in several processes.  The mutex of a device orders its *)
(* threads, a machine lock (ExclusiveLocks) the devices.                   *)
(*                                                                         *)
(* Where a thread stands in a call:                                        *)
(*   "idle"      outside a call                                            *)
(*   "entering"  in TruncateFile, about to take the device's mutex         *)
(*   "locking"   about to take the machine lock                            *)
(*   "opening"   about to open the file                                    *)
(*   "working"   writing or reading                                        *)
(*   "closing"   about to close the file and to unlock it                  *)
(*   "stamping"  about to note when the file was modified                  *)
(*   "restoring" in TruncateFile, about to set the write mode back         *)
(* The mutex is held from "locking" to "stamping"; it is given back with   *)
(* the last thing that is done under it.                                   *)
(***************************************************************************)
EXTENDS ExclusiveLocks, Naturals, Sequences, SequencesExt


CONSTANTS Threads,     \* the threads
          DeviceOf,    \* the device each of them uses; the devices are the Lockers
          CallsOf,     \* the calls that each thread makes
          NamesOf,     \* the file names that each device is given
          Chunks,      \* a message is written in so many pieces
          MaxClock     \* files are changed at most so often (a bound)

ASSUME DeviceOfAssumption == DeviceOf \in [Threads -> Lockers]
ASSUME CallsOfAssumption  == CallsOf \in [Threads -> SUBSET {"send", "receive", "truncate"}]
ASSUME NamesOfAssumption  == NamesOf \in [Lockers -> (SUBSET LockFiles) \ {{}}]
ASSUME ChunksAssumption   == Chunks \in Nat \ {0} /\ MaxClock \in Nat

VARIABLES
  contents,     \* the pieces in each file: a thread's n-th
  modified,     \* QFileInfo::lastModified of each file
  clock,        \* the time, as far as modifications tell
  name,         \* FileName() of each device
  mode,         \* the WriteMode of each device
  lastUpdate,   \* _last_update_time
  doing,        \* where each thread stands
  job,          \* the call it is in
  readAt,       \* history: the time of the modification that ReceiveData last read
  overtaken,    \* history: the devices whose file was modified after ReceiveData unlocked
                \* it and before the time was noted
  spoiled       \* history: the files and devices in which a call has failed, and the
                \* devices whose TruncateFile calls have overlapped

deviceVars == <<owner, contents, modified, clock, name, mode, lastUpdate, doing, job, readAt,
                overtaken, spoiled>>

NoJob == [op |-> "none"]

DeviceInit ==
  /\ LocksFree
  /\ contents = [f \in LockFiles |-> <<>>] /\ modified = [f \in LockFiles |-> 1] /\ clock = 1
  /\ name = [d \in Lockers |-> CHOOSE f \in NamesOf[d] : TRUE]
  /\ mode = [d \in Lockers |-> "append"] /\ lastUpdate = [d \in Lockers |-> 0]
  /\ doing = [u \in Threads |-> "idle"] /\ job = [u \in Threads |-> NoJob]
  /\ readAt = [d \in Lockers |-> 0] /\ overtaken = {} /\ spoiled = {}

File(u) == name[DeviceOf[u]]
Device(u) == DeviceOf[u]
Peers(u) == {v \in Threads \ {u} : DeviceOf[v] = DeviceOf[u]}
MutexFree(u) == \A v \in Peers(u) : doing[v] \in {"idle", "entering", "restoring"}
Truncating(u) == job[u].op = "truncate"

Step(u, from, to) == doing[u] = from /\ doing' = [doing EXCEPT ![u] = to]

\* The file gets new contents, at a new time.
Modify(f, c) == /\ clock < MaxClock /\ clock' = clock + 1
                /\ contents' = [contents EXCEPT ![f] = c]
                /\ modified' = [modified EXCEPT ![f] = clock + 1]
                /\ overtaken' = overtaken \union
                     {Device(v) : v \in {w \in Threads : doing[w] = "stamping" /\ File(w) = f}}

---------------------------------------------------------------------------
(* The calls *)

\* SendData and ReceiveData take the mutex first.
SendData(u) ==
  /\ MutexFree(u) /\ Step(u, "idle", "locking")
  /\ job' = [job EXCEPT ![u] = [op |-> "send", todo |-> Chunks]]
  /\ UNCHANGED <<owner, contents, modified, clock, name, mode, lastUpdate, readAt, overtaken, spoiled>>

ReceiveData(u) ==
  /\ MutexFree(u) /\ Step(u, "idle", "locking")
  /\ job' = [job EXCEPT ![u] = [op |-> "receive"]]
  /\ UNCHANGED <<owner, contents, modified, clock, name, mode, lastUpdate, readAt, overtaken, spoiled>>

\* TruncateFile changes the mode without the mutex, and sends nothing.
TruncateFile(u) ==
  /\ Step(u, "idle", "entering")
  /\ job' = [job EXCEPT ![u] = [op |-> "truncate", saved |-> mode[Device(u)]]]
  /\ mode' = [mode EXCEPT ![Device(u)] = "over"]
  /\ spoiled' = IF \E v \in Peers(u) : Truncating(v) THEN spoiled \union {Device(u)} ELSE spoiled
  /\ UNCHANGED <<owner, contents, modified, clock, name, lastUpdate, readAt, overtaken>>

Enter(u) ==
  /\ MutexFree(u) /\ Step(u, "entering", "locking")
  /\ UNCHANGED <<owner, contents, modified, clock, name, mode, lastUpdate, job, readAt, overtaken, spoiled>>

LockFile(u) ==
  /\ Step(u, "locking", "opening")
  /\ TakeLock(Device(u), File(u))
  /\ UNCHANGED <<contents, modified, clock, name, mode, lastUpdate, job, readAt, overtaken, spoiled>>

\* Opening to write over truncates the file.
OpenFile(u) ==
  /\ Step(u, "opening", IF Truncating(u) THEN "closing" ELSE "working")
  /\ IF job[u].op # "receive" /\ mode[Device(u)] = "over"
     THEN Modify(File(u), <<>>)
     ELSE UNCHANGED <<contents, modified, clock, overtaken>>
  /\ UNCHANGED <<owner, name, mode, lastUpdate, job, readAt, spoiled>>

\* The pieces are counted down.
WritePiece(u) ==
  /\ doing[u] = "working" /\ job[u].op = "send"
  /\ Modify(File(u), Append(contents[File(u)], [by |-> u, piece |-> job[u].todo]))
  /\ job' = [job EXCEPT ![u].todo = @ - 1]
  /\ doing' = [doing EXCEPT ![u] = IF job[u].todo = 1 THEN "closing" ELSE @]
  /\ UNCHANGED <<owner, name, mode, lastUpdate, readAt, spoiled>>

ReadAll(u) ==
  /\ job[u].op = "receive" /\ Step(u, "working", "closing")
  /\ readAt' = [readAt EXCEPT ![Device(u)] = modified[File(u)]]
  /\ overtaken' = overtaken \ {Device(u)}
  /\ UNCHANGED <<owner, contents, modified, clock, name, mode, lastUpdate, job, spoiled>>

Return(u) == doing' = [doing EXCEPT ![u] = "idle"] /\ job' = [job EXCEPT ![u] = NoJob]

\* Locking, opening, writing or reading fails: an exception.  Nobody closes or unlocks
\* the file, or sets the mode back.  A device whose lock was left behind always fails.
Fail(u) ==
  /\ doing[u] \in {"locking", "opening", "working"}
  /\ Return(u)
  /\ spoiled' = spoiled \union {Device(u)} \union (IF doing[u] = "working" THEN {File(u)} ELSE {})
  /\ UNCHANGED <<owner, contents, modified, clock, name, mode, lastUpdate, readAt, overtaken>>

Unlock(u) ==
  /\ Step(u, "closing", CASE job[u].op = "send"     -> "idle"
                          [] job[u].op = "receive"  -> "stamping"
                          [] job[u].op = "truncate" -> "restoring")
  /\ GiveLock(Device(u), File(u))
  /\ job' = IF job[u].op = "send" THEN [job EXCEPT ![u] = NoJob] ELSE job
  /\ UNCHANGED <<contents, modified, clock, name, mode, lastUpdate, readAt, overtaken, spoiled>>

\* A bug to detect: what is noted is the time of the call.
StampNow(u) ==
  /\ doing[u] = "stamping" /\ Return(u)
  /\ lastUpdate' = [lastUpdate EXCEPT ![Device(u)] = clock]
  /\ UNCHANGED <<owner, contents, modified, clock, name, mode, readAt, overtaken, spoiled>>

Stamp(u) ==
  /\ doing[u] = "stamping" /\ Return(u)
  /\ lastUpdate' = [lastUpdate EXCEPT ![Device(u)] = modified[File(u)]]
  /\ UNCHANGED <<owner, contents, modified, clock, name, mode, readAt, overtaken, spoiled>>

\* A bug to detect: the mode stays as TruncateFile needs it.
RestoreOver(u) ==
  /\ doing[u] = "restoring" /\ Return(u)
  /\ UNCHANGED <<owner, contents, modified, clock, name, mode, lastUpdate, readAt, overtaken, spoiled>>

Restore(u) ==
  /\ doing[u] = "restoring" /\ Return(u)
  /\ mode' = [mode EXCEPT ![Device(u)] = job[u].saved]
  /\ UNCHANGED <<owner, contents, modified, clock, name, lastUpdate, readAt, overtaken, spoiled>>

\* SetFileName, between the calls of the device's threads, closes and unlocks the file.
SetFileName(d, f) ==
  /\ f # name[d] /\ \A u \in Threads : DeviceOf[u] = d => doing[u] = "idle"
  /\ name' = [name EXCEPT ![d] = f]
  /\ DropLocks({d})
  /\ UNCHANGED <<contents, modified, clock, mode, lastUpdate, doing, job, readAt, overtaken, spoiled>>

DeviceStep(u) ==
  \/ Enter(u) \/ LockFile(u) \/ OpenFile(u) \/ WritePiece(u) \/ ReadAll(u)
  \/ Fail(u) \/ Unlock(u) \/ Stamp(u) \/ Restore(u)

DeviceNext ==
  \/ \E u \in Threads : \/ "send" \in CallsOf[u] /\ SendData(u)
                        \/ "receive" \in CallsOf[u] /\ ReceiveData(u)
                        \/ "truncate" \in CallsOf[u] /\ TruncateFile(u)
                        \/ DeviceStep(u)
  \/ \E d \in Lockers : \E f \in NamesOf[d] : SetFileName(d, f)

---------------------------------------------------------------------------
(* Properties *)

\* Messages one after the other, all of them whole.
Whole(c) ==
  \A i \in 1 .. Len(c) :
    LET next == IF i = Len(c) THEN [by |-> c[i].by, piece |-> Chunks] ELSE c[i + 1]
    IN  /\ i = 1 => c[i].piece = Chunks
        /\ IF c[i].piece = 1 THEN next.piece = Chunks
           ELSE i < Len(c) /\ next = [c[i] EXCEPT !.piece = @ - 1]

\* "separate processes on the same machine will have controlled access to the file"
\* (fileiodevice.h), and a device may be used by several threads (iodevice.h): until a
\* call fails, a file that nobody writes to holds whole messages, and nobody reads a file
\* that somebody writes to.
MessagesStayWhole ==
  \A f \in LockFiles \ spoiled :
    \/ Whole(contents[f])
    \/ \E u \in Threads : /\ File(u) = f /\ doing[u] = "working" /\ job[u].op = "send"
                          /\ \A v \in Threads \ {u} : File(v) = f => doing[v] \notin {"working", "closing"}

\* "Has the file been updated since we've seen it?" (fileiodevice.h): a device that
\* denies it has read the contents of the file; except after a modification between the
\* unlocking of the file and the noting of the time, which it never sees.
UpdatesAreSeen ==
  \A d \in Lockers \ overtaken : lastUpdate[d] = modified[name[d]] => readAt[d] = lastUpdate[d]

\* Outside a call a device has no lock, and its mode is the user's; unless a call has
\* failed: then the lock stays, and the mode may.  Two overlapping calls of TruncateFile
\* also spoil the mode.
CallsLeaveNothing ==
  \A d \in Lockers : d \notin spoiled =>
    /\ (\E f \in NamesOf[d] : owner[f] = d) =>
         \E u \in Threads : DeviceOf[u] = d /\ doing[u] \in {"opening", "working", "closing"}
    /\ mode[d] = "over" => \E u \in Threads : DeviceOf[u] = d /\ Truncating(u)
=============================================================================
