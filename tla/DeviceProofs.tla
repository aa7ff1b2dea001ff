---------------------------- MODULE DeviceProofs ----------------------------
(***************************************************************************)
(* What threads and processes share through files, for any number of them: *)
(* the file device and the process status, both on a machine lock, and the *)
(* data store in a database; what timers do: the stopwatch, the fader and  *)
(* the port watcher; the console, of any number of lines; and the control  *)
(* for a range of dates.                                                   *)
(***************************************************************************)
EXTENDS ConsoleIODevice, FileDevice, ProcessStatus, DataStore, Timers, DateRange,
        SequenceTheorems, WellFoundedInduction, TLAPS

DeviceSpec    == DeviceInit /\ [][DeviceNext]_deviceVars
StatusSpec    == StatusInit /\ [][StatusNext]_statusVars
StopwatchSpec == StopwatchInit /\ [][StopwatchNext]_watchVars
StoreSpec     == StoreInit /\ [][StoreNext]_store
WatcherSpec   == WatcherInit /\ [][WatcherNext]_watcher
FaderSpec     == FaderInit /\ [][FaderNext]_fader
TimersSpec    == TimersInit /\ [][TimersNext]_<<timerVars, watchVars>>

---------------------------------------------------------------------------
(* The file device: the invariant *)

Pieces == [by : Threads, piece : 1 .. Chunks]
Modes  == {"append", "over"}

DeviceTypeOK ==
  /\ owner \in [LockFiles -> Lockers \union {NoOwner}]
  /\ contents \in [LockFiles -> Seq(Pieces)] /\ modified \in [LockFiles -> Nat] /\ clock \in Nat
  /\ \A f \in LockFiles : modified[f] <= clock
  /\ name \in [Lockers -> LockFiles] /\ mode \in [Lockers -> Modes]
  /\ lastUpdate \in [Lockers -> Nat] /\ readAt \in [Lockers -> Nat]
  /\ \A d \in Lockers : lastUpdate[d] <= clock
  /\ doing \in [Threads -> {"idle", "entering", "locking", "opening", "working", "closing",
                            "stamping", "restoring"}]
  /\ DOMAIN job = Threads

\* Where a thread can stand in each call, and what it remembers there.
JobFits(u) ==
  /\ job[u].op \in {"none", "send", "receive", "truncate"}
  /\ job[u].op = "none" => doing[u] = "idle"
  /\ job[u].op = "send" => /\ doing[u] \in {"locking", "opening", "working", "closing"}
                           /\ job[u] = [op |-> "send", todo |-> job[u].todo]
                           /\ job[u].todo \in 0 .. Chunks
                           /\ doing[u] \in {"locking", "opening"} => job[u].todo = Chunks
                           /\ doing[u] = "working" => job[u].todo > 0
  /\ job[u].op = "receive" => doing[u] \in {"locking", "opening", "working", "closing", "stamping"}
  /\ job[u].op = "truncate" => /\ doing[u] \in {"entering", "locking", "opening", "closing", "restoring"}
                               /\ job[u].saved \in Modes

JobsFit == \A u \in Threads : JobFits(u)

HasMutex(u) == doing[u] \in {"locking", "opening", "working", "closing", "stamping"}
HasFile(u)  == doing[u] \in {"opening", "working", "closing"}
Writes(u)   == doing[u] = "working" /\ job[u].op = "send"
Reads(u)    == doing[u] = "stamping" \/ (doing[u] = "closing" /\ job[u].op = "receive")

\* One thread of a device is in its critical section, and then the device has the lock.
OneAtATime ==
  /\ \A u, v \in Threads : HasMutex(u) /\ HasMutex(v) /\ Device(u) = Device(v) => u = v
  /\ \A u \in Threads : HasFile(u) => owner[File(u)] = Device(u)

\* The piece b may come after the piece a; the pieces of c come one after the other; the
\* piece b may come after those of c.
Follows(a, b)   == IF a.piece = 1 THEN b.piece = Chunks ELSE b.by = a.by /\ b.piece = a.piece - 1
InTurn(c)       == /\ c # <<>> => c[1].piece = Chunks
                   /\ \A i \in 1 .. Len(c) - 1 : Follows(c[i], c[i + 1])
IsNext(c, b)    == IF c = <<>> THEN b.piece = Chunks ELSE Follows(c[Len(c)], b)
Complete(c)     == c # <<>> => c[Len(c)].piece = 1

\* A file holds messages, and then the pieces of the message that is being written.
MessagesInTurn ==
  \A f \in LockFiles \ spoiled :
    /\ InTurn(contents[f])
    /\ Complete(contents[f]) \/ \E u \in Threads : File(u) = f /\ Writes(u)
    /\ \A u \in Threads : File(u) = f /\ Writes(u) =>
         IsNext(contents[f], [by |-> u, piece |-> job[u].todo])

\* What is noted is what was read, or what is about to be noted.
StampsFollowReads ==
  /\ \A d \in Lockers \ overtaken :
       lastUpdate[d] = readAt[d] \/ \E u \in Threads : Device(u) = d /\ Reads(u)
  /\ \A u \in Threads : Reads(u) /\ Device(u) \notin overtaken =>
       readAt[Device(u)] = modified[File(u)]

\* A lock is held for a call, and a mode is changed for one; it will be set back.
CallsCleanUp ==
  \A d \in Lockers \ spoiled :
    /\ \A f \in LockFiles : owner[f] = d =>
         \E u \in Threads : Device(u) = d /\ File(u) = f /\ HasFile(u)
    /\ mode[d] = "over" => \E u \in Threads : Device(u) = d /\ Truncating(u)
    /\ \A u \in Threads : Device(u) = d /\ Truncating(u) => job[u].saved = "append"

DeviceInv ==
  DeviceTypeOK /\ JobsFit /\ OneAtATime /\ MessagesInTurn /\ StampsFollowReads /\ CallsCleanUp

---------------------------------------------------------------------------
(* The process status: the invariant *)

StatusTypeOK ==
  /\ owner \in [LockFiles -> Lockers \union {NoOwner}]
  /\ state \in [Lockers -> {"gone", "idle", "probing", "connecting", "announcing", "closing",
                            "dying"}]
  /\ status \in [Lockers -> {"NotRunning", "Normal", "Idle"}]
  /\ dirty \in [Lockers -> BOOLEAN]
  /\ socket \in Lockers \union {NoOwner, Stale}
  /\ server \in [Lockers -> {"none", "listening", "deaf"}]
  /\ thread \in [Lockers -> Lockers \union {NoOwner}]
  /\ excused \subseteq Lockers

\* Who asks or announces has the lock, who is gone or leaving has not; the server starts
\* after the lock is taken, and who finds the name in use is excused.
LockFollowsState ==
  \A i \in Lockers :
    /\ state[i] \in {"probing", "announcing"} => owner[StatusFile] = i
    /\ state[i] \in {"gone", "closing", "dying"} => owner[StatusFile] # i
    /\ state[i] = "announcing" => server[i] = "none" /\ (socket = NoOwner \/ i \in excused)
    /\ state[i] = "gone" => server[i] = "none"

\* Who listens has the name, who serves has the lock or is leaving, who controls serves.
ServersFit ==
  \A i \in Lockers :
    /\ server[i] = "listening" <=> socket = i
    /\ server[i] # "none" => Controls(i) \/ state[i] \in {"closing", "dying"}
    /\ Controls(i) /\ state[i] # "announcing" => server[i] # "none"
    /\ server[i] = "deaf" => i \in excused

StatusInv == StatusTypeOK /\ LockFollowsState /\ StatusStaysHome /\ ServersFit

---------------------------------------------------------------------------
(* The stopwatch: the invariant *)

Watches == [running : BOOLEAN, accumulated : Nat, sinceStart : Nat,
            start : Nat, stop : Nat, time : Nat, marks : Seq(Nat)]

WatchTypeOK ==
  /\ now \in Nat \ {0} /\ ran \in Nat /\ firstStart \in Nat /\ watch \in Watches
  /\ position \in [Users -> {"idle", "reading", "unlocked", "emitting"}]
  /\ seen \in [Users -> Nat] /\ told \in BOOLEAN

\* While it runs, what it had accumulated and the time since the last start make up what it
\* has run; a reader has seen a time in between.
TimesFit ==
  /\ watch.start <= now /\ watch.time <= now /\ firstStart <= now
  /\ firstStart # NoTime => watch.start # NoTime
  /\ watch.running => /\ firstStart # NoTime
                      /\ watch.accumulated + (now - watch.time) = ran
                      /\ watch.time + watch.sinceStart <= now
  /\ firstStart = NoTime /\ watch.start # NoTime => "start" \in muddled
  /\ \A u \in Users : position[u] = "reading" =>
       seen[u] <= now /\ (watch.running => watch.time <= seen[u])

Signalling(u) == position[u] \in {"unlocked", "emitting"}

\* One signal at a time is on its way, and says what is the case.
SignalsFit ==
  "signal" \notin muddled =>
    /\ \A u, v \in Users : Signalling(u) /\ Signalling(v) => u = v
    /\ \A u \in Users : position[u] = "emitting" => (seen[u] = 1 <=> watch.running)

WatchInv == WatchTypeOK /\ TimesFit /\ SignalsFit /\ StopwatchIsRight
---------------------------------------------------------------------------
(* The file device: the steps, a lemma for each of them *)

LEMMA DeviceInitially == DeviceInit => DeviceInv
<1> SUFFICES ASSUME DeviceInit PROVE DeviceInv
  OBVIOUS
<1> USE DeviceOfAssumption, NamesOfAssumption, ChunksAssumption, NoOwnerAssumption DEF DeviceInit, NoJob, LocksFree
<1>0. \A S : <<>> \in Seq(S) /\ Len(<<>>) = 0
  BY EmptySeq
<1>1. DeviceTypeOK
  BY <1>0 DEF DeviceTypeOK, Modes
<1>2. JobsFit
  BY DEF JobsFit, JobFits
<1>3. OneAtATime
  BY DEF OneAtATime, HasMutex, HasFile
<1>4. MessagesInTurn
  BY <1>0 DEF MessagesInTurn, InTurn, Complete, Writes
<1>5. StampsFollowReads
  BY DEF StampsFollowReads, Reads
<1>6. CallsCleanUp
  <2>1. \A f \in LockFiles : owner[f] = NoOwner
    OBVIOUS
  <2>2. \A d \in Lockers : mode[d] # "over"
    OBVIOUS
  <2>3. \A u \in Threads : ~Truncating(u)
    BY DEF Truncating
  <2> QED
    BY <2>1, <2>2, <2>3 DEF CallsCleanUp
<1> QED
  BY <1>1, <1>2, <1>3, <1>4, <1>5, <1>6 DEF DeviceInv

\* Nobody but u moves; no file, no lock and no time changes.
OnlyMoves(u)  == \A v \in Threads \ {u} : doing'[v] = doing[v] /\ job'[v] = job[v]
SameFiles     == contents' = contents /\ modified' = modified /\ clock' = clock /\ overtaken' = overtaken
SameTimes     == lastUpdate' = lastUpdate /\ readAt' = readAt

\* The jobs of the other threads fit as before.
LEMMA OthersFit ==
  ASSUME JobsFit, NEW u \in Threads, OnlyMoves(u), JobFits(u)'
  PROVE  JobsFit'
<1>1. ASSUME NEW v \in Threads, v # u PROVE JobFits(v)'
  <2>1. doing'[v] = doing[v] /\ job'[v] = job[v]
    BY <1>1 DEF OnlyMoves
  <2>2. JobFits(v)
    BY DEF JobsFit
  <2> QED
    BY <2>1, <2>2, Zenon DEF JobFits
<1> QED
  BY <1>1 DEF JobsFit

\* Exclusion is kept if u enters the critical section only when it is free, works on the
\* file only with the lock, and takes no lock from another thread.
LEMMA OneAtATimeKept ==
  ASSUME OneAtATime, NEW u \in Threads, OnlyMoves(u), name' = name,
         HasMutex(u)' => HasMutex(u) \/ MutexFree(u),
         HasFile(u)' => owner'[File(u)] = Device(u),
         \A v \in Threads \ {u} : HasFile(v) => owner'[File(v)] = owner[File(v)]
  PROVE  OneAtATime'
<1>1. \A v \in Threads : File(v)' = File(v) /\ Device(v)' = Device(v)
  BY DEF File, Device
<1>2. \A v \in Threads \ {u} : (HasMutex(v)' <=> HasMutex(v)) /\ (HasFile(v)' <=> HasFile(v))
  BY DEF OnlyMoves, HasMutex, HasFile
<1>3. MutexFree(u) => \A v \in Threads \ {u} : Device(v) = Device(u) => ~HasMutex(v)
  BY DEF MutexFree, Peers, Device, HasMutex
<1>4. \A v, w \in Threads : HasMutex(v)' /\ HasMutex(w)' /\ Device(v) = Device(w) => v = w
  BY <1>2, <1>3 DEF OneAtATime
<1>5. \A v \in Threads : HasFile(v)' => owner'[File(v)] = Device(v)
  BY <1>2 DEF OneAtATime
<1> QED
  BY <1>1, <1>4, <1>5 DEF OneAtATime, HasMutex, HasFile

\* The messages are kept if no file is changed, and if no thread begins to write, or leaves
\* a message incomplete without spoiling the file.
LEMMA MessagesKept ==
  ASSUME MessagesInTurn, contents' = contents, spoiled \subseteq spoiled',
         \A v \in Threads : Writes(v)' => Writes(v) /\ job'[v].todo = job[v].todo,
         \A v \in Threads : Writes(v) /\ File(v) \notin spoiled' => Writes(v)',
         \A v \in Threads : Writes(v) => File(v)' = File(v)
  PROVE  MessagesInTurn'
<1> SUFFICES ASSUME NEW f \in LockFiles, f \notin spoiled'
             PROVE  /\ InTurn(contents[f])
                    /\ Complete(contents[f]) \/ \E v \in Threads : File(v)' = f /\ Writes(v)'
                    /\ \A v \in Threads : File(v)' = f /\ Writes(v)' =>
                         IsNext(contents[f], [by |-> v, piece |-> job'[v].todo])
  BY DEF MessagesInTurn
<1>1. /\ InTurn(contents[f])
      /\ Complete(contents[f]) \/ \E v \in Threads : File(v) = f /\ Writes(v)
      /\ \A v \in Threads : File(v) = f /\ Writes(v) =>
           IsNext(contents[f], [by |-> v, piece |-> job[v].todo])
  BY DEF MessagesInTurn
<1>2. ASSUME NEW v \in Threads, File(v)' = f, Writes(v)'
      PROVE  IsNext(contents[f], [by |-> v, piece |-> job'[v].todo])
  BY <1>1, <1>2
<1> QED
  BY <1>1, <1>2

\* So are the times, if no thread comes back from reading or goes there.
LEMMA StampsKept ==
  ASSUME StampsFollowReads, modified' = modified, overtaken' = overtaken, SameTimes,
         \A v \in Threads : Reads(v)' <=> Reads(v),
         \A v \in Threads : Reads(v) => File(v)' = File(v)
  PROVE  StampsFollowReads'
<1>1. \A v \in Threads : Device(v)' = Device(v)
  BY DEF Device
<1> QED
  BY <1>1 DEF StampsFollowReads, SameTimes

\* And what calls leave behind, if the threads stay in them.
LEMMA CleanKept ==
  ASSUME CallsCleanUp, owner' = owner, mode' = mode, spoiled \subseteq spoiled',
         \A v \in Threads : Device(v) \in Lockers,
         \A v \in Threads : Device(v) \notin spoiled' =>
           /\ HasFile(v) => HasFile(v)' /\ File(v)' = File(v)
           /\ Truncating(v)' <=> Truncating(v)
           /\ Truncating(v) => job'[v].saved = job[v].saved
  PROVE  CallsCleanUp'
<1> SUFFICES ASSUME NEW d \in Lockers, d \notin spoiled'
             PROVE  /\ \A f \in LockFiles : owner[f] = d =>
                         \E u \in Threads : Device(u) = d /\ File(u)' = f /\ HasFile(u)'
                    /\ mode[d] = "over" => \E u \in Threads : Device(u) = d /\ Truncating(u)'
                    /\ \A u \in Threads : Device(u) = d /\ Truncating(u)' => job'[u].saved = "append"
  BY DEF CallsCleanUp, Device
<1>1. /\ \A f \in LockFiles : owner[f] = d =>
           \E u \in Threads : Device(u) = d /\ File(u) = f /\ HasFile(u)
      /\ mode[d] = "over" => \E u \in Threads : Device(u) = d /\ Truncating(u)
      /\ \A u \in Threads : Device(u) = d /\ Truncating(u) => job[u].saved = "append"
  BY DEF CallsCleanUp
<1> QED
  BY <1>1

\* Who works on a file does it alone.
LEMMA AloneOnFile ==
  ASSUME OneAtATime, NEW u \in Threads, HasFile(u)
  PROVE  \A v \in Threads \ {u} : HasFile(v) => File(v) # File(u)
BY DEF OneAtATime, HasMutex, HasFile

\* A modification is seen by the readers that are not through with the file.
LEMMA StampsSeeModification ==
  ASSUME StampsFollowReads, OneAtATime, DeviceTypeOK, NEW u \in Threads, HasFile(u), NEW c,
         Modify(File(u), c), SameTimes, name' = name,
         ~Reads(u), \A v \in Threads : Reads(v)' <=> Reads(v)
  PROVE  StampsFollowReads'
<1>1. \A v \in Threads : Device(v)' = Device(v) /\ File(v)' = File(v)
  BY DEF Device, File
<1>2. overtaken \subseteq overtaken'
  BY DEF Modify
<1>3. ASSUME NEW v \in Threads, Reads(v), Device(v) \notin overtaken'
      PROVE  readAt[Device(v)] = modified'[File(v)]
  <2>1. File(v) \in LockFiles /\ File(u) \in LockFiles
    BY DeviceOfAssumption DEF File, DeviceTypeOK
  <2>2. readAt[Device(v)] = modified[File(v)]
    BY <1>2, <1>3 DEF StampsFollowReads
  <2>3. CASE File(v) = File(u)
    <3>1. ~HasFile(v)
      BY <1>3, <2>3, AloneOnFile
    <3>2. doing[v] = "stamping"
      BY <1>3, <3>1 DEF Reads, HasFile
    <3> QED
      BY <1>3, <2>3, <3>2 DEF Modify
  <2>4. CASE File(v) # File(u)
    BY <2>1, <2>2, <2>4 DEF Modify, DeviceTypeOK
  <2> QED
    BY <2>3, <2>4
<1>4. ASSUME NEW d \in Lockers \ overtaken', lastUpdate[d] # readAt[d]
      PROVE  \E v \in Threads : Device(v) = d /\ Reads(v)'
  BY <1>2, <1>4 DEF StampsFollowReads
<1> QED
  BY <1>1, <1>3, <1>4 DEF StampsFollowReads, SameTimes

\* A piece is added to a file.
LEMMA PieceIsAdded ==
  ASSUME NEW c \in Seq(Pieces), NEW e \in Pieces, InTurn(c), IsNext(c, e)
  PROVE  /\ Append(c, e) \in Seq(Pieces) /\ InTurn(Append(c, e))
         /\ e.piece = 1 => Complete(Append(c, e))
         /\ \A b : Follows(e, b) => IsNext(Append(c, e), b)
<1>1. /\ Len(c) \in Nat /\ Append(c, e) \in Seq(Pieces) /\ Append(c, e) # <<>>
      /\ Len(Append(c, e)) = Len(c) + 1
      /\ \A i \in 1 .. Len(c) : Append(c, e)[i] = c[i]
      /\ Append(c, e)[Len(c) + 1] = e
  BY AppendProperties, LenProperties
<1>2. c = <<>> <=> Len(c) = 0
  BY EmptySeq
<1>3. Append(c, e)[1].piece = Chunks
  BY <1>1, <1>2 DEF InTurn, IsNext
<1>4. ASSUME NEW i \in 1 .. Len(c) PROVE Follows(Append(c, e)[i], Append(c, e)[i + 1])
  <2>1. CASE i < Len(c)
    <3>1. Follows(c[i], c[i + 1])
      BY <1>1, <2>1 DEF InTurn
    <3> QED
      BY <1>1, <2>1, <3>1
  <2>2. CASE i = Len(c)
    BY <1>1, <1>2, <2>2 DEF IsNext
  <2> QED
    BY <1>1, <2>1, <2>2
<1> QED
  BY <1>1, <1>3, <1>4 DEF InTurn, IsNext, Complete

\* What the lemmas ask of the constants.
LEMMA DevicesAreLockers == \A u \in Threads : Device(u) \in Lockers /\ Device(u) # NoOwner
BY DeviceOfAssumption, NoOwnerAssumption DEF Device

LEMMA SendDataKeeps == ASSUME DeviceInv, NEW u \in Threads, SendData(u) PROVE DeviceInv'
<1> USE DEF DeviceInv
<1>1. /\ OnlyMoves(u) /\ doing[u] = "idle" /\ doing'[u] = "locking"
      /\ job[u].op = "none"
      /\ job'[u] = [op |-> "send", todo |-> Chunks]
  BY ChunksAssumption DEF SendData, Step, Return, NoJob, OnlyMoves, Truncating, DeviceTypeOK, JobsFit, JobFits
<1>2. DeviceTypeOK'
  BY DEF SendData, Step, Return, DeviceTypeOK
<1>3. JobsFit'
  <2>1. /\ job'[u].op = "send" /\ job'[u].todo = Chunks
        /\ job'[u] = [op |-> "send", todo |-> job'[u].todo]
    BY <1>1
  <2>2. JobFits(u)'
    BY <1>1, <2>1, ChunksAssumption DEF JobFits
  <2> QED
    BY <1>1, <2>2, OthersFit
<1>4. OneAtATime'
  <2>1. ~HasFile(u)'
    BY <1>1 DEF HasMutex, HasFile, SendData
  <2> QED
    BY <1>1, <2>1, OneAtATimeKept DEF SendData
<1>5. MessagesInTurn'
  <2>1. \A v \in Threads : (Writes(v)' <=> Writes(v)) /\ (Writes(v) => job'[v].todo = job[v].todo)
    BY <1>1 DEF OnlyMoves, Writes
  <2>2. \A v \in Threads : File(v)' = File(v)
    BY DEF SendData, File
  <2> QED
    BY <2>1, <2>2, MessagesKept DEF SendData
<1>6. StampsFollowReads'
  <2>1. \A v \in Threads : Reads(v)' <=> Reads(v)
    BY <1>1 DEF OnlyMoves, Reads
  <2>2. \A v \in Threads : File(v)' = File(v)
    BY DEF SendData, File
  <2> QED
    BY <2>1, <2>2, StampsKept DEF SendData, SameTimes
<1>7. CallsCleanUp'
  <2>1. \A v \in Threads : /\ HasFile(v) => HasFile(v)'
                           /\ Truncating(v)' <=> Truncating(v)
                           /\ Truncating(v) => job'[v].saved = job[v].saved
    BY <1>1 DEF OnlyMoves, HasFile, Truncating
  <2>2. \A v \in Threads : File(v)' = File(v)
    BY DEF SendData, File
  <2> QED
    BY <2>1, <2>2, DevicesAreLockers, CleanKept DEF SendData
<1> QED
  BY <1>2, <1>3, <1>4, <1>5, <1>6, <1>7

LEMMA ReceiveDataKeeps == ASSUME DeviceInv, NEW u \in Threads, ReceiveData(u) PROVE DeviceInv'
<1> USE DEF DeviceInv
<1>1. /\ OnlyMoves(u) /\ doing[u] = "idle" /\ doing'[u] = "locking"
      /\ job[u].op = "none"
      /\ job'[u] = [op |-> "receive"]
  BY ChunksAssumption DEF ReceiveData, Step, Return, NoJob, OnlyMoves, Truncating, DeviceTypeOK, JobsFit, JobFits
<1>2. DeviceTypeOK'
  BY DEF ReceiveData, Step, Return, DeviceTypeOK
<1>3. JobsFit'
  <2>1. JobFits(u)'
    BY <1>1, ChunksAssumption DEF JobFits, JobsFit, DeviceTypeOK, Modes
  <2> QED
    BY <1>1, <2>1, OthersFit
<1>4. OneAtATime'
  <2>1. ~HasFile(u)'
    BY <1>1 DEF HasMutex, HasFile, ReceiveData
  <2> QED
    BY <1>1, <2>1, OneAtATimeKept DEF ReceiveData
<1>5. MessagesInTurn'
  <2>1. \A v \in Threads : (Writes(v)' <=> Writes(v)) /\ (Writes(v) => job'[v].todo = job[v].todo)
    BY <1>1 DEF OnlyMoves, Writes
  <2>2. \A v \in Threads : File(v)' = File(v)
    BY DEF ReceiveData, File
  <2> QED
    BY <2>1, <2>2, MessagesKept DEF ReceiveData
<1>6. StampsFollowReads'
  <2>1. \A v \in Threads : Reads(v)' <=> Reads(v)
    BY <1>1 DEF OnlyMoves, Reads
  <2>2. \A v \in Threads : File(v)' = File(v)
    BY DEF ReceiveData, File
  <2> QED
    BY <2>1, <2>2, StampsKept DEF ReceiveData, SameTimes
<1>7. CallsCleanUp'
  <2>1. \A v \in Threads : /\ HasFile(v) => HasFile(v)'
                           /\ Truncating(v)' <=> Truncating(v)
                           /\ Truncating(v) => job'[v].saved = job[v].saved
    BY <1>1 DEF OnlyMoves, HasFile, Truncating
  <2>2. \A v \in Threads : File(v)' = File(v)
    BY DEF ReceiveData, File
  <2> QED
    BY <2>1, <2>2, DevicesAreLockers, CleanKept DEF ReceiveData
<1> QED
  BY <1>2, <1>3, <1>4, <1>5, <1>6, <1>7

LEMMA TruncateFileKeeps == ASSUME DeviceInv, NEW u \in Threads, TruncateFile(u) PROVE DeviceInv'
<1> USE DEF DeviceInv
<1>1. /\ OnlyMoves(u) /\ doing[u] = "idle" /\ doing'[u] = "entering"
      /\ job[u].op = "none"
      /\ job'[u] = [op |-> "truncate", saved |-> mode[Device(u)]]
  BY ChunksAssumption DEF TruncateFile, Step, Return, NoJob, OnlyMoves, Truncating, DeviceTypeOK, JobsFit, JobFits
<1>2. DeviceTypeOK'
  BY DEF TruncateFile, Step, Return, DeviceTypeOK, Modes
<1>3. JobsFit'
  <2>1. job'[u].op = "truncate" /\ job'[u].saved \in Modes
    BY <1>1, DevicesAreLockers DEF DeviceTypeOK
  <2>2. JobFits(u)'
    BY <1>1, <2>1 DEF JobFits
  <2> QED
    BY <1>1, <2>2, OthersFit
<1>4. OneAtATime'
  <2>1. ~HasFile(u)' /\ ~HasMutex(u)'
    BY <1>1 DEF HasMutex, HasFile, TruncateFile
  <2> QED
    BY <1>1, <2>1, OneAtATimeKept DEF TruncateFile
<1>5. MessagesInTurn'
  <2>1. \A v \in Threads : (Writes(v)' <=> Writes(v)) /\ (Writes(v) => job'[v].todo = job[v].todo)
    BY <1>1 DEF OnlyMoves, Writes
  <2>2. \A v \in Threads : File(v)' = File(v)
    BY DEF TruncateFile, File
  <2> QED
    BY <2>1, <2>2, MessagesKept DEF TruncateFile
<1>6. StampsFollowReads'
  <2>1. \A v \in Threads : Reads(v)' <=> Reads(v)
    BY <1>1 DEF OnlyMoves, Reads
  <2>2. \A v \in Threads : File(v)' = File(v)
    BY DEF TruncateFile, File
  <2> QED
    BY <2>1, <2>2, StampsKept DEF TruncateFile, SameTimes
<1>7. CallsCleanUp'
  <2>1. \A v \in Threads : /\ File(v)' = File(v) /\ Device(v)' = Device(v)
                           /\ HasFile(v) => HasFile(v)' /\ v # u
                           /\ v # u => /\ Truncating(v)' <=> Truncating(v)
                                       /\ job'[v] = job[v]
    BY <1>1 DEF OnlyMoves, HasFile, Truncating, File, Device, TruncateFile
  <2>2. Truncating(u)' /\ ~Truncating(u)
    BY <1>1 DEF Truncating
  <2>3. ASSUME NEW d \in Lockers, d \notin spoiled'
        PROVE  \A f \in LockFiles : owner[f] = d =>
                 \E v \in Threads : Device(v) = d /\ File(v)' = f /\ HasFile(v)'
    <3>1. d \notin spoiled
      BY <2>3 DEF TruncateFile
    <3> QED
      BY <2>1, <3>1 DEF CallsCleanUp
  <2>4. ASSUME NEW d \in Lockers, d \notin spoiled'
        PROVE  mode'[d] = "over" => \E v \in Threads : Device(v) = d /\ Truncating(v)'
    <3>1. d \notin spoiled /\ (d # Device(u) => mode'[d] = mode[d])
      BY <2>4 DEF TruncateFile, DeviceTypeOK
    <3> QED
      BY <2>1, <2>2, <3>1 DEF CallsCleanUp
  <2>5. ASSUME NEW d \in Lockers, d \notin spoiled', NEW v \in Threads, Device(v) = d, Truncating(v)'
        PROVE  job'[v].saved = "append"
    <3>1. d \notin spoiled
      BY <2>5 DEF TruncateFile
    <3>2. CASE v # u
      BY <2>1, <2>5, <3>1, <3>2 DEF CallsCleanUp
    <3>3. CASE v = u
      <4>1. \A w \in Peers(u) : ~Truncating(w)
        BY <2>5, <3>3 DEF TruncateFile
      <4>2. \A w \in Threads : Device(w) = Device(u) => ~Truncating(w)
        BY <2>2, <4>1 DEF Peers, Device
      <4>3. mode[d] # "over"
        BY <2>5, <3>1, <3>3, <4>2 DEF CallsCleanUp
      <4> QED
        BY <1>1, <2>5, <3>3, <4>3, DevicesAreLockers DEF DeviceTypeOK, Modes
    <3> QED
      BY <3>2, <3>3
  <2>6. owner' = owner
    BY DEF TruncateFile
  <2> QED
    BY <2>1, <2>3, <2>4, <2>5, <2>6 DEF CallsCleanUp
<1> QED
  BY <1>2, <1>3, <1>4, <1>5, <1>6, <1>7

LEMMA EnterKeeps == ASSUME DeviceInv, NEW u \in Threads, Enter(u) PROVE DeviceInv'
<1> USE DEF DeviceInv
<1>1. /\ OnlyMoves(u) /\ doing[u] = "entering" /\ doing'[u] = "locking"
      /\ job[u].op = "truncate" /\ job' = job
  BY ChunksAssumption DEF Enter, Step, Return, NoJob, OnlyMoves, Truncating, DeviceTypeOK, JobsFit, JobFits
<1>2. DeviceTypeOK'
  BY DEF Enter, Step, Return, DeviceTypeOK
<1>3. JobsFit'
  <2>1. JobFits(u)'
    BY <1>1, ChunksAssumption DEF JobFits, JobsFit, DeviceTypeOK, Modes
  <2> QED
    BY <1>1, <2>1, OthersFit
<1>4. OneAtATime'
  <2>1. ~HasFile(u)'
    BY <1>1 DEF HasMutex, HasFile, Enter
  <2> QED
    BY <1>1, <2>1, OneAtATimeKept DEF Enter
<1>5. MessagesInTurn'
  <2>1. \A v \in Threads : (Writes(v)' <=> Writes(v)) /\ (Writes(v) => job'[v].todo = job[v].todo)
    BY <1>1 DEF OnlyMoves, Writes
  <2>2. \A v \in Threads : File(v)' = File(v)
    BY DEF Enter, File
  <2> QED
    BY <2>1, <2>2, MessagesKept DEF Enter
<1>6. StampsFollowReads'
  <2>1. \A v \in Threads : Reads(v)' <=> Reads(v)
    BY <1>1 DEF OnlyMoves, Reads
  <2>2. \A v \in Threads : File(v)' = File(v)
    BY DEF Enter, File
  <2> QED
    BY <2>1, <2>2, StampsKept DEF Enter, SameTimes
<1>7. CallsCleanUp'
  <2>1. \A v \in Threads : /\ HasFile(v) => HasFile(v)'
                           /\ Truncating(v)' <=> Truncating(v)
                           /\ Truncating(v) => job'[v].saved = job[v].saved
    BY <1>1 DEF OnlyMoves, HasFile, Truncating
  <2>2. \A v \in Threads : File(v)' = File(v)
    BY DEF Enter, File
  <2> QED
    BY <2>1, <2>2, DevicesAreLockers, CleanKept DEF Enter
<1> QED
  BY <1>2, <1>3, <1>4, <1>5, <1>6, <1>7

LEMMA LockFileKeeps == ASSUME DeviceInv, NEW u \in Threads, LockFile(u) PROVE DeviceInv'
<1> USE DEF DeviceInv
<1>1. /\ OnlyMoves(u) /\ doing[u] = "locking" /\ doing'[u] = "opening"
      /\ job' = job /\ job[u].op # "none"
  BY ChunksAssumption DEF LockFile, Step, Return, NoJob, OnlyMoves, Truncating, DeviceTypeOK, JobsFit, JobFits
<1>2. DeviceTypeOK'
  BY DevicesAreLockers DEF LockFile, Step, TakeLock, DeviceTypeOK
<1>3. JobsFit'
  <2>1. JobFits(u)'
    BY <1>1, ChunksAssumption DEF JobFits, JobsFit, DeviceTypeOK, Modes
  <2> QED
    BY <1>1, <2>1, OthersFit
<1>4. OneAtATime'
  <2>1. File(u) \in LockFiles /\ owner[File(u)] = NoOwner
    BY DevicesAreLockers DEF LockFile, TakeLock, DeviceTypeOK, File, Device
  <2>2. /\ owner'[File(u)] = Device(u)
        /\ \A f \in LockFiles \ {File(u)} : owner'[f] = owner[f]
    BY <2>1 DEF LockFile, TakeLock, DeviceTypeOK
  <2>3. \A v \in Threads : HasFile(v) => File(v) \in LockFiles /\ File(v) # File(u)
    BY <2>1, DevicesAreLockers DEF OneAtATime, DeviceTypeOK, File, Device
  <2>4. HasMutex(u)
    BY <1>1 DEF HasMutex
  <2> QED
    BY <1>1, <2>2, <2>3, <2>4, OneAtATimeKept DEF LockFile
<1>5. MessagesInTurn'
  <2>1. \A v \in Threads : (Writes(v)' <=> Writes(v)) /\ (Writes(v) => job'[v].todo = job[v].todo)
    BY <1>1 DEF OnlyMoves, Writes
  <2>2. \A v \in Threads : File(v)' = File(v)
    BY DEF LockFile, File
  <2> QED
    BY <2>1, <2>2, MessagesKept DEF LockFile
<1>6. StampsFollowReads'
  <2>1. \A v \in Threads : Reads(v)' <=> Reads(v)
    BY <1>1 DEF OnlyMoves, Reads
  <2>2. \A v \in Threads : File(v)' = File(v)
    BY DEF LockFile, File
  <2> QED
    BY <2>1, <2>2, StampsKept DEF LockFile, SameTimes
<1>7. CallsCleanUp'
  <2>1. \A v \in Threads : /\ File(v)' = File(v) /\ Device(v)' = Device(v)
                           /\ HasFile(v) => HasFile(v)'
                           /\ Truncating(v)' <=> Truncating(v)
    BY <1>1 DEF OnlyMoves, HasFile, Truncating, File, Device, LockFile
  <2>2. HasFile(u)'
    BY <1>1 DEF HasFile
  <2>3. \A f \in LockFiles : owner'[f] = IF f = File(u) THEN Device(u) ELSE owner[f]
    BY DEF LockFile, TakeLock, DeviceTypeOK
  <2>4. ASSUME NEW d \in Lockers, d \notin spoiled, NEW f \in LockFiles, owner'[f] = d
        PROVE  \E v \in Threads : Device(v) = d /\ File(v)' = f /\ HasFile(v)'
    BY <2>1, <2>2, <2>3, <2>4 DEF CallsCleanUp
  <2>5. ASSUME NEW d \in Lockers, d \notin spoiled
        PROVE  /\ mode[d] = "over" => \E v \in Threads : Device(v) = d /\ Truncating(v)'
               /\ \A v \in Threads : Device(v) = d /\ Truncating(v)' => job[v].saved = "append"
    BY <2>1, <2>5 DEF CallsCleanUp
  <2> QED
    BY <1>1, <2>1, <2>4, <2>5 DEF CallsCleanUp, LockFile
<1> QED
  BY <1>2, <1>3, <1>4, <1>5, <1>6, <1>7

LEMMA OpenFileKeeps == ASSUME DeviceInv, NEW u \in Threads, OpenFile(u) PROVE DeviceInv'
<1> USE DEF DeviceInv
<1>1. /\ OnlyMoves(u) /\ doing[u] = "opening" /\ job[u].op # "none" /\ job' = job
      /\ doing'[u] = IF job[u].op = "truncate" THEN "closing" ELSE "working"
  BY ChunksAssumption DEF OpenFile, Step, Return, NoJob, OnlyMoves, Truncating, DeviceTypeOK, JobsFit, JobFits
<1>2. DeviceTypeOK'
  <2>1. File(u) \in LockFiles
    BY DevicesAreLockers DEF DeviceTypeOK, File, Device
  <2>2. /\ \A S : <<>> \in Seq(S)
        /\ doing' \in [Threads -> {"idle", "entering", "locking", "opening", "working",
                                     "closing", "stamping", "restoring"}]
    BY EmptySeq DEF OpenFile, Step, DeviceTypeOK
  <2>3. /\ contents' \in [LockFiles -> Seq(Pieces)] /\ modified' \in [LockFiles -> Nat]
        /\ clock' \in Nat /\ clock' >= clock
        /\ \A f \in LockFiles : modified'[f] <= clock'
    <3>1. CASE UNCHANGED <<contents, modified, clock, overtaken>>
      BY <3>1 DEF DeviceTypeOK
    <3>2. CASE Modify(File(u), <<>>)
      BY <2>1, <2>2, <3>2 DEF Modify, DeviceTypeOK
    <3> QED
      BY <3>1, <3>2 DEF OpenFile
  <2> QED
    BY <1>1, <2>2, <2>3 DEF OpenFile, DeviceTypeOK
<1>3. JobsFit'
  <2>1. JobFits(u)'
    BY <1>1, ChunksAssumption DEF JobFits, JobsFit, DeviceTypeOK, Modes
  <2> QED
    BY <1>1, <2>1, OthersFit
<1>4. OneAtATime'
  <2>1. HasMutex(u) /\ HasFile(u) /\ owner[File(u)] = Device(u)
    BY <1>1 DEF HasMutex, HasFile, OneAtATime
  <2> QED
    BY <1>1, <2>1, OneAtATimeKept DEF OpenFile
<1>5. MessagesInTurn'
  <2> SUFFICES ASSUME NEW f \in LockFiles, f \notin spoiled
               PROVE  /\ InTurn(contents'[f])
                      /\ Complete(contents'[f]) \/ \E v \in Threads : File(v) = f /\ Writes(v)'
                      /\ \A v \in Threads : File(v) = f /\ Writes(v)' =>
                           IsNext(contents'[f], [by |-> v, piece |-> job[v].todo])
    BY <1>1 DEF MessagesInTurn, OpenFile, File
  <2>1. /\ InTurn(contents[f])
        /\ Complete(contents[f]) \/ \E v \in Threads : File(v) = f /\ Writes(v)
        /\ \A v \in Threads : File(v) = f /\ Writes(v) =>
             IsNext(contents[f], [by |-> v, piece |-> job[v].todo])
    BY DEF MessagesInTurn
  <2>2. \A v \in Threads \ {u} : Writes(v)' <=> Writes(v)
    BY <1>1 DEF OnlyMoves, Writes
  <2>3. ~Writes(u) /\ (Writes(u)' => job[u].todo = Chunks)
    BY <1>1 DEF Writes, JobsFit, JobFits
  <2>4. CASE f # File(u)
    <3>1. contents'[f] = contents[f]
      BY <2>4 DEF OpenFile, Modify, DeviceTypeOK
    <3>2. \A v \in Threads : File(v) = f => v # u
      BY <2>4
    <3> QED
      BY <2>1, <2>2, <3>1, <3>2
  <2>5. CASE f = File(u)
    <3>1. \A v \in Threads : File(v) = f => ~Writes(v)
      <4>1. HasFile(u)
        BY <1>1 DEF HasFile
      <4> QED
        BY <2>3, <2>5, <4>1, AloneOnFile DEF HasFile, Writes
    <3>2. contents'[f] = contents[f] \/ contents'[f] = <<>>
      BY <2>5 DEF OpenFile, Modify, DeviceTypeOK
    <3>3. InTurn(<<>>) /\ Complete(<<>>)
      BY EmptySeq DEF InTurn, Complete
    <3>4. InTurn(contents'[f]) /\ Complete(contents'[f])
      BY <2>1, <3>1, <3>2, <3>3
    <3>5. \A v \in Threads : File(v) = f /\ Writes(v)' => v = u
      BY <2>2, <3>1
    <3>6. ASSUME Writes(u)' PROVE IsNext(contents'[f], [by |-> u, piece |-> job[u].todo])
      BY <2>3, <3>4, <3>6 DEF IsNext, Complete, Follows
    <3> QED
      BY <3>4, <3>5, <3>6
  <2> QED
    BY <2>4, <2>5
<1>6. StampsFollowReads'
  <2>1. HasFile(u)
    BY <1>1 DEF HasFile
  <2>2. ~Reads(u) /\ \A v \in Threads : Reads(v)' <=> Reads(v)
    BY <1>1 DEF OnlyMoves, Reads, JobsFit, JobFits
  <2>3. CASE UNCHANGED <<contents, modified, clock, overtaken>>
    <3>1. \A v \in Threads : File(v)' = File(v)
      BY DEF OpenFile, File
    <3> QED
      BY <2>2, <2>3, <3>1, StampsKept DEF OpenFile, SameTimes
  <2>4. CASE Modify(File(u), <<>>)
    BY <2>1, <2>2, <2>4, StampsSeeModification DEF OpenFile, SameTimes
  <2> QED
    BY <2>3, <2>4 DEF OpenFile
<1>7. CallsCleanUp'
  <2>1. \A v \in Threads : /\ HasFile(v) => HasFile(v)'
                           /\ Truncating(v)' <=> Truncating(v)
                           /\ Truncating(v) => job'[v].saved = job[v].saved
    BY <1>1 DEF OnlyMoves, HasFile, Truncating
  <2>2. \A v \in Threads : File(v)' = File(v)
    BY DEF OpenFile, File
  <2> QED
    BY <2>1, <2>2, DevicesAreLockers, CleanKept DEF OpenFile
<1> QED
  BY <1>2, <1>3, <1>4, <1>5, <1>6, <1>7

LEMMA WritePieceKeeps == ASSUME DeviceInv, NEW u \in Threads, WritePiece(u) PROVE DeviceInv'
<1> USE DEF DeviceInv
<1>1. /\ OnlyMoves(u) /\ doing[u] = "working" /\ job[u].op = "send"
      /\ job[u].todo \in 1 .. Chunks
      /\ job'[u].op = "send" /\ job'[u].todo = job[u].todo - 1
      /\ job'[u] = [op |-> "send", todo |-> job'[u].todo]
      /\ doing'[u] = IF job[u].todo = 1 THEN "closing" ELSE "working"
      /\ DOMAIN job' = Threads
  BY ChunksAssumption DEF WritePiece, Step, Return, NoJob, OnlyMoves, Truncating, DeviceTypeOK, JobsFit, JobFits
<1>2. DeviceTypeOK'
  <2>1. File(u) \in LockFiles
    BY DevicesAreLockers DEF DeviceTypeOK, File, Device
  <2>2. [by |-> u, piece |-> job[u].todo] \in Pieces
    BY <1>1 DEF Pieces
  <2>3. /\ doing' \in [Threads -> {"idle", "entering", "locking", "opening", "working",
                                     "closing", "stamping", "restoring"}]
    BY DEF WritePiece, DeviceTypeOK
  <2>4. /\ contents' \in [LockFiles -> Seq(Pieces)] /\ modified' \in [LockFiles -> Nat]
        /\ clock' \in Nat /\ clock' >= clock
        /\ \A f \in LockFiles : modified'[f] <= clock'
    <3>1. Append(contents[File(u)], [by |-> u, piece |-> job[u].todo]) \in Seq(Pieces)
      BY <2>1, <2>2, AppendProperties DEF DeviceTypeOK
    <3> QED
      BY <2>1, <3>1 DEF WritePiece, Modify, DeviceTypeOK
  <2> QED
    BY <1>1, <2>3, <2>4 DEF WritePiece, DeviceTypeOK
<1>3. JobsFit'
  <2>1. JobFits(u)'
    BY <1>1, ChunksAssumption DEF JobFits, JobsFit, DeviceTypeOK, Modes
  <2> QED
    BY <1>1, <2>1, OthersFit
<1>4. OneAtATime'
  <2>1. HasMutex(u) /\ HasFile(u) /\ owner[File(u)] = Device(u)
    BY <1>1 DEF HasMutex, HasFile, OneAtATime
  <2> QED
    BY <1>1, <2>1, OneAtATimeKept DEF WritePiece
<1>5. MessagesInTurn'
  <2> DEFINE e == [by |-> u, piece |-> job[u].todo]
  <2> SUFFICES ASSUME NEW f \in LockFiles, f \notin spoiled
               PROVE  /\ InTurn(contents'[f])
                      /\ Complete(contents'[f]) \/ \E v \in Threads : File(v) = f /\ Writes(v)'
                      /\ \A v \in Threads : File(v) = f /\ Writes(v)' =>
                           IsNext(contents'[f], [by |-> v, piece |-> job'[v].todo])
    BY <1>1 DEF MessagesInTurn, WritePiece, File
  <2>1. /\ InTurn(contents[f])
        /\ Complete(contents[f]) \/ \E v \in Threads : File(v) = f /\ Writes(v)
        /\ \A v \in Threads : File(v) = f /\ Writes(v) =>
             IsNext(contents[f], [by |-> v, piece |-> job[v].todo])
    BY DEF MessagesInTurn
  <2>2. \A v \in Threads \ {u} : (Writes(v)' <=> Writes(v)) /\ job'[v].todo = job[v].todo
    BY <1>1 DEF OnlyMoves, Writes
  <2>3. Writes(u) /\ (Writes(u)' <=> job[u].todo # 1)
    BY <1>1 DEF Writes
  <2>4. CASE f # File(u)
    <3>1. contents'[f] = contents[f]
      BY <2>4 DEF WritePiece, Modify, DeviceTypeOK
    <3>2. \A v \in Threads : File(v) = f => v # u
      BY <2>4
    <3>3. ASSUME NEW v \in Threads, File(v) = f, Writes(v)'
          PROVE  IsNext(contents'[f], [by |-> v, piece |-> job'[v].todo])
      <4>1. v # u /\ Writes(v) /\ job'[v].todo = job[v].todo
        BY <2>2, <3>2, <3>3
      <4>2. IsNext(contents[f], [by |-> v, piece |-> job[v].todo])
        BY <2>1, <3>3, <4>1
      <4> QED
        BY <3>1, <4>1, <4>2
    <3> QED
      BY <2>1, <2>2, <3>1, <3>2, <3>3
  <2>5. CASE f = File(u)
    <3>1. \A v \in Threads : File(v) = f => ~Writes(v) \/ v = u
      <4>1. HasFile(u)
        BY <1>1 DEF HasFile
      <4> QED
        BY <2>5, <4>1, AloneOnFile DEF HasFile, Writes
    <3>2. contents'[f] = Append(contents[f], e)
      BY <2>5 DEF WritePiece, Modify, DeviceTypeOK
    <3>3. contents[f] \in Seq(Pieces) /\ e \in Pieces /\ IsNext(contents[f], e)
      BY <1>1, <2>1, <2>3, <2>5 DEF DeviceTypeOK, Pieces
    <3>4. /\ InTurn(contents'[f])
          /\ e.piece = 1 => Complete(contents'[f])
          /\ \A b : Follows(e, b) => IsNext(contents'[f], b)
      BY <2>1, <3>2, <3>3, PieceIsAdded
    <3>5. \A v \in Threads : File(v) = f /\ Writes(v)' => v = u
      BY <2>2, <3>1
    <3>6. ASSUME Writes(u)' PROVE IsNext(contents'[f], [by |-> u, piece |-> job'[u].todo])
      <4>1. Follows(e, [by |-> u, piece |-> job'[u].todo])
        BY <1>1, <2>3, <3>6 DEF Follows
      <4> QED
        BY <3>4, <4>1
    <3>7. job[u].todo = 1 \/ Writes(u)'
      BY <2>3
    <3>8. Complete(contents'[f]) \/ \E v \in Threads : File(v) = f /\ Writes(v)'
      BY <2>5, <3>4, <3>7
    <3> QED
      BY <3>4, <3>5, <3>6, <3>8
  <2> QED
    BY <2>4, <2>5
<1>6. StampsFollowReads'
  <2>1. HasFile(u)
    BY <1>1 DEF HasFile
  <2>2. ~Reads(u) /\ \A v \in Threads : Reads(v)' <=> Reads(v)
    BY <1>1 DEF OnlyMoves, Reads
  <2> QED
    BY <2>1, <2>2, StampsSeeModification DEF WritePiece, SameTimes
<1>7. CallsCleanUp'
  <2>1. \A v \in Threads : /\ HasFile(v) => HasFile(v)'
                           /\ Truncating(v)' <=> Truncating(v)
                           /\ Truncating(v) => job'[v].saved = job[v].saved
    BY <1>1 DEF OnlyMoves, HasFile, Truncating
  <2>2. \A v \in Threads : File(v)' = File(v)
    BY DEF WritePiece, File
  <2> QED
    BY <2>1, <2>2, DevicesAreLockers, CleanKept DEF WritePiece
<1> QED
  BY <1>2, <1>3, <1>4, <1>5, <1>6, <1>7

LEMMA ReadAllKeeps == ASSUME DeviceInv, NEW u \in Threads, ReadAll(u) PROVE DeviceInv'
<1> USE DEF DeviceInv
<1>1. /\ OnlyMoves(u) /\ doing[u] = "working" /\ doing'[u] = "closing"
      /\ job[u].op = "receive" /\ job' = job
  BY ChunksAssumption DEF ReadAll, Step, Return, NoJob, OnlyMoves, Truncating, DeviceTypeOK, JobsFit, JobFits
<1>2. DeviceTypeOK'
  <2>1. Device(u) \in Lockers /\ File(u) \in LockFiles
    BY DevicesAreLockers DEF DeviceTypeOK, File, Device
  <2> QED
    BY <1>1, <2>1 DEF ReadAll, Step, DeviceTypeOK
<1>3. JobsFit'
  <2>1. JobFits(u)'
    BY <1>1, ChunksAssumption DEF JobFits, JobsFit, DeviceTypeOK, Modes
  <2> QED
    BY <1>1, <2>1, OthersFit
<1>4. OneAtATime'
  <2>1. HasMutex(u) /\ HasFile(u) /\ owner[File(u)] = Device(u)
    BY <1>1 DEF HasMutex, HasFile, OneAtATime
  <2> QED
    BY <1>1, <2>1, OneAtATimeKept DEF ReadAll
<1>5. MessagesInTurn'
  <2>1. \A v \in Threads : (Writes(v)' <=> Writes(v)) /\ (Writes(v) => job'[v].todo = job[v].todo)
    BY <1>1 DEF OnlyMoves, Writes
  <2>2. \A v \in Threads : File(v)' = File(v)
    BY DEF ReadAll, File
  <2> QED
    BY <2>1, <2>2, MessagesKept DEF ReadAll
<1>6. StampsFollowReads'
  <2>1. \A v \in Threads : Device(v)' = Device(v) /\ File(v)' = File(v)
    BY DEF ReadAll, Device, File
  <2>2. Reads(u)' /\ HasMutex(u)
    BY <1>1 DEF Reads, HasMutex
  <2>3. \A v \in Threads \ {u} : (Reads(v)' <=> Reads(v)) /\ (Reads(v) => Device(v) # Device(u))
    BY <1>1, <2>2 DEF OnlyMoves, Reads, HasMutex, OneAtATime
  <2>4. \A d \in Lockers \ {Device(u)} :
          readAt'[d] = readAt[d] /\ (d \in overtaken' <=> d \in overtaken)
    BY DEF ReadAll, DeviceTypeOK
  <2>5. readAt'[Device(u)] = modified[File(u)] /\ UNCHANGED <<lastUpdate, modified>>
    BY DevicesAreLockers DEF ReadAll, DeviceTypeOK
  <2>6. ASSUME NEW d \in Lockers \ overtaken', lastUpdate[d] # readAt'[d]
        PROVE  \E v \in Threads : Device(v) = d /\ Reads(v)'
    <3>1. CASE d = Device(u)
      BY <2>2, <3>1
    <3>2. CASE d # Device(u)
      <4>1. d \notin overtaken /\ lastUpdate[d] # readAt[d]
        BY <2>4, <2>6, <3>2
      <4>2. PICK v \in Threads : Device(v) = d /\ Reads(v)
        BY <4>1 DEF StampsFollowReads
      <4> QED
        BY <2>3, <3>2, <4>2
    <3> QED
      BY <3>1, <3>2
  <2>7. ASSUME NEW v \in Threads, Reads(v)', Device(v) \notin overtaken'
        PROVE  readAt'[Device(v)] = modified[File(v)]
    <3>1. CASE v = u
      BY <2>5, <3>1
    <3>2. CASE v # u
      <4>1. Reads(v) /\ Device(v) # Device(u) /\ Device(v) \in Lockers
        BY <2>3, <2>7, <3>2, DevicesAreLockers
      <4> QED
        BY <2>4, <2>7, <4>1 DEF StampsFollowReads
    <3> QED
      BY <3>1, <3>2
  <2> QED
    BY <2>1, <2>5, <2>6, <2>7 DEF StampsFollowReads
<1>7. CallsCleanUp'
  <2>1. \A v \in Threads : /\ HasFile(v) => HasFile(v)'
                           /\ Truncating(v)' <=> Truncating(v)
                           /\ Truncating(v) => job'[v].saved = job[v].saved
    BY <1>1 DEF OnlyMoves, HasFile, Truncating
  <2>2. \A v \in Threads : File(v)' = File(v)
    BY DEF ReadAll, File
  <2> QED
    BY <2>1, <2>2, DevicesAreLockers, CleanKept DEF ReadAll
<1> QED
  BY <1>2, <1>3, <1>4, <1>5, <1>6, <1>7

LEMMA FailKeeps == ASSUME DeviceInv, NEW u \in Threads, Fail(u) PROVE DeviceInv'
<1> USE DEF DeviceInv
<1>1. /\ OnlyMoves(u) /\ doing[u] \in {"locking", "opening", "working"} /\ doing'[u] = "idle"
      /\ job'[u].op = "none" /\ DOMAIN job' = Threads
      /\ Device(u) \in spoiled' /\ spoiled \subseteq spoiled'
  BY ChunksAssumption DEF Fail, Step, Return, NoJob, OnlyMoves, Truncating, DeviceTypeOK, JobsFit, JobFits
<1>2. DeviceTypeOK'
  BY <1>1 DEF Fail, Return, DeviceTypeOK
<1>3. JobsFit'
  <2>1. JobFits(u)'
    BY <1>1, ChunksAssumption DEF JobFits, JobsFit, DeviceTypeOK, Modes
  <2> QED
    BY <1>1, <2>1, OthersFit
<1>4. OneAtATime'
  <2>1. ~HasFile(u)' /\ ~HasMutex(u)'
    BY <1>1 DEF HasMutex, HasFile, Fail
  <2> QED
    BY <1>1, <2>1, OneAtATimeKept DEF Fail
<1>5. MessagesInTurn'
  <2>1. \A v \in Threads \ {u} : (Writes(v)' <=> Writes(v)) /\ job'[v].todo = job[v].todo
    BY <1>1 DEF OnlyMoves, Writes
  <2>2. ~Writes(u)' /\ (Writes(u) => File(u) \in spoiled')
    BY <1>1 DEF Writes, Fail
  <2>3. \A v \in Threads : File(v)' = File(v)
    BY DEF Fail, File
  <2> QED
    BY <1>1, <2>1, <2>2, <2>3, MessagesKept DEF Fail
<1>6. StampsFollowReads'
  <2>1. \A v \in Threads : Reads(v)' <=> Reads(v)
    BY <1>1 DEF OnlyMoves, Reads
  <2>2. \A v \in Threads : File(v)' = File(v)
    BY DEF Fail, File
  <2> QED
    BY <2>1, <2>2, StampsKept DEF Fail, SameTimes
<1>7. CallsCleanUp'
  <2>1. \A v \in Threads \ {u} : /\ HasFile(v) => HasFile(v)'
                                 /\ Truncating(v)' <=> Truncating(v)
                                 /\ job'[v] = job[v]
    BY <1>1 DEF OnlyMoves, HasFile, Truncating
  <2>2. \A v \in Threads : File(v)' = File(v)
    BY DEF Fail, File
  <2> QED
    BY <1>1, <2>1, <2>2, DevicesAreLockers, CleanKept DEF Fail
<1> QED
  BY <1>2, <1>3, <1>4, <1>5, <1>6, <1>7

LEMMA UnlockKeeps == ASSUME DeviceInv, NEW u \in Threads, Unlock(u) PROVE DeviceInv'
<1> USE DEF DeviceInv
<1>1. /\ OnlyMoves(u) /\ doing[u] = "closing" /\ doing'[u] \in {"idle", "stamping", "restoring"}
      /\ DOMAIN job' = Threads /\ job[u].op # "none"
      /\ job[u].op = "send" => doing'[u] = "idle" /\ job'[u].op = "none"
      /\ job[u].op = "receive" => doing'[u] = "stamping" /\ job'[u] = job[u]
      /\ job[u].op = "truncate" => doing'[u] = "restoring" /\ job'[u] = job[u]
  BY ChunksAssumption DEF Unlock, Step, Return, NoJob, OnlyMoves, Truncating, DeviceTypeOK, JobsFit, JobFits
<1>2. DeviceTypeOK'
  <2>1. owner' \in [LockFiles -> Lockers \union {NoOwner}]
    BY DEF Unlock, GiveLock, DeviceTypeOK
  <2>2. doing' \in [Threads -> {"idle", "entering", "locking", "opening", "working",
                                 "closing", "stamping", "restoring"}]
    BY <1>1 DEF Unlock, Step, DeviceTypeOK
  <2> QED
    BY <1>1, <2>1, <2>2 DEF Unlock, DeviceTypeOK
<1>3. JobsFit'
  <2>1. JobFits(u)'
    BY <1>1, ChunksAssumption DEF JobFits, JobsFit, DeviceTypeOK, Modes
  <2> QED
    BY <1>1, <2>1, OthersFit
<1>0. /\ \A f \in LockFiles : owner'[f] = IF f = File(u) THEN NoOwner ELSE owner[f]
      /\ \A v \in Threads : File(v) \in LockFiles
  BY DevicesAreLockers DEF Unlock, GiveLock, DeviceTypeOK, File, Device
<1>4. OneAtATime'
  <2>1. HasMutex(u) /\ HasFile(u) /\ ~HasFile(u)'
    BY <1>1 DEF HasMutex, HasFile
  <2>2. \A v \in Threads \ {u} : HasFile(v) => owner'[File(v)] = owner[File(v)]
    BY <1>0, <2>1, AloneOnFile
  <2> QED
    BY <1>1, <2>1, <2>2, OneAtATimeKept DEF Unlock
<1>5. MessagesInTurn'
  <2>1. \A v \in Threads : (Writes(v)' <=> Writes(v)) /\ (Writes(v) => job'[v].todo = job[v].todo)
    BY <1>1 DEF OnlyMoves, Writes
  <2>2. \A v \in Threads : File(v)' = File(v)
    BY DEF Unlock, File
  <2> QED
    BY <2>1, <2>2, MessagesKept DEF Unlock
<1>6. StampsFollowReads'
  <2>1. \A v \in Threads : Reads(v)' <=> Reads(v)
    BY <1>1 DEF OnlyMoves, Reads, JobsFit, JobFits
  <2>2. \A v \in Threads : File(v)' = File(v)
    BY DEF Unlock, File
  <2> QED
    BY <2>1, <2>2, StampsKept DEF Unlock, SameTimes
<1>7. CallsCleanUp'
  <2>1. \A v \in Threads : /\ File(v)' = File(v) /\ Device(v)' = Device(v)
                           /\ v # u /\ HasFile(v) => HasFile(v)'
                           /\ Truncating(v)' <=> Truncating(v)
                           /\ Truncating(v) => job'[v].saved = job[v].saved
    BY <1>1 DEF OnlyMoves, HasFile, Truncating, File, Device, Unlock, JobsFit, JobFits
  <2>2. ASSUME NEW d \in Lockers, d \notin spoiled, NEW f \in LockFiles, owner'[f] = d
        PROVE  \E v \in Threads : Device(v) = d /\ File(v)' = f /\ HasFile(v)'
    <3>1. f # File(u) /\ owner[f] = d
      BY <1>0, <2>2, NoOwnerAssumption
    <3>2. PICK v \in Threads : Device(v) = d /\ File(v) = f /\ HasFile(v)
      BY <2>2, <3>1 DEF CallsCleanUp
    <3> QED
      BY <2>1, <3>1, <3>2
  <2>3. ASSUME NEW d \in Lockers, d \notin spoiled
        PROVE  /\ mode[d] = "over" => \E v \in Threads : Device(v) = d /\ Truncating(v)'
               /\ \A v \in Threads : Device(v) = d /\ Truncating(v)' => job'[v].saved = "append"
    BY <2>1, <2>3 DEF CallsCleanUp
  <2> QED
    BY <2>1, <2>2, <2>3 DEF CallsCleanUp, Unlock
<1> QED
  BY <1>2, <1>3, <1>4, <1>5, <1>6, <1>7

LEMMA StampKeeps == ASSUME DeviceInv, NEW u \in Threads, Stamp(u) PROVE DeviceInv'
<1> USE DEF DeviceInv
<1>1. /\ OnlyMoves(u) /\ doing[u] = "stamping" /\ doing'[u] = "idle"
      /\ job[u].op = "receive" /\ job'[u].op = "none" /\ DOMAIN job' = Threads
  BY ChunksAssumption DEF Stamp, Step, Return, NoJob, OnlyMoves, Truncating, DeviceTypeOK, JobsFit, JobFits
<1>2. DeviceTypeOK'
  <2>1. Device(u) \in Lockers /\ File(u) \in LockFiles
    BY DevicesAreLockers DEF DeviceTypeOK, File, Device
  <2> QED
    BY <1>1, <2>1 DEF Stamp, Return, DeviceTypeOK
<1>3. JobsFit'
  <2>1. JobFits(u)'
    BY <1>1, ChunksAssumption DEF JobFits, JobsFit, DeviceTypeOK, Modes
  <2> QED
    BY <1>1, <2>1, OthersFit
<1>4. OneAtATime'
  <2>1. ~HasFile(u)' /\ ~HasMutex(u)'
    BY <1>1 DEF HasMutex, HasFile, Stamp
  <2> QED
    BY <1>1, <2>1, OneAtATimeKept DEF Stamp
<1>5. MessagesInTurn'
  <2>1. \A v \in Threads : (Writes(v)' <=> Writes(v)) /\ (Writes(v) => job'[v].todo = job[v].todo)
    BY <1>1 DEF OnlyMoves, Writes
  <2>2. \A v \in Threads : File(v)' = File(v)
    BY DEF Stamp, File
  <2> QED
    BY <2>1, <2>2, MessagesKept DEF Stamp
<1>6. StampsFollowReads'
  <2>1. \A v \in Threads : Device(v)' = Device(v) /\ File(v)' = File(v)
    BY DEF Stamp, Device, File
  <2>2. Reads(u) /\ ~Reads(u)'
    BY <1>1 DEF Reads
  <2>3. \A v \in Threads \ {u} : Reads(v)' <=> Reads(v)
    BY <1>1 DEF OnlyMoves, Reads
  <2>4. /\ lastUpdate'[Device(u)] = modified[File(u)]
        /\ \A d \in Lockers \ {Device(u)} : lastUpdate'[d] = lastUpdate[d]
    BY DevicesAreLockers DEF Stamp, DeviceTypeOK
  <2>5. ASSUME NEW d \in Lockers \ overtaken, lastUpdate'[d] # readAt[d]
        PROVE  \E v \in Threads : Device(v) = d /\ Reads(v)'
    <3>1. d # Device(u)
      BY <2>2, <2>4, <2>5 DEF StampsFollowReads
    <3>2. PICK v \in Threads : Device(v) = d /\ Reads(v)
      BY <2>4, <2>5, <3>1 DEF StampsFollowReads
    <3> QED
      BY <2>3, <3>1, <3>2
  <2> QED
    BY <2>1, <2>2, <2>3, <2>5 DEF StampsFollowReads, Stamp
<1>7. CallsCleanUp'
  <2>1. \A v \in Threads : /\ HasFile(v) => HasFile(v)'
                           /\ Truncating(v)' <=> Truncating(v)
                           /\ Truncating(v) => job'[v].saved = job[v].saved
    BY <1>1 DEF OnlyMoves, HasFile, Truncating
  <2>2. \A v \in Threads : File(v)' = File(v)
    BY DEF Stamp, File
  <2> QED
    BY <2>1, <2>2, DevicesAreLockers, CleanKept DEF Stamp
<1> QED
  BY <1>2, <1>3, <1>4, <1>5, <1>6, <1>7

LEMMA RestoreKeeps == ASSUME DeviceInv, NEW u \in Threads, Restore(u) PROVE DeviceInv'
<1> USE DEF DeviceInv
<1>1. /\ OnlyMoves(u) /\ doing[u] = "restoring" /\ doing'[u] = "idle"
      /\ job[u].op = "truncate" /\ job[u].saved \in Modes
      /\ job'[u].op = "none" /\ DOMAIN job' = Threads
  BY ChunksAssumption DEF Restore, Step, Return, NoJob, OnlyMoves, Truncating, DeviceTypeOK, JobsFit, JobFits
<1>2. DeviceTypeOK'
  <2>1. Device(u) \in Lockers
    BY DevicesAreLockers
  <2> QED
    BY <1>1, <2>1 DEF Restore, Return, DeviceTypeOK
<1>3. JobsFit'
  <2>1. JobFits(u)'
    BY <1>1, ChunksAssumption DEF JobFits, JobsFit, DeviceTypeOK, Modes
  <2> QED
    BY <1>1, <2>1, OthersFit
<1>4. OneAtATime'
  <2>1. ~HasFile(u)' /\ ~HasMutex(u)'
    BY <1>1 DEF HasMutex, HasFile, Restore
  <2> QED
    BY <1>1, <2>1, OneAtATimeKept DEF Restore
<1>5. MessagesInTurn'
  <2>1. \A v \in Threads : (Writes(v)' <=> Writes(v)) /\ (Writes(v) => job'[v].todo = job[v].todo)
    BY <1>1 DEF OnlyMoves, Writes
  <2>2. \A v \in Threads : File(v)' = File(v)
    BY DEF Restore, File
  <2> QED
    BY <2>1, <2>2, MessagesKept DEF Restore
<1>6. StampsFollowReads'
  <2>1. \A v \in Threads : Reads(v)' <=> Reads(v)
    BY <1>1 DEF OnlyMoves, Reads
  <2>2. \A v \in Threads : File(v)' = File(v)
    BY DEF Restore, File
  <2> QED
    BY <2>1, <2>2, StampsKept DEF Restore, SameTimes
<1>7. CallsCleanUp'
  <2>1. \A v \in Threads : File(v)' = File(v) /\ Device(v)' = Device(v)
    BY DEF Restore, File, Device
  <2>2. Truncating(u) /\ ~Truncating(u)' /\ ~HasFile(u)
    BY <1>1 DEF Truncating, HasFile
  <2>3. \A v \in Threads \ {u} : /\ HasFile(v)' <=> HasFile(v)
                                 /\ Truncating(v)' <=> Truncating(v)
                                 /\ job'[v] = job[v]
    BY <1>1 DEF OnlyMoves, HasFile, Truncating
  <2>4. /\ mode'[Device(u)] = job[u].saved
        /\ \A d \in Lockers \ {Device(u)} : mode'[d] = mode[d]
    BY DevicesAreLockers DEF Restore, DeviceTypeOK
  <2>5. ASSUME NEW d \in Lockers, d \notin spoiled
        PROVE  /\ \A f \in LockFiles : owner[f] = d =>
                    \E v \in Threads : Device(v) = d /\ File(v) = f /\ HasFile(v)'
               /\ \A v \in Threads : Device(v) = d /\ Truncating(v)' => job'[v].saved = "append"
    BY <2>2, <2>3, <2>5 DEF CallsCleanUp
  <2>6. ASSUME NEW d \in Lockers, d \notin spoiled, mode'[d] = "over"
        PROVE  \E v \in Threads : Device(v) = d /\ Truncating(v)'
    <3>1. d # Device(u)
      BY <2>2, <2>4, <2>6 DEF CallsCleanUp
    <3>2. PICK v \in Threads : Device(v) = d /\ Truncating(v)
      BY <2>4, <2>6, <3>1 DEF CallsCleanUp
    <3> QED
      BY <2>3, <3>1, <3>2
  <2> QED
    BY <2>1, <2>5, <2>6 DEF CallsCleanUp, Restore
<1> QED
  BY <1>2, <1>3, <1>4, <1>5, <1>6, <1>7

LEMMA SetFileNameKeeps ==
  ASSUME DeviceInv, NEW d \in Lockers, NEW f \in NamesOf[d], SetFileName(d, f) PROVE DeviceInv'
<1> USE DEF DeviceInv
<1>1. /\ UNCHANGED <<contents, modified, clock, mode, lastUpdate, doing, job, readAt, overtaken, spoiled>>
      /\ \A u \in Threads : Device(u) = d => doing[u] = "idle" /\ job[u].op = "none"
      /\ f \in LockFiles
  BY NamesOfAssumption DEF SetFileName, JobsFit, JobFits, Device
<1>2. \A g \in LockFiles : owner'[g] = IF owner[g] = d THEN NoOwner ELSE owner[g]
  BY DEF SetFileName, DropLocks
<1>3. \A u \in Threads : Device(u)' = Device(u) /\ (Device(u) # d => File(u)' = File(u))
  BY DevicesAreLockers DEF SetFileName, DeviceTypeOK, File, Device
<1>4. DeviceTypeOK'
  BY <1>1, <1>2 DEF SetFileName, DropLocks, DeviceTypeOK
<1>5. JobsFit'
  BY <1>1 DEF JobsFit, JobFits
<1>6. OneAtATime'
  <2>1. \A u \in Threads : /\ HasMutex(u)' <=> HasMutex(u)
                           /\ HasFile(u)' <=> HasFile(u)
                           /\ HasFile(u) => Device(u) # d /\ File(u) \in LockFiles
    BY <1>1, DevicesAreLockers DEF HasMutex, HasFile, DeviceTypeOK, File, Device
  <2> QED
    BY <1>2, <1>3, <2>1 DEF OneAtATime
<1>7. MessagesInTurn'
  <2>1. \A u \in Threads : (Writes(u)' <=> Writes(u)) /\ (Writes(u) => Device(u) # d)
    BY <1>1 DEF Writes
  <2> QED
    BY <1>1, <1>3, <2>1, MessagesKept
<1>8. StampsFollowReads'
  <2>1. \A u \in Threads : (Reads(u)' <=> Reads(u)) /\ (Reads(u) => Device(u) # d)
    BY <1>1 DEF Reads
  <2> QED
    BY <1>1, <1>3, <2>1, StampsKept DEF SameTimes
<1>9. CallsCleanUp'
  <2>1. \A u \in Threads : /\ HasFile(u)' <=> HasFile(u)
                           /\ HasFile(u) => Device(u) # d
                           /\ Truncating(u)' <=> Truncating(u)
    BY <1>1 DEF HasFile, Truncating
  <2>2. ASSUME NEW e \in Lockers, e \notin spoiled, NEW g \in LockFiles, owner'[g] = e
        PROVE  \E u \in Threads : Device(u) = e /\ File(u)' = g /\ HasFile(u)'
    <3>1. owner[g] = e
      BY <1>2, <2>2, NoOwnerAssumption
    <3>2. PICK u \in Threads : Device(u) = e /\ File(u) = g /\ HasFile(u)
      BY <2>2, <3>1 DEF CallsCleanUp
    <3> QED
      BY <1>3, <2>1, <3>2
  <2> QED
    BY <1>1, <1>3, <2>1, <2>2 DEF CallsCleanUp
<1> QED
  BY <1>4, <1>5, <1>6, <1>7, <1>8, <1>9

LEMMA DeviceStepwise == DeviceInv /\ [DeviceNext]_deviceVars => DeviceInv'
<1> SUFFICES ASSUME DeviceInv, [DeviceNext]_deviceVars PROVE DeviceInv'
  OBVIOUS
<1>1. CASE UNCHANGED deviceVars
  BY <1>1 DEF deviceVars, DeviceInv, DeviceTypeOK, JobsFit, JobFits, OneAtATime, MessagesInTurn,
     StampsFollowReads, CallsCleanUp, HasMutex, HasFile, Writes, Reads, File, Device, Truncating
<1> QED
  BY <1>1, SendDataKeeps, ReceiveDataKeeps, TruncateFileKeeps, EnterKeeps, LockFileKeeps,
     OpenFileKeeps, WritePieceKeeps, ReadAllKeeps, FailKeeps, UnlockKeeps, StampKeeps,
     RestoreKeeps, SetFileNameKeeps
  DEF DeviceNext, DeviceStep

LEMMA InvarianceOfFileDevice == DeviceSpec => []DeviceInv
BY DeviceInitially, DeviceStepwise, PTL DEF DeviceSpec

---------------------------------------------------------------------------
(* The file device: the theorems *)

\* A sequence of pieces that come one after the other and are complete is whole.
LEMMA CompleteIsWhole ==
  ASSUME NEW c \in Seq(Pieces), InTurn(c), Complete(c) PROVE Whole(c)
<1> DEFINE following(i) == IF i = Len(c) THEN [by |-> c[i].by, piece |-> Chunks] ELSE c[i + 1]
<1>1. /\ Len(c) \in Nat /\ (c = <<>> <=> Len(c) = 0)
      /\ \A i \in 1 .. Len(c) : c[i] \in Pieces
  BY EmptySeq, LenProperties, ElementOfSeq
<1>2. ASSUME NEW i \in 1 .. Len(c)
      PROVE  /\ i = 1 => c[i].piece = Chunks
             /\ IF c[i].piece = 1 THEN following(i).piece = Chunks
                ELSE i < Len(c) /\ following(i) = [c[i] EXCEPT !.piece = @ - 1]
  <2>1. i = 1 => c[i].piece = Chunks
    BY <1>1 DEF InTurn
  <2>2. CASE i = Len(c)
    <3>1. c[i].piece = 1
      BY <1>1, <2>2 DEF Complete
    <3> QED
      BY <2>1, <2>2, <3>1
  <2>3. CASE i < Len(c)
    <3>1. Follows(c[i], c[i + 1]) /\ following(i) = c[i + 1] /\ c[i + 1] \in Pieces
      BY <1>1, <2>3 DEF InTurn
    <3>2. CASE c[i].piece = 1
      BY <2>1, <3>1, <3>2 DEF Follows
    <3>3. CASE c[i].piece # 1
      <4>1. c[i + 1].by = c[i].by /\ c[i + 1].piece = c[i].piece - 1
        BY <3>1, <3>3 DEF Follows
      <4>2. c[i + 1] = [c[i] EXCEPT !.piece = @ - 1]
        BY <1>1, <3>1, <4>1 DEF Pieces
      <4> QED
        BY <2>1, <2>3, <3>1, <3>3, <4>2
    <3> QED
      BY <3>2, <3>3
  <2> QED
    BY <1>1, <2>2, <2>3
<1> QED
  BY <1>2 DEF Whole

\* However many threads and devices share the files: until a call fails, a file that nobody
\* writes to holds whole messages, and who writes to one is alone with it.
THEOREM FilesHoldMessages == DeviceSpec => []MessagesStayWhole
<1>1. DeviceInv => MessagesStayWhole
  <2> SUFFICES ASSUME DeviceInv, NEW f \in LockFiles \ spoiled,
                      ~Whole(contents[f])
               PROVE  \E u \in Threads : /\ File(u) = f /\ doing[u] = "working" /\ job[u].op = "send"
                        /\ \A v \in Threads \ {u} : File(v) = f => doing[v] \notin {"working", "closing"}
    BY DEF MessagesStayWhole
  <2>1. ~Complete(contents[f])
    BY CompleteIsWhole DEF DeviceInv, DeviceTypeOK, MessagesInTurn
  <2>2. PICK u \in Threads : File(u) = f /\ Writes(u)
    BY <2>1 DEF DeviceInv, MessagesInTurn
  <2>3. HasFile(u) /\ OneAtATime
    BY <2>2 DEF Writes, HasFile, DeviceInv
  <2>4. \A v \in Threads \ {u} : File(v) = f => ~HasFile(v)
    BY <2>2, <2>3, AloneOnFile
  <2> QED
    BY <2>2, <2>4 DEF Writes, HasFile
<1> QED
  BY <1>1, InvarianceOfFileDevice, PTL

\* A device that does not report a change has read what the file holds, unless the file was
\* changed between the unlocking and the noting of the time.
THEOREM ChangesAreNoticed == DeviceSpec => []UpdatesAreSeen
<1>1. DeviceInv => UpdatesAreSeen
  <2> SUFFICES ASSUME DeviceInv, NEW d \in Lockers \ overtaken, lastUpdate[d] = modified[name[d]]
               PROVE  readAt[d] = lastUpdate[d]
    BY DEF UpdatesAreSeen
  <2>1. ASSUME lastUpdate[d] # readAt[d] PROVE FALSE
    <3>1. PICK u \in Threads : Device(u) = d /\ Reads(u)
      BY <2>1 DEF DeviceInv, StampsFollowReads
    <3>2. readAt[d] = modified[File(u)] /\ File(u) = name[d]
      BY <3>1 DEF DeviceInv, StampsFollowReads, File, Device
    <3> QED
      BY <2>1, <3>2
  <2> QED
    BY <2>1
<1> QED
  BY <1>1, InvarianceOfFileDevice, PTL

\* Without a failure, a device has a lock only during a call and truncates only in one.
THEOREM CallsAreClean == DeviceSpec => []CallsLeaveNothing
<1>1. DeviceInv => CallsLeaveNothing
  <2>1. ASSUME DeviceInv, NEW d \in Lockers, d \notin spoiled, NEW f \in NamesOf[d], owner[f] = d
        PROVE  \E u \in Threads : Device(u) = d /\ HasFile(u)
    <3>1. f \in LockFiles
      BY NamesOfAssumption
    <3> QED
      BY <2>1, <3>1 DEF DeviceInv, CallsCleanUp
  <2>2. ASSUME DeviceInv, NEW d \in Lockers, d \notin spoiled, mode[d] = "over"
        PROVE  \E u \in Threads : Device(u) = d /\ Truncating(u)
    BY <2>2 DEF DeviceInv, CallsCleanUp
  <2> QED
    BY <2>1, <2>2 DEF CallsLeaveNothing, HasFile, Device
<1> QED
  BY <1>1, InvarianceOfFileDevice, PTL

---------------------------------------------------------------------------
(* The process status: the steps, a lemma for each of them *)

LEMMA StatusInitially == StatusInit => StatusInv
<1> SUFFICES ASSUME StatusInit PROVE StatusInv
  OBVIOUS
<1> USE NoOwnerAssumption, StaleAssumption, StatusFileAssumption DEF StatusInit, LocksFree
<1>1. StatusTypeOK
  BY DEF StatusTypeOK
<1>2. LockFollowsState
  BY DEF LockFollowsState
<1>3. StatusStaysHome /\ ServersFit
  BY DEF StatusStaysHome, ServersFit, Controls
<1> QED
  BY <1>1, <1>2, <1>3 DEF StatusInv

LEMMA ConstructIndicatorKeeps ==
  ASSUME StatusInv, NEW i \in Lockers, ConstructIndicator(i) PROVE StatusInv'
<1> USE NoOwnerAssumption, StaleAssumption, StatusFileAssumption
    DEF StatusInv, ConstructIndicator, Turns, TakeLock, GiveLock, DropLocks, Put, CloseServer, Forget, Controls
<1>1. StatusTypeOK'
  BY DEF StatusTypeOK, LockFollowsState, StatusStaysHome
<1>2. LockFollowsState'
  BY DEF StatusTypeOK, LockFollowsState, ServersFit
<1>3. StatusStaysHome'
  BY DEF StatusTypeOK, LockFollowsState, StatusStaysHome
<1>4. ServersFit'
  BY DEF StatusTypeOK, LockFollowsState, ServersFit
<1> QED
  BY <1>1, <1>2, <1>3, <1>4

LEMMA ProbeKeeps ==
  ASSUME StatusInv, NEW i \in Lockers, Probe(i) PROVE StatusInv'
<1> USE NoOwnerAssumption, StaleAssumption, StatusFileAssumption
    DEF StatusInv, Probe, Turns, TakeLock, GiveLock, DropLocks, Put, CloseServer, Forget, Controls
<1>1. StatusTypeOK'
  BY DEF StatusTypeOK, LockFollowsState, StatusStaysHome
<1>2. LockFollowsState'
  BY DEF StatusTypeOK, LockFollowsState, ServersFit
<1>3. StatusStaysHome'
  BY DEF StatusTypeOK, LockFollowsState, StatusStaysHome
<1>4. ServersFit'
  BY DEF StatusTypeOK, LockFollowsState, ServersFit
<1> QED
  BY <1>1, <1>2, <1>3, <1>4

LEMMA EndProbeKeeps ==
  ASSUME StatusInv, NEW i \in Lockers, EndProbe(i) PROVE StatusInv'
<1> USE NoOwnerAssumption, StaleAssumption, StatusFileAssumption
    DEF StatusInv, EndProbe, Turns, TakeLock, GiveLock, DropLocks, Put, CloseServer, Forget, Controls
<1>1. StatusTypeOK'
  BY DEF StatusTypeOK, LockFollowsState, StatusStaysHome
<1>2. LockFollowsState'
  BY DEF StatusTypeOK, LockFollowsState, ServersFit
<1>3. StatusStaysHome'
  BY DEF StatusTypeOK, LockFollowsState, StatusStaysHome
<1>4. ServersFit'
  BY DEF StatusTypeOK, LockFollowsState, ServersFit
<1> QED
  BY <1>1, <1>2, <1>3, <1>4

LEMMA SendMessageKeeps ==
  ASSUME StatusInv, NEW i \in Lockers, SendMessage(i) PROVE StatusInv'
<1> USE NoOwnerAssumption, StaleAssumption, StatusFileAssumption
    DEF StatusInv, SendMessage, Turns, TakeLock, GiveLock, DropLocks, Put, CloseServer, Forget, Controls
<1>1. StatusTypeOK'
  BY DEF StatusTypeOK, LockFollowsState, StatusStaysHome
<1>2. LockFollowsState'
  BY DEF StatusTypeOK, LockFollowsState, ServersFit
<1>3. StatusStaysHome'
  BY DEF StatusTypeOK, LockFollowsState, StatusStaysHome
<1>4. ServersFit'
  BY DEF StatusTypeOK, LockFollowsState, ServersFit
<1> QED
  BY <1>1, <1>2, <1>3, <1>4

LEMMA ConnectKeeps ==
  ASSUME StatusInv, NEW i \in Lockers, Connect(i) PROVE StatusInv'
<1> USE NoOwnerAssumption, StaleAssumption, StatusFileAssumption
    DEF StatusInv, Connect, Turns, TakeLock, GiveLock, DropLocks, Put, CloseServer, Forget, Controls
<1>1. StatusTypeOK'
  BY DEF StatusTypeOK, LockFollowsState, StatusStaysHome
<1>2. LockFollowsState'
  BY DEF StatusTypeOK, LockFollowsState, ServersFit
<1>3. StatusStaysHome'
  BY DEF StatusTypeOK, LockFollowsState, StatusStaysHome
<1>4. ServersFit'
  BY DEF StatusTypeOK, LockFollowsState, ServersFit
<1> QED
  BY <1>1, <1>2, <1>3, <1>4

LEMMA SetStatusKeeps ==
  ASSUME StatusInv, NEW i \in Lockers, NEW s \in {"Normal", "Idle"}, SetStatus(i, s) PROVE StatusInv'
<1> USE NoOwnerAssumption, StaleAssumption, StatusFileAssumption
    DEF StatusInv, SetStatus, Turns, TakeLock, GiveLock, DropLocks, Put, CloseServer, Forget, Controls
<1>1. StatusTypeOK'
  BY DEF StatusTypeOK, LockFollowsState, StatusStaysHome
<1>2. LockFollowsState'
  BY DEF StatusTypeOK, LockFollowsState, ServersFit
<1>3. StatusStaysHome'
  BY DEF StatusTypeOK, LockFollowsState, StatusStaysHome
<1>4. ServersFit'
  BY DEF StatusTypeOK, LockFollowsState, ServersFit
<1> QED
  BY <1>1, <1>2, <1>3, <1>4

LEMMA StartKeeps ==
  ASSUME StatusInv, NEW i \in Lockers, Start(i) PROVE StatusInv'
<1> USE NoOwnerAssumption, StaleAssumption, StatusFileAssumption
    DEF StatusInv, Start, Turns, TakeLock, GiveLock, DropLocks, Put, CloseServer, Forget, Controls
<1>1. StatusTypeOK'
  BY DEF StatusTypeOK, LockFollowsState, StatusStaysHome
<1>2. LockFollowsState'
  BY DEF StatusTypeOK, LockFollowsState, ServersFit
<1>3. StatusStaysHome'
  BY DEF StatusTypeOK, LockFollowsState, StatusStaysHome
<1>4. ServersFit'
  BY DEF StatusTypeOK, LockFollowsState, ServersFit
<1> QED
  BY <1>1, <1>2, <1>3, <1>4

LEMMA AnnounceKeeps ==
  ASSUME StatusInv, NEW i \in Lockers, Announce(i) PROVE StatusInv'
<1> USE NoOwnerAssumption, StaleAssumption, StatusFileAssumption
    DEF StatusInv, Announce, Turns, TakeLock, GiveLock, DropLocks, Put, CloseServer, Forget, Controls
<1>1. StatusTypeOK'
  BY DEF StatusTypeOK, LockFollowsState, StatusStaysHome
<1>2. LockFollowsState'
  BY DEF StatusTypeOK, LockFollowsState, ServersFit
<1>3. StatusStaysHome'
  BY DEF StatusTypeOK, LockFollowsState, StatusStaysHome
<1>4. ServersFit'
  BY DEF StatusTypeOK, LockFollowsState, ServersFit
<1> QED
  BY <1>1, <1>2, <1>3, <1>4

LEMMA StopKeeps ==
  ASSUME StatusInv, NEW i \in Lockers, NEW to \in {"closing", "dying"}, Stop(i, to) PROVE StatusInv'
<1> USE NoOwnerAssumption, StaleAssumption, StatusFileAssumption
    DEF StatusInv, Stop, Turns, TakeLock, GiveLock, DropLocks, Put, CloseServer, Forget, Controls
<1>1. StatusTypeOK'
  BY DEF StatusTypeOK, LockFollowsState, StatusStaysHome
<1>2. LockFollowsState'
  BY DEF StatusTypeOK, LockFollowsState, ServersFit
<1>3. StatusStaysHome'
  BY DEF StatusTypeOK, LockFollowsState, StatusStaysHome
<1>4. ServersFit'
  BY DEF StatusTypeOK, LockFollowsState, ServersFit
<1> QED
  BY <1>1, <1>2, <1>3, <1>4

LEMMA FinishStopKeeps ==
  ASSUME StatusInv, NEW i \in Lockers, FinishStop(i) PROVE StatusInv'
<1> USE NoOwnerAssumption, StaleAssumption, StatusFileAssumption
    DEF StatusInv, FinishStop, Turns, TakeLock, GiveLock, DropLocks, Put, CloseServer, Forget, Controls
<1>1. StatusTypeOK'
  BY DEF StatusTypeOK, LockFollowsState, StatusStaysHome
<1>2. LockFollowsState'
  BY DEF StatusTypeOK, LockFollowsState, ServersFit
<1>3. StatusStaysHome'
  BY DEF StatusTypeOK, LockFollowsState, StatusStaysHome
<1>4. ServersFit'
  BY DEF StatusTypeOK, LockFollowsState, ServersFit
<1> QED
  BY <1>1, <1>2, <1>3, <1>4

LEMMA LeaveKeeps ==
  ASSUME StatusInv, NEW i \in Lockers, Leave(i) PROVE StatusInv'
<1> USE NoOwnerAssumption, StaleAssumption, StatusFileAssumption
    DEF StatusInv, Leave, Turns, TakeLock, GiveLock, DropLocks, Put, CloseServer, Forget, Controls
<1>1. StatusTypeOK'
  BY DEF StatusTypeOK, LockFollowsState, StatusStaysHome
<1>2. LockFollowsState'
  BY DEF StatusTypeOK, LockFollowsState, ServersFit
<1>3. StatusStaysHome'
  BY DEF StatusTypeOK, LockFollowsState, StatusStaysHome
<1>4. ServersFit'
  BY DEF StatusTypeOK, LockFollowsState, ServersFit
<1> QED
  BY <1>1, <1>2, <1>3, <1>4

LEMMA FinishDestroyKeeps ==
  ASSUME StatusInv, NEW i \in Lockers, FinishDestroy(i) PROVE StatusInv'
<1> USE NoOwnerAssumption, StaleAssumption, StatusFileAssumption
    DEF StatusInv, FinishDestroy, Turns, TakeLock, GiveLock, DropLocks, Put, CloseServer, Forget, Controls
<1>1. StatusTypeOK'
  BY DEF StatusTypeOK, LockFollowsState, StatusStaysHome
<1>2. LockFollowsState'
  BY DEF StatusTypeOK, LockFollowsState, ServersFit
<1>3. StatusStaysHome'
  BY DEF StatusTypeOK, LockFollowsState, StatusStaysHome
<1>4. ServersFit'
  BY DEF StatusTypeOK, LockFollowsState, ServersFit
<1> QED
  BY <1>1, <1>2, <1>3, <1>4

LEMMA CrashKeeps ==
  ASSUME StatusInv, NEW i \in Lockers, Crash(i) PROVE StatusInv'
<1> USE NoOwnerAssumption, StaleAssumption, StatusFileAssumption
    DEF StatusInv, Crash, Turns, TakeLock, GiveLock, DropLocks, Put, CloseServer, Forget, Controls
<1>1. StatusTypeOK'
  BY DEF StatusTypeOK, LockFollowsState, StatusStaysHome
<1>2. LockFollowsState'
  BY DEF StatusTypeOK, LockFollowsState, ServersFit
<1>3. StatusStaysHome'
  BY DEF StatusTypeOK, LockFollowsState, StatusStaysHome
<1>4. ServersFit'
  BY DEF StatusTypeOK, LockFollowsState, ServersFit
<1> QED
  BY <1>1, <1>2, <1>3, <1>4

LEMMA StatusStepwise == StatusInv /\ [StatusNext]_statusVars => StatusInv'
<1> SUFFICES ASSUME StatusInv, [StatusNext]_statusVars PROVE StatusInv'
  OBVIOUS
<1>1. CASE UNCHANGED statusVars
  BY <1>1 DEF statusVars, StatusInv, StatusTypeOK, LockFollowsState, StatusStaysHome, ServersFit,
     Controls
<1> QED
  BY <1>1, ConstructIndicatorKeeps, ProbeKeeps, EndProbeKeeps, SendMessageKeeps, ConnectKeeps,
     SetStatusKeeps, StartKeeps, AnnounceKeeps, StopKeeps, FinishStopKeeps, LeaveKeeps,
     FinishDestroyKeeps, CrashKeeps
  DEF StatusNext

\* Whoever starts, stops, asks and crashes, in any number of processes: the status is that of
\* the one that controls and stays in its memory, and one server at most listens, that of
\* this process or of its predecessor.
THEOREM OneProcessControls == StatusSpec => []StatusIsShared
<1>1. StatusSpec => []StatusInv
  BY StatusInitially, StatusStepwise, PTL DEF StatusSpec
<1>2. StatusInv => StatusIsShared
  <2> SUFFICES ASSUME StatusInv PROVE StatusIsShared
    OBVIOUS
  <2>1. ASSUME NEW i \in Lockers, NEW j \in Lockers, server[i] = "listening", Controls(j), i # j
        PROVE  server[j] = "deaf" \/ state[j] = "announcing"
    <3>1. server[j] # "listening"
      BY <2>1 DEF StatusInv, ServersFit
    <3> QED
      BY <2>1, <3>1 DEF StatusInv, ServersFit, StatusTypeOK
  <2> QED
    BY <2>1 DEF StatusInv, ServersFit, StatusIsShared, OneServerListens
<1> QED
  BY <1>1, <1>2, PTL

---------------------------------------------------------------------------
(* The stopwatch: the steps, a lemma for each of them *)

LEMMA WatchInitially == StopwatchInit => WatchInv
<1> SUFFICES ASSUME StopwatchInit PROVE WatchInv
  OBVIOUS
<1> USE DEF StopwatchInit, NewWatch, NoTime
<1>1. WatchTypeOK
  <2>1. watch \in Watches
    BY EmptySeq DEF Watches
  <2>2. told \in BOOLEAN
    BY Zenon
  <2> QED
    BY <2>1, <2>2 DEF WatchTypeOK
<1>2. TimesFit
  BY DEF TimesFit
<1>3. SignalsFit
  BY DEF SignalsFit, Signalling
<1>4. ShowsRunningTime
  BY EmptySeq DEF ShowsRunningTime, Elapsed
<1>5. ListenerIsTold
  BY DEF ListenerIsTold
<1> QED
  BY <1>1, <1>2, <1>3, <1>4, <1>5 DEF WatchInv, StopwatchIsRight

\* The time is noted: the result is a stopwatch again.
LEMMA RefreshedIsWatch ==
  ASSUME NEW w \in Watches, NEW t \in Nat, w.running => w.time <= t
  PROVE  /\ Refreshed(w, t) \in Watches
         /\ Refreshed(w, t).running = w.running /\ Refreshed(w, t).accumulated = w.accumulated
         /\ Refreshed(w, t).start = w.start /\ Refreshed(w, t).stop = w.stop
         /\ Refreshed(w, t).time = w.time /\ Refreshed(w, t).marks = w.marks
         /\ Refreshed(w, t).sinceStart = IF w.running THEN t - w.time ELSE w.sinceStart
BY DEF Watches, Refreshed

\* What is known of a stopwatch.
LEMMA WatchFields ==
  ASSUME WatchInv
  PROVE  /\ watch \in Watches /\ watch.running \in BOOLEAN /\ watch.accumulated \in Nat
         /\ watch.sinceStart \in Nat /\ watch.start \in Nat /\ watch.time \in Nat
         /\ watch.marks \in Seq(Nat) /\ Len(watch.marks) \in Nat
         /\ \A i \in 1 .. Len(watch.marks) : watch.marks[i] \in Nat
         /\ watch.running => watch.time <= now /\ Elapsed(watch) <= ran
         /\ ~watch.running => Elapsed(watch) = ran
         /\ now \in Nat \ {0} /\ ran \in Nat /\ firstStart \in Nat
<1>1. watch \in Watches
  BY DEF WatchInv, WatchTypeOK
<1>2. watch.marks \in Seq(Nat)
  BY <1>1 DEF Watches
<1>3. Len(watch.marks) \in Nat /\ \A i \in 1 .. Len(watch.marks) : watch.marks[i] \in Nat
  BY <1>2, LenProperties, ElementOfSeq
<1> QED
  BY <1>1, <1>2, <1>3 DEF Watches, WatchInv, WatchTypeOK, TimesFit, StopwatchIsRight, ShowsRunningTime

\* Started and stopped, the fields of a stopwatch.
LEMMA StartedIsWatch ==
  ASSUME NEW w \in Watches, ~w.running, now \in Nat
  PROVE  /\ Started(w) \in Watches /\ Started(w).running /\ Started(w).sinceStart = 0
         /\ Started(w).accumulated = w.accumulated + w.sinceStart /\ Started(w).time = now
         /\ Started(w).start = IF w.start = NoTime THEN now ELSE w.start
         /\ Started(w).marks = w.marks
<1> DEFINE s == IF w.start = NoTime THEN now ELSE w.start
<1>1. Started(w) = [w EXCEPT !.accumulated = w.accumulated + w.sinceStart, !.sinceStart = 0,
                             !.time = now, !.start = s, !.running = TRUE]
  BY DEF Started, Watches
<1>2. s \in Nat /\ w.accumulated + w.sinceStart \in Nat
  BY DEF Watches
<1> HIDE DEF s
<1>3. Started(w) \in Watches
  <2>1. PICK r \in Watches : r = [w EXCEPT !.running = TRUE]
    BY DEF Watches
  <2>2. PICK q \in Watches : q = [r EXCEPT !.accumulated = w.accumulated + w.sinceStart,
                                           !.sinceStart = 0]
    BY <1>2 DEF Watches
  <2>3. Started(w) = [q EXCEPT !.time = now, !.start = s]
    BY <1>1, <2>1, <2>2 DEF Watches
  <2> QED
    BY <1>2, <2>3 DEF Watches
<1>4. Started(w).running
  <2>1. Started(w).running = TRUE
    BY <1>1, <1>2 DEF Watches
  <2> QED
    BY <2>1, Zenon
<1>5. /\ Started(w).sinceStart = 0 /\ Started(w).accumulated = w.accumulated + w.sinceStart
      /\ Started(w).time = now
  BY <1>1, <1>2 DEF Watches
<1>6. Started(w).start = s /\ Started(w).marks = w.marks
  BY <1>1, <1>2 DEF Watches
<1> QED
  BY <1>3, <1>4, <1>5, <1>6 DEF s

LEMMA StoppedIsWatch ==
  ASSUME NEW w \in Watches, w.running, now \in Nat, w.time <= now
  PROVE  /\ Stopped(w) \in Watches /\ ~Stopped(w).running
         /\ Stopped(w).sinceStart = now - w.time /\ Stopped(w).accumulated = w.accumulated
         /\ Stopped(w).start = w.start /\ Stopped(w).time = w.time /\ Stopped(w).marks = w.marks
<1>1. PICK r \in Watches : /\ r = Refreshed(w, now) /\ r.sinceStart = now - w.time
                           /\ r.accumulated = w.accumulated /\ r.start = w.start
                           /\ r.time = w.time /\ r.marks = w.marks
  BY RefreshedIsWatch
<1>2. Stopped(w) = [r EXCEPT !.running = FALSE, !.stop = now]
  BY <1>1 DEF Stopped
<1> QED
  BY <1>1, <1>2 DEF Watches

\* The marks after another one.
LEMMA MarksAreKept ==
  ASSUME NEW m \in Seq(Nat), NEW x \in Nat, NEW n \in 0 .. Len(m)
  PROVE  /\ <<x>> \o SubSeq(m, 1, n) \in Seq(Nat) /\ Len(<<x>> \o SubSeq(m, 1, n)) = n + 1
         /\ (<<x>> \o SubSeq(m, 1, n))[1] = x
         /\ \A i \in 2 .. n + 1 : (<<x>> \o SubSeq(m, 1, n))[i] = m[i - 1]
<1>1. Len(m) \in Nat
  BY LenProperties
<1>2. /\ SubSeq(m, 1, n) \in Seq(Nat) /\ Len(SubSeq(m, 1, n)) = n
      /\ \A i \in 1 .. n : SubSeq(m, 1, n)[i] = m[i]
  <2>1. \A i \in 1 .. n : m[i] \in Nat
    BY <1>1, ElementOfSeq
  <2> QED
    BY <1>1, <2>1, SubSeqProperties
<1>3. <<x>> \in Seq(Nat) /\ Len(<<x>>) = 1 /\ <<x>>[1] = x
  OBVIOUS
<1> QED
  BY <1>2, <1>3, ConcatProperties

\* The time goes on.
LEMMA TickKeeps == ASSUME WatchInv, Tick PROVE WatchInv'
<1>1. /\ now' = now + 1 /\ ran' = IF watch.running THEN ran + 1 ELSE ran
      /\ UNCHANGED <<watch, position, seen, told, firstStart, muddled>>
  BY DEF Tick
<1>2. WatchTypeOK'
  BY <1>1 DEF WatchInv, WatchTypeOK
<1>3. TimesFit'
  <2>1. watch.running => watch.accumulated + (now' - watch.time) = ran'
    <3>1. CASE watch.running
      <4>1. watch.accumulated + (now - watch.time) = ran
        BY <3>1 DEF WatchInv, TimesFit
      <4>2. ran' = ran + 1 /\ now' = now + 1
        BY <1>1, <3>1
      <4>3. watch.accumulated \in Nat /\ watch.time \in Nat /\ now \in Nat
        BY WatchFields
      <4> QED
        BY <4>1, <4>2, <4>3
    <3> QED
      BY <3>1
  <2>2. \A u \in Users : position[u] = "reading" =>
          seen[u] \in Nat /\ seen[u] <= now' /\ (watch.running => watch.time <= seen[u])
    BY <1>1, WatchFields DEF WatchInv, WatchTypeOK, TimesFit
  <2>3. /\ watch.start <= now' /\ watch.time <= now' /\ firstStart <= now'
        /\ watch.running => watch.time + watch.sinceStart <= now'
    <3>1. /\ watch.start <= now /\ watch.time <= now /\ firstStart <= now
          /\ watch.running => watch.time + watch.sinceStart <= now
      BY DEF WatchInv, TimesFit
    <3>2. CASE watch.running
      BY <1>1, <3>1, <3>2, WatchFields
    <3>3. CASE ~watch.running
      BY <1>1, <3>1, <3>3, WatchFields
    <3> QED
      BY <3>2, <3>3
  <2> QED
    BY <1>1, <2>1, <2>2, <2>3 DEF WatchInv, TimesFit
<1>4. SignalsFit'
  BY <1>1 DEF WatchInv, SignalsFit, Signalling
<1>5. ShowsRunningTime'
  <2>1. IF watch.running THEN Elapsed(watch) <= ran' ELSE Elapsed(watch) = ran'
    BY <1>1, WatchFields DEF Elapsed
  <2>2. \A i \in 1 .. Len(watch.marks) : watch.marks[i] <= watch.start + ran'
    <3>1. ran' \in Nat /\ ran <= ran'
      BY <1>1, WatchFields
    <3>2. \A i \in 1 .. Len(watch.marks) : watch.marks[i] <= watch.start + ran
      BY DEF WatchInv, StopwatchIsRight, ShowsRunningTime
    <3>3. ASSUME NEW i \in 1 .. Len(watch.marks) PROVE watch.marks[i] <= watch.start + ran'
      <4>1. /\ watch.marks[i] \in Nat /\ watch.marks[i] <= watch.start + ran
            /\ watch.start \in Nat /\ ran \in Nat
        BY <3>2, WatchFields
      <4> QED
        BY <3>1, <4>1
    <3> QED
      BY <3>3
  <2> QED
    BY <1>1, <2>1, <2>2 DEF WatchInv, StopwatchIsRight, ShowsRunningTime, Elapsed
<1>6. ListenerIsTold'
  BY <1>1 DEF WatchInv, StopwatchIsRight, ListenerIsTold
<1> QED
  BY <1>2, <1>3, <1>4, <1>5, <1>6 DEF WatchInv, StopwatchIsRight

\* A signal is on its way; if another one is, they are confused.
LEMMA SignalStarts ==
  ASSUME WatchInv, NEW u \in Users, NEW start \in BOOLEAN, StartStop(u, start)
  PROVE  SignalsFit' /\ ListenerIsTold'
<1> USE DEF WatchInv, WatchTypeOK, StartStop, Moves, Signalling
<1>1. SignalsFit'
  BY DEF SignalsFit
<1>2. ListenerIsTold'
  BY DEF ListenerIsTold
<1> QED
  BY <1>1, <1>2

\* It is started or stopped.
LEMMA StartStopKeeps ==
  ASSUME WatchInv, NEW u \in Users, NEW start \in BOOLEAN, StartStop(u, start)
  PROVE  WatchInv'
<1>1. /\ position[u] = "idle" /\ position' = [position EXCEPT ![u] = "unlocked"]
      /\ \A v \in Users : position[v] # "reading"
      /\ firstStart' = IF start /\ firstStart = NoTime THEN now ELSE firstStart
      /\ muddled \subseteq muddled' /\ ("start" \in muddled' => "start" \in muddled)
      /\ (\E v \in Users : Signalling(v)) => "signal" \in muddled'
      /\ UNCHANGED <<now, seen, told, ran>>
  BY DEF StartStop, Moves, NoReaders, Signalling
<1>2. watch' = watch \/ (start /\ ~watch.running) \/ (~start /\ watch.running)
  BY DEF StartStop, Started, Stopped
<1>3. CASE start /\ ~watch.running
  <2>1. watch' = Started(watch)
    BY <1>3 DEF StartStop
  <2>2. /\ watch' \in Watches /\ watch'.running /\ watch'.sinceStart = 0
        /\ watch'.accumulated = ran /\ watch'.time = now
        /\ watch'.start = (IF watch.start = NoTime THEN now ELSE watch.start)
        /\ watch'.marks = watch.marks
    BY <1>3, <2>1, WatchFields, StartedIsWatch DEF Elapsed
  <2>3. WatchTypeOK'
    BY <1>1, <2>2, WatchFields DEF WatchInv, WatchTypeOK
  <2>4. TimesFit'
    BY <1>1, <1>3, <2>2, WatchFields DEF WatchInv, WatchTypeOK, TimesFit, NoTime
  <2>5. ShowsRunningTime'
    <3>1. Elapsed(watch)' = ran'
      BY <1>1, <2>2, WatchFields DEF Elapsed
    <3>2. \A i \in 1 .. Len(watch.marks) : watch.marks[i] <= watch'.start + ran'
      <4>1. watch'.start \in Nat /\ watch.start <= watch'.start
        BY <2>2, WatchFields DEF NoTime
      <4>2. \A i \in 1 .. Len(watch.marks) : watch.marks[i] <= watch.start + ran
        BY DEF WatchInv, StopwatchIsRight, ShowsRunningTime
      <4>3. ASSUME NEW i \in 1 .. Len(watch.marks) PROVE watch.marks[i] <= watch'.start + ran'
        <5>1. /\ watch.marks[i] \in Nat /\ watch.marks[i] <= watch.start + ran
              /\ watch.start \in Nat /\ ran \in Nat
          BY <4>2, WatchFields
        <5> QED
          BY <1>1, <4>1, <5>1
      <4> QED
        BY <4>3
    <3>3. firstStart' # NoTime => /\ watch'.start <= firstStart'
                                  /\ "start" \notin muddled' => watch'.start = firstStart'
      BY <1>1, <1>3, <2>2, WatchFields
      DEF WatchInv, TimesFit, StopwatchIsRight, ShowsRunningTime, NoTime
    <3>4. \A i \in 1 .. Len(watch.marks) :
            i < Len(watch.marks) => watch.marks[i + 1] <= watch.marks[i]
      BY DEF WatchInv, StopwatchIsRight, ShowsRunningTime
    <3>5. watch'.running /\ Elapsed(watch)' <= ran'
      BY <1>1, <2>2, <3>1, WatchFields
    <3>6. watch'.marks = watch.marks
      BY <2>2
    <3>7. IF watch'.running THEN Elapsed(watch)' <= ran' ELSE Elapsed(watch)' = ran'
      BY <3>5
    <3>8. \A i \in 1 .. Len(watch'.marks) :
            /\ watch'.marks[i] <= watch'.start + ran'
            /\ i < Len(watch'.marks) => watch'.marks[i + 1] <= watch'.marks[i]
      BY <3>2, <3>4, <3>6
    <3> QED
      BY <3>3, <3>7, <3>8, Zenon DEF ShowsRunningTime, Elapsed
  <2> QED
    BY <2>3, <2>4, <2>5, SignalStarts DEF WatchInv, StopwatchIsRight
<1>4. CASE ~start /\ watch.running
  <2>1. watch' = Stopped(watch)
    BY <1>4 DEF StartStop
  <2>2. /\ watch' \in Watches /\ ~watch'.running /\ watch'.sinceStart = now - watch.time
        /\ watch'.accumulated = watch.accumulated /\ watch'.time = watch.time
        /\ watch'.start = watch.start /\ watch'.marks = watch.marks
    BY <1>4, <2>1, WatchFields, StoppedIsWatch
  <2>3. WatchTypeOK'
    BY <1>1, <2>2, WatchFields DEF WatchInv, WatchTypeOK
  <2>4. TimesFit'
    BY <1>1, <1>4, <2>2, WatchFields DEF WatchInv, WatchTypeOK, TimesFit
  <2>5. ShowsRunningTime'
    <3>1. Elapsed(watch)' = ran'
      <4>1. watch.accumulated + (now - watch.time) = ran
        BY <1>4 DEF WatchInv, TimesFit
      <4> QED
        BY <1>1, <2>2, <4>1, WatchFields DEF Elapsed
    <3> QED
      BY <1>1, <1>4, <2>2, <3>1 DEF WatchInv, StopwatchIsRight, ShowsRunningTime
  <2> QED
    BY <2>3, <2>4, <2>5, SignalStarts DEF WatchInv, StopwatchIsRight
<1>5. CASE watch' = watch
  <2>1. start => watch.running \/ watch' # watch
    BY <1>5, WatchFields, StartedIsWatch DEF StartStop
  <2>2. WatchTypeOK'
    BY <1>1, <1>5, WatchFields DEF WatchInv, WatchTypeOK
  <2>3. firstStart' = firstStart
    BY <1>1, <1>5, <2>1 DEF WatchInv, TimesFit
  <2>4. TimesFit'
    BY <1>1, <1>5, <2>3 DEF WatchInv, WatchTypeOK, TimesFit
  <2>5. ShowsRunningTime'
    BY <1>1, <1>5, <2>3 DEF WatchInv, StopwatchIsRight, ShowsRunningTime, Elapsed
  <2> QED
    BY <2>2, <2>4, <2>5, SignalStarts DEF WatchInv, StopwatchIsRight
<1> QED
  BY <1>2, <1>3, <1>4, <1>5

LEMMA ReadFlagKeeps ==
  ASSUME WatchInv, NEW u \in Users, ReadFlag(u) PROVE WatchInv'
<1> USE StopwatchAssumption, WatchFields
    DEF WatchInv, StopwatchIsRight, ReadFlag, Moves, NoReaders, NoTime
<1>1. WatchTypeOK'
  <2>1. watch' \in Watches
    OBVIOUS
  <2>2. told' \in BOOLEAN
    BY Zenon DEF WatchTypeOK
  <2>3. /\ now' \in Nat \ {0} /\ ran' \in Nat /\ firstStart' \in Nat /\ seen' \in [Users -> Nat]
        /\ position' \in [Users -> {"idle", "reading", "unlocked", "emitting"}]
    BY DEF WatchTypeOK
  <2> QED
    BY <2>1, <2>2, <2>3 DEF WatchTypeOK
<1>2. TimesFit'
  BY DEF WatchTypeOK, TimesFit, Refreshed, Started, Stopped, Watches
<1>3. SignalsFit'
  BY DEF WatchTypeOK, SignalsFit, Signalling, Refreshed, Started, Stopped
<1>4. ShowsRunningTime'
  BY DEF WatchTypeOK, TimesFit, ShowsRunningTime, Elapsed, Refreshed, Started, Stopped
<1>5. ListenerIsTold'
  BY DEF WatchTypeOK, SignalsFit, Signalling, ListenerIsTold, Refreshed, Started, Stopped
<1> QED
  BY <1>1, <1>2, <1>3, <1>4, <1>5

LEMMA EmitKeeps ==
  ASSUME WatchInv, NEW u \in Users, Emit(u) PROVE WatchInv'
<1> USE StopwatchAssumption, WatchFields
    DEF WatchInv, StopwatchIsRight, Emit, Moves, NoReaders, NoTime
<1>1. WatchTypeOK'
  <2>1. watch' \in Watches
    OBVIOUS
  <2>2. told' \in BOOLEAN
    BY Zenon DEF WatchTypeOK
  <2>3. /\ now' \in Nat \ {0} /\ ran' \in Nat /\ firstStart' \in Nat /\ seen' \in [Users -> Nat]
        /\ position' \in [Users -> {"idle", "reading", "unlocked", "emitting"}]
    BY DEF WatchTypeOK
  <2> QED
    BY <2>1, <2>2, <2>3 DEF WatchTypeOK
<1>2. TimesFit'
  BY DEF WatchTypeOK, TimesFit, Refreshed, Started, Stopped, Watches
<1>3. SignalsFit'
  BY DEF WatchTypeOK, SignalsFit, Signalling, Refreshed, Started, Stopped
<1>4. ShowsRunningTime'
  BY DEF WatchTypeOK, TimesFit, ShowsRunningTime, Elapsed, Refreshed, Started, Stopped
<1>5. ListenerIsTold'
  BY DEF WatchTypeOK, SignalsFit, Signalling, ListenerIsTold, Refreshed, Started, Stopped
<1> QED
  BY <1>1, <1>2, <1>3, <1>4, <1>5

LEMMA ResetKeeps ==
  ASSUME WatchInv, NEW u \in Users, Reset(u) PROVE WatchInv'
<1> USE StopwatchAssumption, WatchFields
    DEF WatchInv, StopwatchIsRight, Reset, Moves, NoReaders, NoTime
<1>1. WatchTypeOK'
  <2>1. watch' \in Watches
    BY EmptySeq DEF Watches
  <2>2. told' \in BOOLEAN
    BY Zenon DEF WatchTypeOK
  <2>3. /\ now' \in Nat \ {0} /\ ran' \in Nat /\ firstStart' \in Nat /\ seen' \in [Users -> Nat]
        /\ position' \in [Users -> {"idle", "reading", "unlocked", "emitting"}]
    BY DEF WatchTypeOK
  <2> QED
    BY <2>1, <2>2, <2>3 DEF WatchTypeOK
<1>2. TimesFit'
  BY DEF WatchTypeOK, TimesFit, Refreshed, Started, Stopped, Watches
<1>3. SignalsFit'
  BY DEF WatchTypeOK, SignalsFit, Signalling, Refreshed, Started, Stopped
<1>4. ShowsRunningTime'
  BY DEF WatchTypeOK, TimesFit, ShowsRunningTime, Elapsed, Refreshed, Started, Stopped
<1>5. ListenerIsTold'
  BY DEF WatchTypeOK, SignalsFit, Signalling, ListenerIsTold, Refreshed, Started, Stopped
<1> QED
  BY <1>1, <1>2, <1>3, <1>4, <1>5

\* A mark is set.
LEMMA MarkKeeps == ASSUME WatchInv, NEW u \in Users, Mark(u) PROVE WatchInv'
<1> DEFINE w == Refreshed(watch, now)
           x == w.start + w.accumulated + w.sinceStart
           n == IF Len(watch.marks) < MaxMarks THEN Len(watch.marks) ELSE MaxMarks - 1
<1>1. /\ \A v \in Users : position[v] # "reading"
      /\ watch' = [w EXCEPT !.marks = <<TimeCurrent(w)>> \o SubSeq(w.marks, 1,
                       IF Len(w.marks) < MaxMarks THEN Len(w.marks) ELSE MaxMarks - 1)]
      /\ UNCHANGED <<now, position, seen, told, ran, firstStart, muddled>>
  BY DEF Mark, NoReaders
<1>2. /\ w \in Watches /\ w.running = watch.running /\ w.accumulated = watch.accumulated
      /\ w.start = watch.start /\ w.time = watch.time /\ w.marks = watch.marks
      /\ w.sinceStart = (IF watch.running THEN now - watch.time ELSE watch.sinceStart)
  BY WatchFields, RefreshedIsWatch
<1>3. w.accumulated + w.sinceStart = ran /\ x = watch.start + ran
  <2>1. CASE watch.running
    BY <1>2, <2>1, WatchFields DEF WatchInv, TimesFit
  <2>2. CASE ~watch.running
    BY <1>2, <2>2, WatchFields DEF Elapsed
  <2> QED
    BY <2>1, <2>2
<1>4. TimeCurrent(w) = watch.start + ran /\ n \in 0 .. Len(watch.marks)
  <2>1. TimeCurrent(w) = x
    BY <1>2, WatchFields DEF TimeCurrent, Elapsed, Watches
  <2>2. n \in 0 .. Len(watch.marks)
    BY WatchFields, StopwatchAssumption
  <2> QED
    BY <1>3, <2>1, <2>2
<1>5. DEFINE m == <<watch.start + ran>> \o SubSeq(watch.marks, 1, n)
<1>6. watch' = [w EXCEPT !.marks = m]
  BY <1>1, <1>2, <1>4
<1>7. /\ m \in Seq(Nat) /\ Len(m) = n + 1 /\ m[1] = watch.start + ran
      /\ \A i \in 2 .. n + 1 : m[i] = watch.marks[i - 1]
  BY <1>4, WatchFields, MarksAreKept
<1> HIDE DEF m, n, w
<1>8. /\ watch' \in Watches /\ watch'.running = w.running /\ watch'.accumulated = w.accumulated
      /\ watch'.start = w.start /\ watch'.time = w.time /\ watch'.sinceStart = w.sinceStart
      /\ watch'.marks = m
  BY <1>2, <1>6, <1>7 DEF Watches
<1>9. WatchTypeOK'
  BY <1>1, <1>8 DEF WatchInv, WatchTypeOK
<1>10. TimesFit'
  BY <1>1, <1>2, <1>8, WatchFields DEF WatchInv, TimesFit
<1>11. SignalsFit' /\ ListenerIsTold'
  BY <1>1, <1>2, <1>8 DEF WatchInv, StopwatchIsRight, SignalsFit, Signalling, ListenerIsTold
<1>12. ShowsRunningTime'
  <2>1. Elapsed(watch)' = ran'
    BY <1>1, <1>3, <1>8 DEF Elapsed
  <2>2. \A i \in 1 .. Len(watch.marks) :
          /\ watch.marks[i] \in Nat /\ watch.marks[i] <= watch.start + ran
          /\ i < Len(watch.marks) => watch.marks[i + 1] <= watch.marks[i]
    BY WatchFields DEF WatchInv, StopwatchIsRight, ShowsRunningTime
  <2>3. watch.start + ran \in Nat /\ n \in 0 .. Len(watch.marks) /\ Len(watch.marks) \in Nat
    BY <1>4, WatchFields
  <2>4. ASSUME NEW i \in 1 .. Len(m)
        PROVE  m[i] <= watch.start + ran /\ (i < Len(m) => m[i + 1] <= m[i])
    <3>1. CASE i = 1
      <4>1. m[i] = watch.start + ran
        BY <1>7, <3>1
      <4>2. i < Len(m) => m[i + 1] = watch.marks[1] /\ 1 \in 1 .. Len(watch.marks)
        BY <1>7, <2>3, <3>1
      <4> QED
        BY <2>2, <2>3, <4>1, <4>2
    <3>2. CASE i # 1
      <4>1. i \in 2 .. n + 1 /\ i - 1 \in 1 .. Len(watch.marks) /\ n \in Nat
        BY <1>4, <1>7, <3>2, WatchFields
      <4>2. i < Len(m) => i + 1 \in 2 .. n + 1 /\ i - 1 < Len(watch.marks) /\ (i + 1) - 1 = (i - 1) + 1
        BY <1>4, <1>7, <4>1, WatchFields
      <4>3. m[i] = watch.marks[i - 1] /\ (i < Len(m) => m[i + 1] = watch.marks[(i - 1) + 1])
        BY <1>7, <4>1, <4>2
      <4> QED
        BY <2>2, <4>1, <4>2, <4>3
    <3> QED
      BY <3>1, <3>2
  <2> QED
    <3>1. \A i \in 1 .. Len(m) : m[i] <= watch.start + ran /\ (i < Len(m) => m[i + 1] <= m[i])
      BY <2>4
    <3>2. watch'.start = watch.start /\ watch'.marks = m /\ UNCHANGED <<ran, firstStart, muddled>>
      BY <1>1, <1>2, <1>8
    <3>3. firstStart # NoTime => /\ watch.start <= firstStart
                                 /\ "start" \notin muddled => watch.start = firstStart
      BY DEF WatchInv, StopwatchIsRight, ShowsRunningTime
    <3>4. IF watch'.running THEN Elapsed(watch)' <= ran' ELSE Elapsed(watch)' = ran'
      BY <1>1, <2>1, WatchFields
    <3>5. \A i \in 1 .. Len(watch'.marks) :
            /\ watch'.marks[i] <= watch'.start + ran'
            /\ i < Len(watch'.marks) => watch'.marks[i + 1] <= watch'.marks[i]
      BY <3>1, <3>2
    <3>6. firstStart' # NoTime => /\ watch'.start <= firstStart'
                                  /\ "start" \notin muddled' => watch'.start = firstStart'
      BY <3>2, <3>3
    <3> QED
      BY <3>4, <3>5, <3>6, Zenon DEF ShowsRunningTime, Elapsed
<1> QED
  BY <1>9, <1>10, <1>11, <1>12 DEF WatchInv, StopwatchIsRight

LEMMA RefreshKeeps ==
  ASSUME WatchInv, NEW u \in Users, Refresh(u) PROVE WatchInv'
<1> USE StopwatchAssumption, WatchFields
    DEF WatchInv, StopwatchIsRight, Refresh, Moves, NoReaders, NoTime
<1>1. WatchTypeOK'
  <2>1. watch' \in Watches
    BY RefreshedIsWatch
  <2>2. told' \in BOOLEAN
    BY Zenon DEF WatchTypeOK
  <2>3. /\ now' \in Nat \ {0} /\ ran' \in Nat /\ firstStart' \in Nat /\ seen' \in [Users -> Nat]
        /\ position' \in [Users -> {"idle", "reading", "unlocked", "emitting"}]
    BY DEF WatchTypeOK
  <2> QED
    BY <2>1, <2>2, <2>3 DEF WatchTypeOK
<1>2. TimesFit'
  BY DEF WatchTypeOK, TimesFit, Refreshed, Started, Stopped, Watches
<1>3. SignalsFit'
  BY DEF WatchTypeOK, SignalsFit, Signalling, Refreshed, Started, Stopped
<1>4. ShowsRunningTime'
  BY DEF WatchTypeOK, TimesFit, ShowsRunningTime, Elapsed, Refreshed, Started, Stopped
<1>5. ListenerIsTold'
  BY DEF WatchTypeOK, SignalsFit, Signalling, ListenerIsTold, Refreshed, Started, Stopped
<1> QED
  BY <1>1, <1>2, <1>3, <1>4, <1>5

LEMMA ReadClockKeeps ==
  ASSUME WatchInv, NEW u \in Users, ReadClock(u) PROVE WatchInv'
<1> USE StopwatchAssumption, WatchFields
    DEF WatchInv, StopwatchIsRight, ReadClock, Moves, NoReaders, NoTime
<1>1. WatchTypeOK'
  <2>1. watch' \in Watches
    OBVIOUS
  <2>2. told' \in BOOLEAN
    BY Zenon DEF WatchTypeOK
  <2>3. /\ now' \in Nat \ {0} /\ ran' \in Nat /\ firstStart' \in Nat /\ seen' \in [Users -> Nat]
        /\ position' \in [Users -> {"idle", "reading", "unlocked", "emitting"}]
    BY DEF WatchTypeOK
  <2> QED
    BY <2>1, <2>2, <2>3 DEF WatchTypeOK
<1>2. TimesFit'
  BY DEF WatchTypeOK, TimesFit, Refreshed, Started, Stopped, Watches
<1>3. SignalsFit'
  BY DEF WatchTypeOK, SignalsFit, Signalling, Refreshed, Started, Stopped
<1>4. ShowsRunningTime'
  BY DEF WatchTypeOK, TimesFit, ShowsRunningTime, Elapsed, Refreshed, Started, Stopped
<1>5. ListenerIsTold'
  BY DEF WatchTypeOK, SignalsFit, Signalling, ListenerIsTold, Refreshed, Started, Stopped
<1> QED
  BY <1>1, <1>2, <1>3, <1>4, <1>5

LEMMA WriteTimeKeeps ==
  ASSUME WatchInv, NEW u \in Users, WriteTime(u) PROVE WatchInv'
<1> USE StopwatchAssumption, WatchFields
    DEF WatchInv, StopwatchIsRight, WriteTime, Moves, NoReaders, NoTime
<1>1. WatchTypeOK'
  <2>1. watch' \in Watches
    BY RefreshedIsWatch DEF TimesFit, WatchTypeOK
  <2>2. told' \in BOOLEAN
    BY Zenon DEF WatchTypeOK
  <2>3. /\ now' \in Nat \ {0} /\ ran' \in Nat /\ firstStart' \in Nat /\ seen' \in [Users -> Nat]
        /\ position' \in [Users -> {"idle", "reading", "unlocked", "emitting"}]
    BY DEF WatchTypeOK
  <2> QED
    BY <2>1, <2>2, <2>3 DEF WatchTypeOK
<1>2. TimesFit'
  BY DEF WatchTypeOK, TimesFit, Refreshed, Started, Stopped, Watches
<1>3. SignalsFit'
  BY DEF WatchTypeOK, SignalsFit, Signalling, Refreshed, Started, Stopped
<1>4. ShowsRunningTime'
  BY DEF WatchTypeOK, TimesFit, ShowsRunningTime, Elapsed, Refreshed, Started, Stopped
<1>5. ListenerIsTold'
  BY DEF WatchTypeOK, SignalsFit, Signalling, ListenerIsTold, Refreshed, Started, Stopped
<1> QED
  BY <1>1, <1>2, <1>3, <1>4, <1>5

LEMMA WatchStepwise == WatchInv /\ [StopwatchNext]_watchVars => WatchInv'
<1> SUFFICES ASSUME WatchInv, [StopwatchNext]_watchVars PROVE WatchInv'
  OBVIOUS
<1>1. CASE UNCHANGED watchVars
  BY <1>1 DEF watchVars, WatchInv, WatchTypeOK, TimesFit, SignalsFit, Signalling,
     StopwatchIsRight, ShowsRunningTime, ListenerIsTold, Elapsed
<1> QED
  BY <1>1, TickKeeps, StartStopKeeps, ReadFlagKeeps, EmitKeeps, ResetKeeps, MarkKeeps,
     RefreshKeeps, ReadClockKeeps, WriteTimeKeeps
  DEF StopwatchNext

\* With any number of threads and marks: the stopwatch shows the time for which it has run,
\* and its listener knows whether it runs.
THEOREM TheTimeIsRight == StopwatchSpec => []StopwatchIsRight
<1>1. StopwatchSpec => []WatchInv
  BY WatchInitially, WatchStepwise, PTL DEF StopwatchSpec
<1>2. WatchInv => StopwatchIsRight
  BY DEF WatchInv
<1> QED
  BY <1>1, <1>2, PTL

---------------------------------------------------------------------------
(* The data store *)

Versioned(v) == [size : Datas, version : 1 .. v, data : Datas]
Stages       == {"none", "looked", "opened", "open"}
Memories(v)  == [id : 0 .. MaxIds, version : 0 .. v, data : Datas \cup {NoData}]

StoreTypeOK ==
  /\ store = [file |-> store.file, rows |-> store.rows, versions |-> store.versions,
              agent |-> store.agent]
  /\ store.file \in Files /\ store.versions \in Nat
  /\ DOMAIN store.rows \subseteq 1 .. MaxIds
  /\ store.rows \in [DOMAIN store.rows -> Versioned(store.versions)]
  /\ store.agent \in [Agents -> [pc : Stages, existed : BOOLEAN,
                                 knows : Memories(store.versions)]]

\* A version was given once: to one row, with its data, and to one call, which remembers them.
VersionsAreUnique ==
  /\ \A i \in DOMAIN store.rows : store.rows[i].size = store.rows[i].data
  /\ \A i, j \in DOMAIN store.rows : i # j => store.rows[i].version # store.rows[j].version
  /\ \A a \in Agents, i \in DOMAIN store.rows :
       LET k == store.agent[a].knows
       IN  store.rows[i].version = k.version => store.rows[i].data = k.data

TableIsThere ==
  \A a \in Agents :
    store.agent[a].pc = "open" => store.file = "table"

\* With the types: a version that an instance remembers is not one to come.
StoreInv == StoreTypeOK /\ VersionsAreUnique /\ TableIsThere

\* The natural numbers are well-founded.
LEMMA LeastNumber ==
  ASSUME NEW T, T \subseteq Nat, T # {}
  PROVE  \E n \in T : \A m \in T : n <= m
<1> DEFINE R == OpToRel(<, Nat)
<1>1. IsWellFoundedOn(R, Nat)
  BY NatLessThanWellFounded
<1>2. PICK n \in T : \A m \in T : <<m, n>> \notin R
  <2> HIDE DEF R
  <2> QED
    BY <1>1, WFMin
<1>3. \A m \in T : ~(m < n)
  <2> SUFFICES ASSUME NEW m \in T, m < n PROVE FALSE
    OBVIOUS
  <2>1. <<m, n>> \in Nat \X Nat /\ <<m, n>>[1] < <<m, n>>[2]
    OBVIOUS
  <2>2. <<m, n>> \in R
    BY <2>1 DEF OpToRel
  <2> QED
    BY <1>2, <2>2
<1> QED
  BY <1>3

\* A set of numbers below a bound has a largest one.
LEMMA LargestNumber ==
  ASSUME NEW T, NEW b \in Nat, T \subseteq 0 .. b, T # {}
  PROVE  Max(T) \in T
<1> DEFINE D == {n \in Nat : b - n \in T}
<1>1. D \subseteq Nat /\ D # {}
  <2>1. PICK x \in T : x \in 0 .. b
    OBVIOUS
  <2>2. b - x \in Nat /\ b - (b - x) = x
    BY <2>1
  <2> QED
    BY <2>1, <2>2
<1>2. PICK n \in D : \A m \in D : n <= m
  <2> HIDE DEF D
  <2> QED
    BY <1>1, LeastNumber
<1>3. b - n \in T /\ \A y \in T : b - n >= y
  <2>1. \A y \in T : b - y \in Nat /\ b - (b - y) = y /\ y \in Int
    OBVIOUS
  <2>2. \A y \in T : n <= b - y
    BY <1>2, <2>1
  <2> QED
    BY <1>2, <2>1, <2>2
<1> QED
  BY <1>3 DEF Max

\* The rows after a call that gives a new version, to one row at most.
RowGiven(rows, id, data) ==
  /\ DOMAIN rows \subseteq 1 .. MaxIds /\ rows = [i \in DOMAIN rows |-> rows[i]]
  /\ \A i \in DOMAIN rows : \/ i = id /\ rows[i] = Row(store.versions + 1, data)
                            \/ i \in DOMAIN store.rows /\ rows[i] = store.rows[i]

\* A call that gives a new version, remembered with its id and its data.
LEMMA VersionIsGiven ==
  ASSUME StoreInv, NEW a \in Agents, Open(a), NEW id \in 1 .. MaxIds, NEW data \in Datas,
         NEW rows, RowGiven(rows, id, data),
         store' = Remember([store EXCEPT !.rows = rows, !.versions = store.versions + 1],
                           a, id, store.versions + 1, data)
  PROVE  StoreInv'
<1> DEFINE v == store.versions + 1
           k == [id |-> id, version |-> v, data |-> data]
<1> USE DEF RowGiven
<1>1. /\ store.versions \in Nat /\ v \in Nat /\ v > store.versions /\ v > 0
      /\ store.agent \in [Agents -> [pc : Stages, existed : BOOLEAN,
                                     knows : Memories(store.versions)]]
  BY DEF StoreInv, StoreTypeOK
<1>2. /\ store' = [file |-> store.file, rows |-> rows, versions |-> v, agent |-> store'.agent]
      /\ store'.agent = [store.agent EXCEPT ![a] = [@ EXCEPT !.knows = k]]
  BY DEF StoreInv, StoreTypeOK, Remember
<1>3. /\ store'.file = store.file /\ store'.rows = rows /\ store'.versions = v
      /\ store'.agent \in [Agents -> [pc : Stages, existed : BOOLEAN, knows : Memories(v)]]
      /\ \A b \in Agents : /\ store'.agent[b].pc = store.agent[b].pc
                           /\ store'.agent[b].existed = store.agent[b].existed
                           /\ store'.agent[b].knows = IF b = a THEN k ELSE store.agent[b].knows
  <2>1. k \in Memories(v) /\ \A m \in Memories(store.versions) : m \in Memories(v)
    <3>1. 0 .. store.versions \subseteq 0 .. v /\ v \in 0 .. v /\ 1 .. MaxIds \subseteq 0 .. MaxIds
      BY <1>1, DataStoreAssumption
    <3> HIDE DEF v
    <3> QED
      BY <3>1 DEF Memories
  <2>2. PICK pc \in Stages, e \in BOOLEAN, m \in Memories(store.versions) :
             store.agent[a] = [pc |-> pc, existed |-> e, knows |-> m]
    BY <1>1
  <2>3. [store.agent[a] EXCEPT !.knows = k] = [pc |-> pc, existed |-> e, knows |-> k]
    BY <2>2
  <2>4. \A b \in Agents : store'.agent[b] = IF b = a THEN [pc |-> pc, existed |-> e, knows |-> k] ELSE store.agent[b]
    BY <1>1, <1>2, <2>3
  <2>5. store'.file = store.file /\ store'.rows = rows /\ store'.versions = v
    BY <1>2
  <2>6. store'.agent \in [Agents -> [pc : Stages, existed : BOOLEAN, knows : Memories(v)]]
    <3>1. \A b \in Agents : store'.agent[b] \in [pc : Stages, existed : BOOLEAN, knows : Memories(v)]
      BY <1>1, <2>1, <2>4
    <3>2. store'.agent = [b \in Agents |-> store'.agent[b]]
      BY <1>1, <1>2
    <3> QED
      BY <3>1, <3>2
  <2> QED
    BY <2>2, <2>4, <2>5, <2>6
<1>4. \A i \in DOMAIN rows : /\ rows[i] \in Versioned(v) /\ rows[i].size = rows[i].data
                             /\ \/ i = id /\ rows[i].version = v /\ rows[i].data = data
                                \/ /\ i \in DOMAIN store.rows /\ rows[i] = store.rows[i]
                                   /\ rows[i].version < v
  <2>1. \A i \in DOMAIN store.rows : /\ store.rows[i] \in Versioned(store.versions)
                                     /\ store.rows[i].size = store.rows[i].data
    BY DEF StoreInv, StoreTypeOK, VersionsAreUnique
  <2>2. \A r \in Versioned(store.versions) : r \in Versioned(v) /\ r.version < v
    <3>1. \A n \in 1 .. store.versions : n \in 1 .. v /\ n < v
      BY <1>1
    <3> HIDE DEF v
    <3> QED
      BY <3>1 DEF Versioned
  <2>3. Row(v, data) \in Versioned(v) /\ Row(v, data).size = Row(v, data).data
        /\ Row(v, data).version = v /\ Row(v, data).data = data
    BY <1>1 DEF Row, Versioned
  <2> QED
    BY <2>1, <2>2, <2>3
<1>5. StoreTypeOK'
  <2>1. rows \in [DOMAIN rows -> Versioned(v)]
    BY <1>4
  <2> QED
    BY <1>1, <1>2, <1>3, <2>1 DEF StoreInv, StoreTypeOK
<1>6. VersionsAreUnique'
  <2>1. \A i, j \in DOMAIN rows : i # j => rows[i].version # rows[j].version
    BY <1>4, <1>1 DEF StoreInv, VersionsAreUnique
  <2>2. ASSUME NEW b \in Agents, NEW i \in DOMAIN rows, rows[i].version = store'.agent[b].knows.version
        PROVE  rows[i].data = store'.agent[b].knows.data
    <3>1. CASE b = a
      <4>1. rows[i].version = v /\ store'.agent[b].knows.data = data
        BY <1>3, <2>2, <3>1
      <4> HIDE DEF v, k
      <4> QED
        BY <1>1, <1>4, <4>1
    <3>2. CASE b # a
      <4>1. store'.agent[b].knows = store.agent[b].knows /\ store.agent[b].knows.version \in 0 .. store.versions
        BY <1>1, <1>3, <3>2 DEF Memories
      <4>2. i \in DOMAIN store.rows /\ rows[i] = store.rows[i]
        <5>1. rows[i].version # v
          BY <1>1, <2>2, <4>1
        <5> HIDE DEF v, k
        <5> QED
          BY <1>4, <5>1
      <4> QED
        BY <2>2, <4>1, <4>2 DEF StoreInv, VersionsAreUnique
    <3> QED
      BY <3>1, <3>2
  <2> QED
    BY <1>3, <1>4, <2>1, <2>2 DEF VersionsAreUnique
<1>7. TableIsThere'
  BY <1>3 DEF StoreInv, TableIsThere
<1> QED
  BY <1>5, <1>6, <1>7 DEF StoreInv

\* A call after which there are no more rows than before, and nobody remembers anything new.
LEMMA RowsAreTaken ==
  ASSUME StoreInv, NEW rows, DOMAIN rows \subseteq DOMAIN store.rows,
         rows = [i \in DOMAIN rows |-> store.rows[i]],
         store' = [store EXCEPT !.rows = rows]
  PROVE  StoreInv'
<1>1. /\ store' = [file |-> store.file, rows |-> rows, versions |-> store.versions, agent |-> store.agent]
      /\ store'.file = store.file /\ store'.rows = rows /\ store'.versions = store.versions
      /\ store'.agent = store.agent
  BY DEF StoreInv, StoreTypeOK
<1>2. \A i \in DOMAIN rows : i \in DOMAIN store.rows /\ rows[i] = store.rows[i]
  OBVIOUS
<1>3. rows \in [DOMAIN rows -> Versioned(store.versions)]
  BY <1>2 DEF StoreInv, StoreTypeOK
<1>4. StoreTypeOK'
  BY <1>1, <1>3 DEF StoreInv, StoreTypeOK
<1>5. VersionsAreUnique'
  BY <1>1, <1>2 DEF StoreInv, VersionsAreUnique
<1>6. TableIsThere'
  BY <1>1 DEF StoreInv, TableIsThere
<1> QED
  BY <1>4, <1>5, <1>6 DEF StoreInv

\* A step of the constructor or the destructor: an instance is somewhere else, and may have
\* made the file or the table.
LEMMA InstanceMoves ==
  ASSUME StoreInv, NEW a \in Agents, NEW pc \in Stages, NEW e \in BOOLEAN,
         NEW file \in Files, store.file = "table" => file = "table",
         pc = "open" => file = "table",
         NEW k, k \in {store.agent[a].knows, NoKnowledge},
         store' = [file |-> file, rows |-> store.rows, versions |-> store.versions,
                   agent |-> [store.agent EXCEPT ![a] = [pc |-> pc, existed |-> e, knows |-> k]]]
  PROVE  StoreInv'
<1>1. /\ store' = [file |-> file, rows |-> store.rows, versions |-> store.versions, agent |-> store'.agent]
      /\ store'.agent = [store.agent EXCEPT ![a] = [pc |-> pc, existed |-> e, knows |-> k]]
  OBVIOUS
<1>2. /\ store'.file = file /\ store'.rows = store.rows /\ store'.versions = store.versions
      /\ \A b \in Agents : store'.agent[b] = IF b = a THEN [pc |-> pc, existed |-> e, knows |-> k]
                                              ELSE store.agent[b]
  BY <1>1 DEF StoreInv, StoreTypeOK
<1>3. k \in Memories(store.versions)
  <2>1. store.agent[a].knows \in Memories(store.versions) /\ store.versions \in Nat
    BY DEF StoreInv, StoreTypeOK
  <2>2. NoKnowledge \in Memories(store.versions)
    <3>1. 0 \in 0 .. store.versions /\ 0 \in 0 .. MaxIds
      BY <2>1, DataStoreAssumption
    <3> QED
      BY <3>1 DEF NoKnowledge, Memories
  <2> QED
    BY <2>1, <2>2
<1>4. StoreTypeOK'
  BY <1>1, <1>2, <1>3 DEF StoreInv, StoreTypeOK
<1>5. VersionsAreUnique'
  <2>1. ASSUME NEW b \in Agents, NEW i \in DOMAIN store.rows,
               store.rows[i].version = store'.agent[b].knows.version
        PROVE  store.rows[i].data = store'.agent[b].knows.data
    <3>1. store'.agent[b].knows \in {store.agent[b].knows, NoKnowledge}
      BY <1>2
    <3>2. store.rows[i].version # 0
      <4>1. store.rows[i] \in Versioned(store.versions) /\ store.versions \in Nat
        BY DEF StoreInv, StoreTypeOK
      <4>2. \A n \in 1 .. store.versions : n # 0
        BY <4>1
      <4> QED
        BY <4>1, <4>2 DEF Versioned
    <3> QED
      BY <2>1, <3>1, <3>2 DEF StoreInv, VersionsAreUnique, NoKnowledge
  <2> QED
    BY <1>2, <2>1 DEF StoreInv, VersionsAreUnique
<1>6. TableIsThere'
  BY <1>2 DEF StoreInv, TableIsThere
<1> QED
  BY <1>4, <1>5, <1>6 DEF StoreInv

\* The row of an id, and the others.
LEMMA RowAt ==
  ASSUME NEW rows, NEW id, NEW row, NEW i \in DOMAIN WithRowAt(rows, id, row)
  PROVE  (i = id /\ WithRowAt(rows, id, row)[i] = row)
         \/ (i \in DOMAIN rows /\ WithRowAt(rows, id, row)[i] = rows[i])
BY DEF WithRowAt

\* The same for an UPDATE.
LEMMA UpdatedAt ==
  ASSUME NEW rows, NEW id, NEW version, NEW data, NEW i \in DOMAIN Updated(rows, id, version, data)
  PROVE  (i = id /\ Updated(rows, id, version, data)[i] = Row(version, data))
         \/ (i \in DOMAIN rows /\ Updated(rows, id, version, data)[i] = rows[i])
BY DEF Updated

\* The instances share the file and nothing else; each of their calls keeps the invariant.
LEMMA StoreSteps ==
  ASSUME StoreInv, NEW a \in Agents,
         \/ LookForFile(a) \/ OpenDatabase(a) \/ CheckTable(a) \/ CreateTable(a)
         \/ Close(a) \/ ClearData(a)
         \/ \E data \in Datas : AddData(a, data)
         \/ \E id \in 1 .. MaxIds : RemoveData(a, id)
         \/ \E id \in 1 .. MaxIds, data \in Datas : SetData(a, id, data)
  PROVE  StoreInv'
<1>1. /\ store.file \in Files
      /\ store.agent[a] \in [pc : Stages, existed : BOOLEAN, knows : Memories(store.versions)]
      /\ DOMAIN store.rows \subseteq 1 .. MaxIds
      /\ store = [file |-> store.file, rows |-> store.rows, versions |-> store.versions, agent |-> store.agent]
      /\ store.rows = [i \in DOMAIN store.rows |-> store.rows[i]]
      /\ store.agent \in [Agents -> [pc : Stages, existed : BOOLEAN, knows : Memories(store.versions)]]
  BY DEF StoreInv, StoreTypeOK
<1>2. PICK pc \in Stages, e \in BOOLEAN, k \in Memories(store.versions) :
        store.agent[a] = [pc |-> pc, existed |-> e, knows |-> k]
  BY <1>1
<1>3. store.agent[a].pc = pc /\ store.agent[a].existed = e /\ store.agent[a].knows = k
  BY <1>2
<1> DEFINE At(p, x, m) == [store.agent EXCEPT ![a] = [pc |-> p, existed |-> x, knows |-> m]]
           Moved(c, p, x, m) == [file |-> c, rows |-> store.rows, versions |-> store.versions,
                                 agent |-> At(p, x, m)]
<1>4. CASE LookForFile(a)
  <2> DEFINE there == store.file # "none"
  <2>1. [[store.agent EXCEPT ![a].pc = "looked"] EXCEPT ![a].existed = there] = At("looked", there, k)
    BY <1>1, <1>2
  <2>2. store' = [store EXCEPT !.agent = [[@ EXCEPT ![a].pc = "looked"] EXCEPT ![a].existed = there]]
    BY <1>1, <1>4 DEF LookForFile
  <2>3. store' = Moved(store.file, "looked", there, k)
    BY <1>1, <2>1, <2>2
  <2>4. there \in BOOLEAN
    OBVIOUS
  <2> HIDE DEF there
  <2> QED
    BY <1>1, <1>3, <2>3, <2>4, InstanceMoves DEF Stages
<1>5. \A p : [store.agent EXCEPT ![a].pc = p] = At(p, e, k)
  BY <1>1, <1>2
<1>51. CASE OpenDatabase(a)
  <2> DEFINE file == IF store.file = "none" THEN "empty" ELSE store.file
  <2>1. store' = [store EXCEPT !.file = file, !.agent = [@ EXCEPT ![a].pc = "opened"]]
    BY <1>1, <1>51 DEF OpenDatabase
  <2>2. store' = Moved(file, "opened", e, k)
    BY <1>1, <1>5, <2>1
  <2>3. file \in Files /\ (store.file = "table" => file = "table")
    BY <1>1 DEF Files
  <2> HIDE DEF file
  <2> QED
    BY <1>1, <1>3, <2>2, <2>3, InstanceMoves DEF Stages
<1>52. CASE CheckTable(a)
  <2> DEFINE next == IF store.file = "table" THEN "open" ELSE "none"
  <2>1. store' = [store EXCEPT !.agent = [@ EXCEPT ![a].pc = next]]
    BY <1>1, <1>52 DEF CheckTable
  <2>2. store' = Moved(store.file, next, e, k)
    BY <1>1, <1>5, <2>1
  <2>3. next \in Stages /\ (next = "open" => store.file = "table")
    BY DEF Stages
  <2> HIDE DEF next
  <2> QED
    BY <1>1, <1>3, <2>2, <2>3, InstanceMoves
<1>53. CASE CreateTable(a)
  <2> DEFINE next == IF store.file = "table" THEN "none" ELSE "open"
  <2>1. store' = [store EXCEPT !.file = "table", !.agent = [@ EXCEPT ![a].pc = next]]
    BY <1>1, <1>53 DEF CreateTable
  <2>2. store' = Moved("table", next, e, k)
    BY <1>1, <1>5, <2>1
  <2>3. next \in Stages /\ "table" \in Files
    BY DEF Stages, Files
  <2> HIDE DEF next
  <2> QED
    BY <1>1, <1>3, <2>2, <2>3, InstanceMoves
<1>6. CASE Close(a)
  <2>1. [[store.agent EXCEPT ![a].pc = "none"] EXCEPT ![a].knows = NoKnowledge] = At("none", e, NoKnowledge)
    BY <1>1, <1>2
  <2>2. store' = [store EXCEPT !.agent = [[@ EXCEPT ![a].pc = "none"] EXCEPT ![a].knows = NoKnowledge]]
    BY <1>1, <1>6 DEF Close
  <2>3. store' = Moved(store.file, "none", e, NoKnowledge)
    BY <1>1, <2>1, <2>2
  <2> QED
    BY <1>1, <1>3, <2>3, InstanceMoves DEF Stages
<1>7. CASE ClearData(a)
  <2> DEFINE none == [i \in {} |-> Row(0, 0)]
  <2>1. DOMAIN none = {} /\ none = [i \in DOMAIN none |-> store.rows[i]]
    OBVIOUS
  <2>2. store' = [store EXCEPT !.rows = none]
    BY <1>7 DEF ClearData
  <2> QED
    BY <2>1, <2>2, RowsAreTaken
<1>8. ASSUME NEW data \in Datas, AddData(a, data) PROVE StoreInv'
  <2> DEFINE rows == WithRowAt(store.rows, NewId, Row(store.versions + 1, data))
  <2>1. NewId \in 1 .. MaxIds
    <3> DEFINE ids == DOMAIN store.rows \cup {0}
    <3>1. ids \subseteq 0 .. MaxIds /\ ids # {}
      BY <1>1, DataStoreAssumption
    <3>2. Max(ids) \in ids
      <4> HIDE DEF ids
      <4> QED
        BY <3>1, LargestNumber, DataStoreAssumption
    <3>3. NewId = 1 + Max(ids) /\ NewId <= MaxIds
      BY <1>8 DEF NewId, AddData
    <3>4. PICK m \in ids : m = Max(ids)
      BY <3>2
    <3>5. m \in 0 .. MaxIds
      BY <3>1
    <3> QED
      BY <3>3, <3>4, <3>5, DataStoreAssumption
  <2>2. RowGiven(rows, NewId, data)
    <3>1. DOMAIN rows = DOMAIN store.rows \cup {NewId} /\ rows = [i \in DOMAIN rows |-> rows[i]]
      BY DEF WithRowAt
    <3>2. ASSUME NEW i \in DOMAIN rows
          PROVE  \/ i = NewId /\ rows[i] = Row(store.versions + 1, data)
                 \/ i \in DOMAIN store.rows /\ rows[i] = store.rows[i]
      BY RowAt
    <3>3. DOMAIN rows \subseteq 1 .. MaxIds
      BY <1>1, <2>1, <3>1
    <3> HIDE DEF rows
    <3>4. \A i \in DOMAIN rows : \/ i = NewId /\ rows[i] = Row(store.versions + 1, data)
                                 \/ i \in DOMAIN store.rows /\ rows[i] = store.rows[i]
      BY <3>2
    <3> QED
      BY <3>1, <3>3, <3>4 DEF RowGiven
  <2>3. Open(a) /\ store' = Remember([store EXCEPT !.rows = rows, !.versions = store.versions + 1],
                                    a, NewId, store.versions + 1, data)
    BY <1>8 DEF AddData
  <2> HIDE DEF rows
  <2> QED
    BY <2>1, <2>2, <2>3, VersionIsGiven
<1>9. ASSUME NEW id \in 1 .. MaxIds, RemoveData(a, id) PROVE StoreInv'
  <2> DEFINE rows == [i \in DOMAIN store.rows \ {id} |-> store.rows[i]]
  <2>1. DOMAIN rows \subseteq DOMAIN store.rows /\ rows = [i \in DOMAIN rows |-> store.rows[i]]
    OBVIOUS
  <2>2. store' = [store EXCEPT !.rows = rows]
    BY <1>9 DEF RemoveData
  <2> QED
    BY <2>1, <2>2, RowsAreTaken
<1>10. ASSUME NEW id \in 1 .. MaxIds, NEW data \in Datas, SetData(a, id, data) PROVE StoreInv'
  <2> DEFINE rows == Updated(store.rows, id, store.versions + 1, data)
  <2>1. RowGiven(rows, id, data)
    <3>1. DOMAIN rows = DOMAIN store.rows /\ rows = [i \in DOMAIN rows |-> rows[i]]
      BY <1>1 DEF Updated
    <3>2. ASSUME NEW i \in DOMAIN rows
          PROVE  \/ i = id /\ rows[i] = Row(store.versions + 1, data)
                 \/ i \in DOMAIN store.rows /\ rows[i] = store.rows[i]
      BY UpdatedAt
    <3>3. DOMAIN rows \subseteq 1 .. MaxIds
      BY <1>1, <3>1
    <3> HIDE DEF rows
    <3>4. \A i \in DOMAIN rows : \/ i = id /\ rows[i] = Row(store.versions + 1, data)
                                 \/ i \in DOMAIN store.rows /\ rows[i] = store.rows[i]
      BY <3>2
    <3> QED
      BY <3>1, <3>3, <3>4 DEF RowGiven
  <2>2. Open(a) /\ store' = Remember([store EXCEPT !.rows = rows, !.versions = store.versions + 1],
                                    a, id, store.versions + 1, data)
    BY <1>10 DEF SetData
  <2> HIDE DEF rows
  <2> QED
    BY <2>1, <2>2, VersionIsGiven
<1> QED
  BY <1>4, <1>51, <1>52, <1>53, <1>6, <1>7, <1>8, <1>9, <1>10

\* The invariant holds of a file without rows that nobody has opened.
LEMMA StoreStarts == StoreInit => StoreInv
<1> SUFFICES ASSUME StoreInit PROVE StoreInv
  OBVIOUS
<1> DEFINE none  == [i \in {} |-> Row(0, 0)]
           first == [pc |-> "none", existed |-> FALSE, knows |-> NoKnowledge]
<1>1. PICK file \in {"none", "table"} :
        store = [file |-> file, rows |-> none, versions |-> 0, agent |-> [a \in Agents |-> first]]
  BY DEF StoreInit
<1>2. /\ store.file = file /\ store.rows = none /\ store.versions = 0 /\ store.agent = [a \in Agents |-> first]
      /\ DOMAIN none = {}
  BY <1>1
<1>3. NoKnowledge \in Memories(0)
  BY DataStoreAssumption DEF NoKnowledge, Memories
<1>4. first \in [pc : Stages, existed : BOOLEAN, knows : Memories(0)]
  BY <1>3 DEF Stages
<1>5. StoreTypeOK
  <2>1. none \in [{} -> Versioned(0)] /\ file \in Files
    BY DEF Files
  <2> QED
    BY <1>1, <1>2, <1>4, <2>1 DEF StoreTypeOK
<1>6. VersionsAreUnique
  BY <1>2 DEF VersionsAreUnique
<1>7. TableIsThere
  BY <1>2 DEF TableIsThere
<1> QED
  BY <1>5, <1>6, <1>7 DEF StoreInv

\* Whatever the instances do, an instance that remembers a version of an id and finds it again
\* finds the data that it remembers.
THEOREM VersionsAlwaysTell == StoreSpec => []VersionsTell
<1>1. StoreInv /\ [StoreNext]_store => StoreInv'
  <2> SUFFICES ASSUME StoreInv, [StoreNext]_store PROVE StoreInv'
    OBVIOUS
  <2>1. CASE StoreNext
    BY <2>1, StoreSteps DEF StoreNext
  <2>2. CASE UNCHANGED store
    BY <2>2 DEF StoreInv, StoreTypeOK, VersionsAreUnique, TableIsThere
  <2> QED
    BY <2>1, <2>2
<1>2. StoreInv => VersionsTell
  <2> SUFFICES ASSUME StoreInv PROVE VersionsTell
    OBVIOUS
  <2>1. \A a \in Agents : Open(a) => store.file = "table"
    BY DEF StoreInv, TableIsThere, Open
  <2>2. ASSUME NEW a \in Agents, store.agent[a].knows.version # 0,
               GetVersion(store, store.agent[a].knows.id) = store.agent[a].knows.version
        PROVE  GetData(store, store.agent[a].knows.id) = store.agent[a].knows.data
    BY <2>2 DEF StoreInv, VersionsAreUnique, GetVersion, GetData
  <2>3. /\ \A i \in DOMAIN store.rows : GetSize(store, i) = GetData(store, i)
        /\ \A i, j \in DOMAIN store.rows : i # j => GetVersion(store, i) # GetVersion(store, j)
    BY DEF StoreInv, VersionsAreUnique, GetVersion, GetData, GetSize
  <2> QED
    BY <2>1, <2>2, <2>3 DEF VersionsTell
<1> QED
  BY <1>1, <1>2, StoreStarts, PTL DEF StoreSpec

---------------------------------------------------------------------------
(* The fader *)

FadeTyped(f) ==
  /\ DOMAIN f = {"timer", "alpha", "delayCtr", "fadeIn", "duration", "delay", "shown", "parentShown",
                 "ofButton", "asked", "stuck"}
  /\ f.timer \in {"none", "running", "dead"} /\ f.alpha \in Int /\ f.delayCtr \in Int
  /\ f.fadeIn \in BOOLEAN /\ f.duration \in Nat \ {0} /\ f.delay \in Nat
  /\ f.shown \in BOOLEAN /\ f.parentShown \in BOOLEAN
  /\ f.ofButton \in BOOLEAN /\ f.asked \in BOOLEAN /\ f.stuck \in BOOLEAN

\* A fade in whose delay is over has shown the parent; a fade that is over has done what was
\* asked for.
FadeDone(f) ==
  /\ f.timer = "running" /\ f.fadeIn /\ f.delayCtr < 0 => f.parentShown
  /\ f.timer # "running" /\ f.asked /\ ~f.stuck =>
       (f.parentShown <=> f.fadeIn) /\ (f.fadeIn => ~f.shown)

FaderInv == FadeTyped(fader) /\ FadeDone(fader)

\* A request, skipped or not, keeps the invariant.
LEMMA FadeIsRequested ==
  ASSUME NEW f, FadeTyped(f), FadeDone(f), NEW fadeIn \in BOOLEAN, NEW skip \in BOOLEAN
  PROVE  FadeTyped(FadeRequested(f, fadeIn, skip)) /\ FadeDone(FadeRequested(f, fadeIn, skip))
<1> DEFINE g == [f EXCEPT !.fadeIn = fadeIn]
<1>1. FadeTyped(g) /\ g.fadeIn = fadeIn
  BY DEF FadeTyped
<1> HIDE DEF g
<1>2. FadeTyped(FadeSkipped(g)) /\ FadeDone(FadeSkipped(g))
  <2>1. FadeTyped(FadeSkipped(g))
    BY <1>1 DEF FadeTyped, FadeSkipped
  <2>2. FadeDone(FadeSkipped(g))
    BY <1>1 DEF FadeTyped, FadeDone, FadeSkipped
  <2> QED
    BY <2>1, <2>2
<1>3. FadeTyped(FadeStarted(g)) /\ FadeDone(FadeStarted(g))
  <2>1. FadeTyped(FadeStarted(g))
    BY <1>1 DEF FadeTyped, FadeStarted, Opaque
  <2>2. FadeDone(FadeStarted(g))
    BY <1>1 DEF FadeTyped, FadeDone, FadeStarted
  <2> QED
    BY <2>1, <2>2
<1> QED
  BY <1>2, <1>3 DEF FadeRequested, g

\* A timer event does, and brings the end closer.
LEMMA FadeTicks ==
  ASSUME NEW f, FadeTyped(f), FadeDone(f), f.timer = "running"
  PROVE  /\ FadeTyped(Ticked(f)) /\ FadeDone(Ticked(f))
         /\ FadeStep(f) > 0 /\ Ticked(f).timer = "running" => EventsLeft(Ticked(f)) < EventsLeft(f)
<1>0. FadeStep(f) \in Nat
  BY DEF FadeTyped, FadeStep, Opaque, Resolution
<1>1. CASE f.delayCtr > 0
  <2> DEFINE d == Greater(f.delayCtr - Resolution, 0)
  <2>1. Ticked(f) = [f EXCEPT !.delayCtr = d]
    BY <1>1 DEF Ticked
  <2>2. d \in Nat /\ d < f.delayCtr
    BY <1>1 DEF Greater, Resolution, FadeTyped
  <2> QED
    BY <1>1, <2>1, <2>2 DEF FadeTyped, FadeDone, EventsLeft, Greater, Opaque
<1>2. CASE ~(f.delayCtr > 0)
  <2> DEFINE alpha == IF f.fadeIn THEN Greater(f.alpha - FadeStep(f), 0)
                      ELSE Lesser(f.alpha + FadeStep(f), Opaque)
             done  == alpha = IF f.fadeIn THEN 0 ELSE Opaque
             g     == Ticked(f)
  <2>1. /\ DOMAIN g = DOMAIN f /\ g.alpha = alpha /\ g.delayCtr = -1 /\ g.fadeIn = f.fadeIn
        /\ g.timer = (IF done THEN "dead" ELSE "running")
        /\ g.duration = f.duration /\ g.delay = f.delay /\ g.asked = f.asked /\ g.stuck = f.stuck
        /\ g.ofButton = f.ofButton
        /\ g.shown = IF done /\ f.fadeIn THEN FALSE ELSE f.shown
        /\ g.parentShown = IF f.fadeIn THEN f.parentShown \/ f.delayCtr = 0 ELSE f.parentShown /\ ~done
    BY <1>2 DEF Ticked, Faded, FadeTyped
  <2>2. alpha \in Int /\ (~done => IF f.fadeIn THEN alpha = f.alpha - FadeStep(f) ELSE alpha = f.alpha + FadeStep(f))
    BY <1>0 DEF Greater, Lesser, FadeTyped, Opaque
  <2> HIDE DEF alpha, g
  <2>3. FadeTyped(g)
    <3>1. g.parentShown \in BOOLEAN
      BY <2>1, Zenon DEF FadeTyped
    <3>2. g.timer \in {"none", "running", "dead"} /\ g.shown \in BOOLEAN
      BY <2>1 DEF FadeTyped
    <3>3. g.delayCtr \in Int /\ g.alpha \in Int
      BY <2>1, <2>2
    <3> QED
      BY <2>1, <3>1, <3>2, <3>3 DEF FadeTyped
  <2>4. FadeDone(g)
    BY <1>2, <2>1, <2>2 DEF FadeTyped, FadeDone
  <2>5. FadeStep(f) > 0 /\ g.timer = "running" => EventsLeft(g) < EventsLeft(f)
    BY <1>0, <1>2, <2>1, <2>2 DEF FadeTyped, EventsLeft, Greater, Opaque
  <2> QED
    BY <2>3, <2>4, <2>5 DEF g
<1> QED
  BY <1>1, <1>2

\* Every timer event brings the end of the fade closer, and a fade that is over has done what
\* was asked for, unless no timer will carry it out.
THEOREM EveryFadeEnds == FaderSpec => []FadesEnd
<1>1. FaderInit => FaderInv
  <2> SUFFICES ASSUME NEW duration \in FadeDurations, NEW delay \in FadeDelays, NEW ofButton \in BOOLEAN
               PROVE  FadeTyped(NewFader(duration, delay, ofButton)) /\ FadeDone(NewFader(duration, delay, ofButton))
    BY DEF FaderInit, FaderInv
  <2> QED
    BY TimersAssumption DEF FadeTyped, FadeDone, NewFader
<1>2. FaderInv /\ [FaderNext]_fader => FaderInv'
  <2> SUFFICES ASSUME FaderInv, [FaderNext]_fader PROVE FadeTyped(fader') /\ FadeDone(fader')
    BY DEF FaderInv
  <2>1. ASSUME NEW fadeIn \in BOOLEAN, NEW skip \in BOOLEAN, fader' = FadeRequested(fader, fadeIn, skip)
        PROVE  FadeTyped(fader') /\ FadeDone(fader')
    BY <2>1, FadeIsRequested DEF FaderInv
  <2>2. CASE fader.timer = "running" /\ fader' = Ticked(fader)
    BY <2>2, FadeTicks DEF FaderInv
  <2>3. CASE UNCHANGED fader
    BY <2>3 DEF FaderInv
  <2> QED
    BY <2>1, <2>2, <2>3 DEF FaderNext, ShowButton, HideButton
<1>3. FaderInv => FadesEnd
  BY FadeTicks, Zenon DEF FaderInv, FadeDone, FadeTyped, FadesEnd
<1> QED
  BY <1>1, <1>2, <1>3, PTL DEF FaderSpec

---------------------------------------------------------------------------
(* The port watcher *)

WatcherTypeOK ==
  watcher \in [watching : BOOLEAN, ports : SUBSET Ports, plugged : SUBSET Ports,
               emitting : BOOLEAN, notified : BOOLEAN, known : SUBSET Ports]

\* Between any two steps of the watcher, its list is known, or whoever asks for it will be told.
THEOREM PortsAreAlwaysKnown == WatcherSpec => []PortsAreKnown
<1>1. WatcherInit => WatcherTypeOK /\ PortsAreKnown
  BY DEF WatcherInit, WatcherTypeOK, PortsAreKnown
<1>2. WatcherTypeOK /\ PortsAreKnown /\ [WatcherNext]_watcher => (WatcherTypeOK /\ PortsAreKnown)'
  <2> SUFFICES ASSUME WatcherTypeOK, PortsAreKnown, [WatcherNext]_watcher
               PROVE  WatcherTypeOK' /\ PortsAreKnown'
    OBVIOUS
  <2> USE DEF WatcherTypeOK, PortsAreKnown
  <2>1. CASE StartWatching
    BY <2>1 DEF StartWatching
  <2>2. CASE StopWatching
    BY <2>2 DEF StopWatching
  <2>3. CASE LookForPorts
    BY <2>3 DEF LookForPorts
  <2>4. CASE EmitChanged
    BY <2>4 DEF EmitChanged
  <2>5. CASE GetAvailablePorts
    BY <2>5 DEF GetAvailablePorts
  <2>6. CASE Plug
    BY <2>6 DEF Plug
  <2>7. CASE UNCHANGED watcher
    BY <2>7
  <2> QED
    BY <2>1, <2>2, <2>3, <2>4, <2>5, <2>6, <2>7 DEF WatcherNext
<1> QED
  BY <1>1, <1>2, PTL DEF WatcherSpec

\* Every timer that runs by itself or next to the others does what it does alone: fades end as
\* they were requested, ports that change are told, and the stopwatch shows the time it ran.
THEOREM TimersStayRight == TimersSpec => []TimersAreRight
<1>1. TimersInit => FaderInit /\ WatcherInit /\ StopwatchInit
  BY DEF TimersInit
<1>2. [TimersNext]_<<timerVars, watchVars>> => [FaderNext]_fader
  BY DEF TimersNext, timerVars
<1>3. [TimersNext]_<<timerVars, watchVars>> => [WatcherNext]_watcher
  BY DEF TimersNext, timerVars
<1>4. [TimersNext]_<<timerVars, watchVars>> => [StopwatchNext]_watchVars
  BY DEF TimersNext, timerVars, watchVars
<1>5. TimersSpec => FaderSpec
  BY <1>1, <1>2, PTL DEF TimersSpec, FaderSpec
<1>6. TimersSpec => WatcherSpec
  BY <1>1, <1>3, PTL DEF TimersSpec, WatcherSpec
<1>7. TimersSpec => StopwatchSpec
  BY <1>1, <1>4, PTL DEF TimersSpec, StopwatchSpec
<1>8. StopwatchIsRight /\ FadesEnd /\ PortsAreKnown => TimersAreRight
  BY DEF TimersAreRight
<1> QED
  BY <1>5, <1>6, <1>7, <1>8, TheTimeIsRight, EveryFadeEnds, PortsAreAlwaysKnown, PTL

---------------------------------------------------------------------------
(* The console device: lines go out and come in in order, whoever is destroyed when, and  *)
(* what the user is told is true.                                                         *)

\* The numbers that follow k.
Consecutive(s, k) == \A i \in 1 .. Len(s) : s[i] = k + i

\* The lines written, the one in hand and those queued are numbered in this order.
OutIsInOrder ==
  /\ Consecutive(console, 0)
  /\ Consecutive(send_queue, send_count - Len(send_queue))
  /\ Len(console) + (IF sender = "writing" THEN 1 ELSE 0) + Len(send_queue) = send_count
  /\ sender = "writing" => inHand = Len(console) + 1
  /\ sender = "written" => inHand = Len(console)
  /\ sender # "starting" => sent_id <= Len(console)
  /\ claimed <= Len(console)

\* The lines read, those queued and the one that the receiver has are the lines typed.
InIsInOrder ==
  /\ Consecutive(receive_queue, read)
  /\ receiver = "reading" => typed = read + Len(receive_queue)
  /\ receiver = "line" => typed = read + Len(receive_queue) + 1
  /\ read + Len(receive_queue) <= typed
  /\ user = "heard" => receive_queue # <<>>
  /\ user = "listening" => receive_queue = <<>>

\* Between two instances nothing runs and nothing is queued; the sender stops only when it
\* has been cancelled and has flushed its queue.
ThreadsFollowInstance ==
  /\ user \in {"none", "joining"} => receiver = "stopped" /\ receive_queue = <<>>
  /\ user = "none" => sender = "stopped"
  /\ sender = "stopped" =>
       send_queue = <<>> /\ ~cancel_send /\ user \in {"none", "cancelled", "killing", "joining"}
  /\ cancel_send => user \in {"cancelled", "killing", "joining"}

IInv == TypeOK /\ OutIsInOrder /\ InIsInOrder /\ ThreadsFollowInstance

---------------------------------------------------------------------------
(* Consecutive numbers *)

\* The next number is appended, the first is taken off.
LEMMA ConsecutiveSteps ==
  ASSUME NEW S, NEW s \in Seq(S), NEW k \in Int, Consecutive(s, k)
  PROVE  /\ Len(s) \in Nat
         /\ \A e \in S : /\ Append(s, e) \in Seq(S) /\ Len(Append(s, e)) = Len(s) + 1
                         /\ Append(s, e) # <<>>
                         /\ e = k + Len(s) + 1 => Consecutive(Append(s, e), k)
         /\ s # <<>> => /\ Head(s) \in S /\ Head(s) = k + 1 /\ Tail(s) \in Seq(S)
                        /\ Len(s) > 0 /\ Len(Tail(s)) = Len(s) - 1
                        /\ Consecutive(Tail(s), k + 1)
<1>1. Len(s) \in Nat
  BY LenProperties
<1>2. ASSUME NEW e \in S
      PROVE  /\ Append(s, e) \in Seq(S) /\ Len(Append(s, e)) = Len(s) + 1
             /\ Append(s, e) # <<>>
             /\ e = k + Len(s) + 1 => Consecutive(Append(s, e), k)
  <2>1. /\ Append(s, e) \in Seq(S) /\ Len(Append(s, e)) = Len(s) + 1 /\ Append(s, e) # <<>>
        /\ \A i \in 1 .. Len(s) : Append(s, e)[i] = s[i]
        /\ Append(s, e)[Len(s) + 1] = e
    BY AppendProperties
  <2> QED
    BY <1>1, <2>1 DEF Consecutive
<1>3. ASSUME s # <<>>
      PROVE  /\ Head(s) \in S /\ Head(s) = k + 1 /\ Tail(s) \in Seq(S)
             /\ Len(s) > 0 /\ Len(Tail(s)) = Len(s) - 1
             /\ Consecutive(Tail(s), k + 1)
  <2>1. /\ Head(s) \in S /\ Tail(s) \in Seq(S) /\ Len(Tail(s)) = Len(s) - 1
        /\ \A i \in 1 .. Len(Tail(s)) : Tail(s)[i] = s[i + 1]
    BY <1>3, HeadTailProperties
  <2>2. Len(s) > 0 /\ Head(s) = s[1]
    BY <1>1, <1>3, EmptySeq
  <2> QED
    BY <1>1, <2>1, <2>2 DEF Consecutive
<1> QED
  BY <1>1, <1>2, <1>3

\* Put together they are the numbers that follow k.
LEMMA ConsecutiveConcat ==
  ASSUME NEW s \in Seq(Nat), NEW t \in Seq(Nat), NEW k \in Nat,
         Consecutive(s, k), Consecutive(t, k + Len(s))
  PROVE  /\ s \o t \in Seq(Nat) /\ Len(s \o t) = Len(s) + Len(t)
         /\ Consecutive(s \o t, k)
<1>1. Len(s) \in Nat /\ Len(t) \in Nat
  BY LenProperties
<1>2. /\ s \o t \in Seq(Nat) /\ Len(s \o t) = Len(s) + Len(t)
      /\ \A i \in 1 .. Len(s) + Len(t) :
           (s \o t)[i] = IF i <= Len(s) THEN s[i] ELSE t[i - Len(s)]
  BY ConcatProperties
<1> QED
  BY <1>1, <1>2 DEF Consecutive

\* Numbers that follow k are those that follow k.
LEMMA ConsecutiveIs ==
  ASSUME NEW s \in Seq(Nat), NEW k \in Nat, Consecutive(s, k)
  PROVE  s = [i \in 1 .. Len(s) |-> k + i]
BY LenProperties DEF Consecutive

---------------------------------------------------------------------------
(* The invariant *)

\* The sequences of a device, and what is appended to them and taken off.
LEMMA Queues ==
  ASSUME IInv
  PROVE  /\ send_queue \in Seq(Lines) /\ console \in Seq(Lines)
         /\ receive_queue \in Seq(1 .. MaxTyped)
         /\ Len(send_queue) \in Nat /\ Len(console) \in Nat /\ Len(receive_queue) \in Nat
         /\ send_count - Len(send_queue) \in Int /\ read \in Int
BY LenProperties DEF IInv, TypeOK

LEMMA Initially == Init => IInv
<1> SUFFICES ASSUME Init PROVE IInv
  OBVIOUS
<1> USE BoundsAssumption DEF Init
<1>1. \A S : <<>> \in Seq(S) /\ Len(<<>>) = 0
  BY EmptySeq
<1>2. TypeOK
  <2>1. cancel_send \in BOOLEAN
    BY Zenon
  <2> QED
    BY <1>1, <2>1 DEF TypeOK, Lines
<1>3. OutIsInOrder /\ InIsInOrder /\ ThreadsFollowInstance
  BY <1>1 DEF OutIsInOrder, InIsInOrder, ThreadsFollowInstance, Consecutive
<1> QED
  BY <1>2, <1>3 DEF IInv

\* The sender goes on, with the last line that it recorded.
LEMMA GoOnKeeps ==
  ASSUME IInv, GoOn, sender \in {"starting", "awake", "written"},
         user' = user \/ (user = "blocked" /\ user' = "retest"),
         sent_id' \in 0 .. MaxLines, sent_id' <= Len(console),
         UNCHANGED <<send_count, awaited, console, claimed, inVars>>
  PROVE  IInv'
<1> USE DEF IInv, inVars
<1>1. /\ Len(send_queue) \in Nat /\ Len(console) \in Nat
      /\ send_queue # <<>> => /\ Head(send_queue) \in Lines
                              /\ Head(send_queue) = send_count - Len(send_queue) + 1
                              /\ Tail(send_queue) \in Seq(Lines)
                              /\ Len(send_queue) > 0 /\ Len(Tail(send_queue)) = Len(send_queue) - 1
                              /\ Consecutive(Tail(send_queue), send_count - Len(send_queue) + 1)
  BY Queues, ConsecutiveSteps DEF OutIsInOrder
<1>2. TypeOK'
  <2>1. cancel_send' \in BOOLEAN
    BY Zenon DEF TypeOK, GoOn
  <2>2. user' \in {"none", "idle", "blocked", "retest", "listening", "heard",
                   "cancelled", "killing", "joining"}
        /\ (awaited' # 0 <=> user' \in {"blocked", "retest"}) /\ awaited' \in 0 .. MaxLines
    BY DEF TypeOK
  <2>3. /\ sender' \in {"stopped", "asleep", "writing"} /\ send_queue' \in Seq(Lines)
        /\ inHand' \in 0 .. MaxLines /\ (inHand' # 0 <=> sender' = "writing")
    <3>1. CASE send_queue # <<>>
      <4>1. Head(send_queue) \in 0 .. MaxLines /\ Head(send_queue) # 0
        BY <1>1, <3>1, BoundsAssumption DEF Lines
      <4> QED
        BY <1>1, <3>1, <4>1 DEF GoOn
    <3>2. CASE send_queue = <<>>
      <4>1. sender' \in {"asleep", "stopped"} /\ inHand' = 0 /\ send_queue' = send_queue
        BY <3>2 DEF GoOn
      <4> QED
        BY <4>1, BoundsAssumption DEF TypeOK
    <3> QED
      BY <3>1, <3>2
  <2> QED
    BY <2>1, <2>2, <2>3 DEF TypeOK
<1>3. OutIsInOrder'
  <2>1. CASE send_queue # <<>>
    <3>1. /\ sender' = "writing" /\ inHand' = Head(send_queue) /\ send_queue' = Tail(send_queue)
      BY <2>1 DEF GoOn
    <3>2. send_count' - Len(send_queue') = send_count - Len(send_queue) + 1
      BY <1>1, <2>1, <3>1 DEF TypeOK
    <3>3. Consecutive(send_queue', send_count' - Len(send_queue'))
      BY <1>1, <2>1, <3>1, <3>2
    <3>4. inHand' = Len(console) + 1 /\ Len(console) + 1 + Len(send_queue') = send_count
      <4>1. Len(console) + 0 + Len(send_queue) = send_count
        BY DEF OutIsInOrder
      <4>2. send_count \in Nat
        BY BoundsAssumption DEF TypeOK
      <4> QED
        BY <1>1, <2>1, <3>1, <4>1, <4>2
    <3> QED
      BY <3>1, <3>3, <3>4 DEF OutIsInOrder
  <2>2. CASE send_queue = <<>>
    BY <1>1, <2>2 DEF GoOn, TypeOK, OutIsInOrder
  <2> QED
    BY <2>1, <2>2
<1>4. InIsInOrder'
  BY DEF InIsInOrder
<1>5. ThreadsFollowInstance'
  BY DEF ThreadsFollowInstance, GoOn
<1> QED
  BY <1>2, <1>3, <1>4, <1>5

\* The user is told of a line, or waits for it.
LEMMA WaitKeeps ==
  ASSUME IInv, NEW id \in 1 .. MaxLines, WaitForId(id),
         user \in {"idle", "retest"},
         UNCHANGED <<sender, send_count, send_queue, sent_id, cancel_send, inHand, console, inVars>>
  PROVE  IInv'
<1> USE DEF IInv, inVars
<1>1. /\ user' \in {"blocked", "idle"} /\ awaited' \in 0 .. MaxLines
      /\ awaited' # 0 <=> user' = "blocked"
      /\ claimed' \in 0 .. MaxLines /\ claimed' <= Len(console)
  <2>1. CASE sent_id < id
    BY <2>1, Queues DEF WaitForId, OutIsInOrder, TypeOK
  <2>2. CASE ~(sent_id < id)
    <3>1. user' = "idle" /\ awaited' = 0 /\ claimed' = IF sender = "starting" THEN claimed ELSE id
      BY <2>2 DEF WaitForId, Report
    <3>2. id <= sent_id
      BY <2>2 DEF TypeOK
    <3>3. claimed \in 0 .. MaxLines /\ claimed <= Len(console)
      BY DEF TypeOK, OutIsInOrder
    <3>4. sender # "starting" => id <= Len(console)
      BY <3>2, Queues DEF OutIsInOrder, TypeOK
    <3> QED
      <4>1. CASE sender = "starting"
        BY <3>1, <3>3, <4>1, BoundsAssumption
      <4>2. CASE sender # "starting"
        BY <3>1, <3>4, <4>2, BoundsAssumption
      <4> QED
        BY <4>1, <4>2
  <2> QED
    BY <2>1, <2>2
<1>2. TypeOK'
  BY <1>1 DEF TypeOK
<1>3. OutIsInOrder'
  BY <1>1 DEF OutIsInOrder
<1>4. InIsInOrder'
  BY <1>1 DEF InIsInOrder
<1>5. ThreadsFollowInstance'
  BY <1>1 DEF ThreadsFollowInstance
<1> QED
  BY <1>2, <1>3, <1>4, <1>5

\* Steps of the user that only move the user, in ways that the threads do not notice.
LEMMA UserMoves ==
  ASSUME IInv, UNCHANGED <<inVars, outVars>>,
         \/ user = "idle" /\ user' = "listening" /\ receive_queue = <<>>
         \/ user \in {"heard", "listening"} /\ user' = "idle"
         \/ user = "joining" /\ user' = "none" /\ sender = "stopped"
  PROVE  IInv'
<1> USE DEF IInv, inVars, outVars
<1>1. TypeOK'
  BY DEF TypeOK
<1>2. OutIsInOrder'
  BY DEF OutIsInOrder
<1>3. InIsInOrder' /\ ThreadsFollowInstance'
  BY DEF InIsInOrder, ThreadsFollowInstance
<1> QED
  BY <1>1, <1>2, <1>3

\* A line is queued.
LEMMA WriteKeeps == ASSUME IInv, NEW async \in BOOLEAN, WriteLine(async) PROVE IInv'
<1> USE DEF IInv, inVars
<1> DEFINE id == send_count + 1
<1>1. /\ user = "idle" /\ id \in 1 .. MaxLines /\ send_count' = id
      /\ send_queue' = Append(send_queue, id)
      /\ sender' \in {sender, "awake"} /\ (sender' # sender => sender = "asleep")
      /\ UNCHANGED <<sent_id, cancel_send, inHand, console, receiver, receive_queue, typed, read>>
  BY BoundsAssumption DEF WriteLine, WakeSender, TypeOK
<1>2. /\ Len(send_queue) \in Nat /\ Len(console) \in Nat /\ send_queue' \in Seq(Lines)
      /\ Len(send_queue') = Len(send_queue) + 1
      /\ Consecutive(send_queue', send_count - Len(send_queue))
  <2>1. /\ send_queue \in Seq(Lines) /\ send_count - Len(send_queue) \in Int
        /\ Consecutive(send_queue, send_count - Len(send_queue))
    BY Queues DEF OutIsInOrder
  <2>2. id \in Lines /\ id = send_count - Len(send_queue) + Len(send_queue) + 1
    BY <1>1, Queues DEF Lines, TypeOK
  <2> QED
    BY <1>1, <2>1, <2>2, Queues, ConsecutiveSteps
<1>3. /\ user' \in {"blocked", "idle"} /\ awaited' \in 0 .. MaxLines
      /\ awaited' # 0 <=> user' = "blocked"
      /\ claimed' \in 0 .. MaxLines /\ claimed' <= Len(console)
  <2>1. CASE async
    BY <1>1, <1>2, <2>1 DEF WriteLine, TypeOK, OutIsInOrder
  <2>2. CASE ~async
    <3>1. WaitForId(id)
      BY <1>1, <2>2 DEF WriteLine
    <3>2. /\ claimed \in 0 .. MaxLines /\ claimed <= Len(console)
          /\ sent_id \in Nat /\ (sender # "starting" => sent_id <= Len(console))
      BY BoundsAssumption DEF TypeOK, OutIsInOrder
    <3>3. CASE sent_id < id
      BY <1>1, <3>1, <3>2, <3>3 DEF WaitForId
    <3>4. CASE ~(sent_id < id)
      <4>1. /\ user' = "idle" /\ awaited' = 0
            /\ claimed' = IF sender = "starting" THEN claimed ELSE id
        BY <3>1, <3>4 DEF WaitForId, Report
      <4>2. CASE sender = "starting"
        BY <3>2, <4>1, <4>2, BoundsAssumption
      <4>3. CASE sender # "starting"
        <5>1. id <= Len(console)
          BY <1>1, <1>2, <3>2, <3>4, <4>3
        <5> QED
          BY <1>1, <4>1, <4>3, <5>1, BoundsAssumption
      <4> QED
        BY <4>2, <4>3
    <3> QED
      BY <3>3, <3>4
  <2> QED
    BY <2>1, <2>2
<1>4. TypeOK'
  BY <1>1, <1>2, <1>3 DEF TypeOK
<1>5. OutIsInOrder'
  <2>1. send_count' - Len(send_queue') = send_count - Len(send_queue)
    BY <1>1, <1>2 DEF TypeOK
  <2>2. Consecutive(send_queue', send_count' - Len(send_queue'))
    BY <1>2, <2>1
  <2>3. sender' = "writing" <=> sender = "writing"
    BY <1>1
  <2>4. Len(console) + (IF sender' = "writing" THEN 1 ELSE 0) + Len(send_queue') = send_count'
    <3>1. Len(console) + (IF sender = "writing" THEN 1 ELSE 0) + Len(send_queue) = send_count
      BY DEF OutIsInOrder
    <3>2. CASE sender = "writing"
      BY <1>1, <1>2, <2>3, <3>1, <3>2
    <3>3. CASE sender # "writing"
      <4>1. Len(console) + Len(send_queue) = send_count
        BY <1>2, <3>1, <3>3
      <4>2. Len(console) + 0 + Len(send_queue') = send_count'
        BY <1>1, <1>2, <4>1
      <4> QED
        BY <2>3, <3>3, <4>2, Zenon
    <3> QED
      BY <3>2, <3>3
  <2> QED
    BY <1>1, <1>3, <2>2, <2>3, <2>4 DEF OutIsInOrder
<1>6. InIsInOrder'
  BY <1>1, <1>3 DEF InIsInOrder
<1>7. ThreadsFollowInstance'
  BY <1>1, <1>3 DEF ThreadsFollowInstance
<1> QED
  BY <1>4, <1>5, <1>6, <1>7

\* The line in hand comes out on the console.
LEMMA OutputKeeps == IInv /\ WriteToConsole => IInv'
<1> SUFFICES ASSUME IInv, WriteToConsole PROVE IInv'
  OBVIOUS
<1> USE DEF IInv, inVars
<1>1. /\ sender = "writing" /\ sender' = "written" /\ console' = Append(console, inHand)
      /\ UNCHANGED <<user, send_count, send_queue, sent_id, cancel_send, awaited, inHand, claimed>>
      /\ UNCHANGED <<receiver, receive_queue, typed, read>>
  BY DEF WriteToConsole
<1>2. inHand \in Lines /\ inHand = 0 + Len(console) + 1
  BY <1>1, Queues, BoundsAssumption DEF TypeOK, OutIsInOrder, Lines
<1>3. /\ console' \in Seq(Lines) /\ Len(console') = Len(console) + 1 /\ Consecutive(console', 0)
  BY <1>1, <1>2, Queues, ConsecutiveSteps DEF OutIsInOrder
<1>4. TypeOK'
  BY <1>1, <1>3 DEF TypeOK
<1>5. OutIsInOrder'
  <2>1. Len(console) + 1 + Len(send_queue) = send_count /\ sent_id <= Len(console)
    BY <1>1 DEF OutIsInOrder
  <2>2. Len(console') + 0 + Len(send_queue') = send_count' /\ inHand' = Len(console')
    BY <1>1, <1>2, <1>3, <2>1, Queues
  <2>3. sent_id' <= Len(console') /\ claimed' <= Len(console')
    BY <1>1, <1>3, <2>1, Queues DEF OutIsInOrder, TypeOK
  <2> QED
    BY <1>1, <1>3, <2>2, <2>3 DEF OutIsInOrder
<1>6. InIsInOrder' /\ ThreadsFollowInstance'
  BY <1>1 DEF InIsInOrder, ThreadsFollowInstance
<1> QED
  BY <1>4, <1>5, <1>6

\* Lines are typed, queued and read.
LEMMA ReadingKeeps == IInv /\ (TypeLine \/ EndOfInput \/ QueueLine \/ ReadLine) => IInv'
<1> SUFFICES ASSUME IInv, TypeLine \/ EndOfInput \/ QueueLine \/ ReadLine PROVE IInv'
  OBVIOUS
<1> USE DEF IInv, outVars
<1>1. /\ UNCHANGED outVars
      /\ user' = user \/ (user = "listening" /\ user' = "heard")
  BY DEF TypeLine, EndOfInput, QueueLine, ReadLine
<1>2. OutIsInOrder'
  BY <1>1 DEF OutIsInOrder
<1>3. ASSUME /\ receiver' \in {"stopped", "reading", "line"} /\ receive_queue' \in Seq(1 .. MaxTyped)
             /\ typed' \in 0 .. MaxTyped /\ read' \in 0 .. MaxTyped
      PROVE  TypeOK'
  BY <1>1, <1>3 DEF TypeOK
<1>4. CASE TypeLine
  <2>1. typed' = typed + 1 /\ typed' \in 0 .. MaxTyped /\ receiver = "reading" /\ receiver' = "line"
        /\ UNCHANGED <<user, receive_queue, read>>
    BY <1>4, BoundsAssumption DEF TypeLine, TypeOK
  <2>2. InIsInOrder'
    BY <2>1, Queues DEF InIsInOrder, TypeOK
  <2>3. ThreadsFollowInstance' /\ TypeOK'
    BY <1>1, <1>3, <2>1 DEF ThreadsFollowInstance, TypeOK
  <2> QED
    BY <1>2, <2>2, <2>3
<1>5. CASE EndOfInput
  <2>1. receiver' = "stopped" /\ receiver = "reading" /\ UNCHANGED <<user, receive_queue, typed, read>>
    BY <1>5 DEF EndOfInput
  <2>2. InIsInOrder' /\ ThreadsFollowInstance' /\ TypeOK'
    BY <1>1, <1>3, <2>1 DEF InIsInOrder, ThreadsFollowInstance, TypeOK
  <2> QED
    BY <1>2, <2>2
<1>6. CASE QueueLine
  <2>1. /\ receiver = "line" /\ receiver' = "reading" /\ receive_queue' = Append(receive_queue, typed)
        /\ user' = IF user = "listening" THEN "heard" ELSE user
        /\ UNCHANGED <<typed, read>>
    BY <1>6 DEF QueueLine
  <2>2. typed = read + Len(receive_queue) + 1 /\ typed \in 1 .. MaxTyped
    BY <2>1, Queues, BoundsAssumption DEF InIsInOrder, TypeOK
  <2>3. /\ receive_queue' \in Seq(1 .. MaxTyped) /\ Len(receive_queue') = Len(receive_queue) + 1
        /\ receive_queue' # <<>> /\ Consecutive(receive_queue', read)
    <3>1. /\ receive_queue \in Seq(1 .. MaxTyped) /\ read \in Int
          /\ Consecutive(receive_queue, read)
      BY Queues DEF InIsInOrder
    <3>2. /\ Append(receive_queue, typed) \in Seq(1 .. MaxTyped)
          /\ Len(Append(receive_queue, typed)) = Len(receive_queue) + 1
          /\ Append(receive_queue, typed) # <<>>
      BY <2>2, <3>1, AppendProperties
    <3>3. Consecutive(Append(receive_queue, typed), read)
      BY <2>2, <3>1, ConsecutiveSteps
    <3> QED
      BY <2>1, <3>2, <3>3
  <2>4. InIsInOrder'
    BY <2>1, <2>2, <2>3, Queues DEF InIsInOrder
  <2>5. ThreadsFollowInstance' /\ TypeOK'
    BY <1>1, <1>3, <2>1, <2>3 DEF ThreadsFollowInstance, TypeOK
  <2> QED
    BY <1>2, <2>4, <2>5
<1>7. CASE ReadLine
  <2>1. /\ user = "idle" /\ receive_queue # <<>> /\ read' = Head(receive_queue)
        /\ receive_queue' = Tail(receive_queue) /\ UNCHANGED <<user, receiver, typed>>
    BY <1>7 DEF ReadLine
  <2>2. /\ read' = read + 1 /\ read' \in 0 .. MaxTyped /\ receive_queue' \in Seq(1 .. MaxTyped)
        /\ Len(receive_queue) > 0 /\ Len(receive_queue') = Len(receive_queue) - 1
        /\ Consecutive(receive_queue', read + 1)
    BY <2>1, Queues, ConsecutiveSteps, BoundsAssumption DEF InIsInOrder
  <2>3. read' + Len(receive_queue') = read + Len(receive_queue)
    BY <2>2, Queues
  <2>4. Consecutive(receive_queue', read')
    BY <2>2
  <2>5. InIsInOrder'
    BY <2>1, <2>3, <2>4 DEF InIsInOrder
  <2>6. ThreadsFollowInstance' /\ TypeOK'
    BY <1>1, <1>3, <2>1, <2>2 DEF ThreadsFollowInstance, TypeOK
  <2> QED
    BY <1>2, <2>5, <2>6
<1> QED
  BY <1>4, <1>5, <1>6, <1>7

\* An instance comes and goes.
LEMMA LifeKeeps == IInv /\ (Construct \/ Cancel \/ WakeCancelled \/ TerminateReceiver) => IInv'
<1> SUFFICES ASSUME IInv, Construct \/ Cancel \/ WakeCancelled \/ TerminateReceiver PROVE IInv'
  OBVIOUS
<1> USE DEF IInv, inVars, outVars
<1>0. \A S : <<>> \in Seq(S) /\ Len(<<>>) = 0
  BY EmptySeq
<1>1. CASE Construct
  <2>1. send_queue = <<>> /\ receive_queue = <<>> /\ awaited = 0 /\ inHand = 0 /\ ~cancel_send
    BY <1>1 DEF Construct, ThreadsFollowInstance, TypeOK
  <2>2. TypeOK'
    BY <1>0, <1>1, <2>1, BoundsAssumption DEF Construct, TypeOK
  <2>3. OutIsInOrder'
    BY <1>0, <1>1, <2>1 DEF Construct, OutIsInOrder, Consecutive
  <2>4. InIsInOrder' /\ ThreadsFollowInstance'
    BY <1>0, <1>1, <2>1 DEF Construct, InIsInOrder, ThreadsFollowInstance, Consecutive
  <2> QED
    BY <2>2, <2>3, <2>4
<1>2. CASE Cancel
  <2>1. cancel_send' \in BOOLEAN
    BY <1>2, Zenon DEF Cancel
  <2>2. TypeOK'
    BY <1>2, <2>1 DEF Cancel, TypeOK
  <2>3. OutIsInOrder'
    BY <1>2 DEF Cancel, OutIsInOrder
  <2>4. InIsInOrder' /\ ThreadsFollowInstance'
    BY <1>2 DEF Cancel, InIsInOrder, ThreadsFollowInstance
  <2> QED
    BY <2>2, <2>3, <2>4
<1>3. CASE WakeCancelled
  <2>1. /\ sender' \in {sender, "awake"} /\ (sender' # sender => sender = "asleep")
    BY <1>3 DEF WakeCancelled, WakeSender
  <2>2. TypeOK'
    BY <1>3, <2>1 DEF WakeCancelled, TypeOK
  <2>3. OutIsInOrder'
    BY <1>3, <2>1 DEF WakeCancelled, OutIsInOrder
  <2>4. InIsInOrder' /\ ThreadsFollowInstance'
    BY <1>3, <2>1 DEF WakeCancelled, InIsInOrder, ThreadsFollowInstance
  <2> QED
    BY <2>2, <2>3, <2>4
<1>4. CASE TerminateReceiver
  <2>1. TypeOK'
    BY <1>0, <1>4 DEF TerminateReceiver, TypeOK
  <2>2. OutIsInOrder'
    BY <1>4 DEF TerminateReceiver, OutIsInOrder
  <2>3. read <= typed
    BY Queues DEF InIsInOrder, TypeOK
  <2>4. InIsInOrder' /\ ThreadsFollowInstance'
    BY <1>0, <1>4, <2>3, BoundsAssumption
    DEF TerminateReceiver, TypeOK, InIsInOrder, ThreadsFollowInstance, Consecutive
  <2> QED
    BY <2>1, <2>2, <2>4
<1> QED
  BY <1>1, <1>2, <1>3, <1>4

LEMMA Stepwise == IInv /\ [Next]_vars => IInv'
<1> SUFFICES ASSUME IInv, [Next]_vars PROVE IInv'
  OBVIOUS
<1>1. CASE StartSender
  BY <1>1, GoOnKeeps, Queues, BoundsAssumption DEF StartSender, inVars
<1>2. CASE WakeUp
  <2>1. sent_id \in 0 .. MaxLines /\ sent_id <= Len(console)
    BY <1>2 DEF WakeUp, IInv, TypeOK, OutIsInOrder
  <2> QED
    BY <1>2, <2>1, GoOnKeeps DEF WakeUp
<1>3. CASE Record
  <2>1. sent_id' \in 0 .. MaxLines /\ sent_id' <= Len(console)
    BY <1>3, Queues DEF Record, IInv, TypeOK, OutIsInOrder
  <2> QED
    BY <1>3, <2>1, GoOnKeeps DEF Record
<1>4. ASSUME NEW id \in 1 .. MaxLines, WaitForLineWritten(id) PROVE IInv'
  BY <1>4, WaitKeeps DEF WaitForLineWritten
<1>5. CASE Retest
  <2>1. awaited \in 1 .. MaxLines
    BY <1>5, BoundsAssumption DEF Retest, IInv, TypeOK
  <2> QED
    BY <1>5, <2>1, WaitKeeps DEF Retest
<1>6. CASE WaitForReadyRead \/ ReturnTrue \/ TimeOut \/ JoinSender
  BY <1>6, UserMoves DEF WaitForReadyRead, ReturnTrue, TimeOut, JoinSender
<1>7. CASE UNCHANGED vars
  BY <1>7 DEF vars, IInv, TypeOK, OutIsInOrder, InIsInOrder, ThreadsFollowInstance
<1> QED
  BY <1>1, <1>2, <1>3, <1>4, <1>5, <1>6, <1>7, WriteKeeps, OutputKeeps, ReadingKeeps, LifeKeeps
  DEF Next, Begin, Destructor, SenderStep

LEMMA InvarianceOfDevice == Spec => []IInv
BY Initially, Stepwise, PTL DEF Spec

---------------------------------------------------------------------------
(* The theorems *)

\* Every variable keeps its type.
THEOREM TypeCorrect == Spec => []TypeOK
<1>1. IInv => TypeOK
  BY DEF IInv
<1> QED
  BY <1>1, InvarianceOfDevice, PTL

\* However the threads interleave and whenever the instance is destroyed, lines are written
\* in order, none twice and none lost, and lines are read as they were typed.
THEOREM LinesStayInOrder == Spec => []LinesInOrder
<1>1. IInv => LinesInOrder
  <2> SUFFICES ASSUME IInv PROVE LinesInOrder
    OBVIOUS
  <2> USE DEF IInv
  <2>1. receive_queue = [i \in 1 .. Len(receive_queue) |-> read + i]
    <3>1. receive_queue \in Seq(Nat) /\ read \in Nat /\ Consecutive(receive_queue, read)
      <4>1. 1 .. MaxTyped \subseteq Nat /\ read \in Nat
        BY BoundsAssumption DEF TypeOK
      <4> QED
        BY <4>1, Queues, SeqMonotonic DEF InIsInOrder
    <3> QED
      BY <3>1, ConsecutiveIs
  <2>2. console \o BeingSent \o send_queue = [i \in 1 .. send_count |-> i]
    <3>1. /\ console \in Seq(Nat) /\ send_queue \in Seq(Nat) /\ send_count \in Nat
          /\ Len(console) \in Nat /\ Len(send_queue) \in Nat
      <4>1. Lines \subseteq Nat /\ send_count \in Nat
        BY BoundsAssumption DEF TypeOK, Lines
      <4> QED
        BY <4>1, Queues, SeqMonotonic
    <3> DEFINE n == IF sender = "writing" THEN 1 ELSE 0
    <3>2. BeingSent \in Seq(Nat) /\ Len(BeingSent) = n /\ Consecutive(BeingSent, 0 + Len(console))
      <4>1. CASE sender = "writing"
        <5>1. inHand = Len(console) + 1 /\ BeingSent = <<inHand>>
          BY <4>1 DEF OutIsInOrder, BeingSent
        <5> QED
          BY <3>1, <4>1, <5>1 DEF Consecutive
      <4>2. CASE sender # "writing"
        BY <4>2, EmptySeq DEF BeingSent, Consecutive
      <4> QED
        BY <4>1, <4>2
    <3>3. /\ console \o BeingSent \in Seq(Nat) /\ Len(console \o BeingSent) = Len(console) + n
          /\ Consecutive(console \o BeingSent, 0)
      BY <3>1, <3>2, ConsecutiveConcat DEF OutIsInOrder
    <3>4. Len(console) + n + Len(send_queue) = send_count
      BY DEF OutIsInOrder
    <3>5. Consecutive(send_queue, 0 + Len(console \o BeingSent))
      <4>1. send_count - Len(send_queue) = 0 + Len(console \o BeingSent)
        BY <3>1, <3>3, <3>4
      <4> QED
        BY <4>1 DEF OutIsInOrder
    <3>6. /\ (console \o BeingSent) \o send_queue \in Seq(Nat)
          /\ Len((console \o BeingSent) \o send_queue) = send_count
          /\ Consecutive((console \o BeingSent) \o send_queue, 0)
      BY <3>1, <3>3, <3>4, <3>5, ConsecutiveConcat
    <3>7. (console \o BeingSent) \o send_queue = [i \in 1 .. send_count |-> 0 + i]
      BY <3>6, ConsecutiveIs
    <3> QED
      BY <3>1, <3>7
  <2>3. /\ user = "none" => send_queue = <<>> /\ sender = "stopped"
        /\ read + Len(receive_queue) <= typed
    BY DEF ThreadsFollowInstance, InIsInOrder
  <2> QED
    BY <2>1, <2>2, <2>3 DEF LinesInOrder
<1> QED
  BY <1>1, InvarianceOfDevice, PTL

\* A line that the user was told is written is on the console, and nobody sleeps on a line
\* that is there or is told of one that is not.
THEOREM AnswersStayTrue == Spec => []AnswersAreTrue
<1>1. IInv => AnswersAreTrue
  BY DEF IInv, OutIsInOrder, InIsInOrder, AnswersAreTrue
<1> QED
  BY <1>1, InvarianceOfDevice, PTL

---------------------------------------------------------------------------
(* The control for a range of dates *)

\* The dates that the edits can show.
Day     == 1 .. 397
Range2  == [start : Int, end : Int]
Control == [combo : Kinds, edit : Day, start : Int, end : Int, checked : SUBSET Both,
            range : Range2, suppress : BOOLEAN, known : Range2]
ControlOK(c) == c \in Control /\ c.known = c.range

\* A day belongs to its week, its month and its year.
LEMMA DaysBelong ==
  ASSUME NEW d \in Day
  PROVE  /\ DayOfWeek(d) \in 1 .. 7
         /\ Begins(d, MonthStarts) \in 1 .. d /\ Ends(d, MonthStarts) \in Int /\ d <= Ends(d, MonthStarts)
         /\ Begins(d, YearStarts) \in 1 .. d /\ Ends(d, YearStarts) \in Int /\ d <= Ends(d, YearStarts)
<1>1. d \in Int /\ 1 <= d /\ d <= 397
  BY DEF Day
<1>2. DayOfWeek(d) \in 1 .. 7
  <2>1. (d + 4) % 7 \in 0 .. 6
    BY <1>1
  <2> QED
    BY <2>1 DEF DayOfWeek
<1>3. \E s \in MonthStarts : s <= d /\ \A t \in MonthStarts : t <= d => t <= s
  BY <1>1 DEF MonthStarts
<1>4. \E s \in MonthStarts : s > d /\ \A t \in MonthStarts : t > d => s <= t
  BY <1>1 DEF MonthStarts
<1>5. \E s \in YearStarts : s <= d /\ \A t \in YearStarts : t <= d => t <= s
  BY <1>1 DEF YearStarts
<1>6. \E s \in YearStarts : s > d /\ \A t \in YearStarts : t > d => s <= t
  BY <1>1 DEF YearStarts
<1>7. \A s \in MonthStarts \cup YearStarts : s \in Int /\ s >= 1
  BY DEF MonthStarts, YearStarts
<1>8. /\ Begins(d, MonthStarts) \in MonthStarts /\ Begins(d, MonthStarts) <= d
      /\ Begins(d, YearStarts) \in YearStarts /\ Begins(d, YearStarts) <= d
  BY <1>3, <1>5 DEF Begins
<1>9. /\ \E s \in MonthStarts : Ends(d, MonthStarts) = s - 1 /\ s > d
      /\ \E s \in YearStarts : Ends(d, YearStarts) = s - 1 /\ s > d
  BY <1>4, <1>6 DEF Ends
<1> HIDE DEF Day
<1>10. Begins(d, MonthStarts) \in 1 .. d /\ Begins(d, YearStarts) \in 1 .. d
  BY <1>1, <1>7, <1>8
<1>11. \A s \in MonthStarts \cup YearStarts, e \in Int : e = s - 1 /\ s > d => d <= e
  BY <1>1, <1>7
<1>12. Ends(d, MonthStarts) \in Int /\ d <= Ends(d, MonthStarts)
  <2>1. PICK s \in MonthStarts : Ends(d, MonthStarts) = s - 1 /\ s > d
    BY <1>9
  <2> QED
    BY <1>1, <1>7, <2>1
<1>13. Ends(d, YearStarts) \in Int /\ d <= Ends(d, YearStarts)
  <2>1. PICK s \in YearStarts : Ends(d, YearStarts) = s - 1 /\ s > d
    BY <1>9
  <2> QED
    BY <1>1, <1>7, <2>1
<1> QED
  BY <1>2, <1>10, <1>12, <1>13

\* What the widgets show is a range, which has the date in it.
LEMMA SelectionIsRange ==
  ASSUME NEW c \in Control
  PROVE  /\ Selected(c) \in Range2
         /\ c.combo \in {"Day", "Week", "Month", "Year"} =>
              Selected(c).start <= c.edit /\ c.edit <= Selected(c).end
<1> DEFINE d == c.edit
           r == Selected(c)
<1>1. c.combo \in Kinds /\ d \in Day /\ c.start \in Int /\ c.end \in Int
  BY DEF Control
<1>2. d \in Int /\ DayOfWeek(d) \in 1 .. 7
  <2>1. DayOfWeek(d) \in 1 .. 7
    BY <1>1, DaysBelong
  <2>2. d \in Int
    BY <1>1 DEF Day
  <2> QED
    BY <2>1, <2>2
<1>3. CASE c.combo = "Day"
  <2>1. r = [start |-> d, end |-> d]
    BY <1>3 DEF Selected
  <2> QED
    BY <1>2, <1>3, <2>1 DEF Range2
<1>4. CASE c.combo = "Week"
  <2> DEFINE w == DayOfWeek(d)
  <2>1. r = [start |-> d + 1 - w, end |-> d + 7 - w]
    BY <1>4 DEF Selected
  <2>2. w \in 1 .. 7
    BY <1>2
  <2>3. r.start = d + 1 - w /\ r.end = d + 7 - w
    BY <2>1
  <2> HIDE DEF w, d
  <2>4. d + 1 - w \in Int /\ d + 7 - w \in Int /\ d + 1 - w <= d /\ d <= d + 7 - w
    BY <1>2, <2>2
  <2>5. r \in Range2
    BY <2>1, <2>4 DEF Range2
  <2> HIDE DEF r
  <2> QED
    BY <2>3, <2>4, <2>5 DEF r, d
<1>5. CASE c.combo = "Month"
  <2>1. r = [start |-> Begins(d, MonthStarts), end |-> Ends(d, MonthStarts)]
    BY <1>5 DEF Selected
  <2> QED
    BY <1>1, <1>2, <2>1, DaysBelong DEF Range2
<1>6. CASE c.combo = "Year"
  <2>1. r = [start |-> Begins(d, YearStarts), end |-> Ends(d, YearStarts)]
    BY <1>6 DEF Selected
  <2> QED
    BY <1>1, <1>2, <2>1, DaysBelong DEF Range2
<1>7. NoDate \in Int
  BY DEF NoDate
<1>8. CASE c.combo = "AllTime"
  <2>1. r = None
    BY <1>8 DEF Selected
  <2> QED
    BY <1>7, <1>8, <2>1 DEF Range2, None
<1>9. CASE c.combo = "Custom"
  <2>1. r = [start |-> IF "start" \in c.checked THEN c.start ELSE NoDate,
             end   |-> IF "end" \in c.checked THEN c.end ELSE NoDate]
    BY <1>9 DEF Selected
  <2> QED
    BY <1>1, <1>7, <1>9, <2>1 DEF Range2
<1> QED
  BY <1>1, <1>3, <1>4, <1>5, <1>6, <1>8, <1>9 DEF Kinds

\* What the selection depends on.
Widgets(c) == <<c.combo, c.edit, c.start, c.end, c.checked>>

\* The widgets that show the same select the same.
LEMMA WidgetsSelect ==
  ASSUME NEW c, NEW n, Widgets(n) = Widgets(c)
  PROVE  Selected(n) = Selected(c)
<1>1. n.combo = c.combo /\ n.edit = c.edit /\ n.start = c.start /\ n.end = c.end /\ n.checked = c.checked
  BY DEF Widgets
<1> QED
  BY <1>1 DEF Selected

\* The range follows the widgets, unless updates are suppressed.
LEMMA Refreshing ==
  ASSUME NEW c, ControlOK(c), NEW n, n = RangeRefreshed(c)
  PROVE  /\ ControlOK(n) /\ Widgets(n) = Widgets(c) /\ n.suppress = c.suppress
         /\ c.suppress => n = c
         /\ ~c.suppress => n.range = Selected(c) /\ Settled(n)
<1>1. Selected(c) \in Range2 /\ c \in Control
  BY SelectionIsRange DEF ControlOK
<1>2. CASE c.suppress \/ Selected(c) = c.range
  BY <1>2 DEF RangeRefreshed, Settled
<1>3. CASE ~(c.suppress \/ Selected(c) = c.range)
  <2> DEFINE r == Selected(c)
  <2>1. n = [c EXCEPT !.range = r, !.known = r]
    BY <1>3 DEF RangeRefreshed
  <2>2. n.range = r /\ n.known = r /\ n.suppress = c.suppress /\ n \in Control
    BY <1>1, <2>1 DEF Control
  <2>3. Widgets(n) = Widgets(c)
    BY <1>1, <2>1 DEF Widgets, Control
  <2>4. Selected(n) = r
    BY <2>3, WidgetsSelect
  <2> HIDE DEF r
  <2>5. Settled(n)
    BY <1>3, <2>2, <2>4 DEF Settled
  <2> QED
    BY <1>3, <2>2, <2>3, <2>5 DEF ControlOK, r
<1> QED
  BY <1>2, <1>3

\* The widgets of a custom range show the range.
Shows(c, r) == /\ c.checked = {e \in Both : r[e] # NoDate}
               /\ r.start # NoDate => c.start = r.start
               /\ r.end # NoDate => c.end = r.end

\* Then that is what they select.
LEMMA ShownIsSelected ==
  ASSUME NEW c, NEW r \in Range2, Shows(c, r), c.combo = "Custom"
  PROVE  Selected(c) = r
<1>1. Selected(c) = [start |-> IF "start" \in c.checked THEN c.start ELSE NoDate,
                     end   |-> IF "end" \in c.checked THEN c.end ELSE NoDate]
  BY DEF Selected
<1>2. ("start" \in c.checked <=> r.start # NoDate) /\ ("end" \in c.checked <=> r.end # NoDate)
  BY DEF Shows, Both
<1>3. Selected(c) = [start |-> r.start, end |-> r.end]
  BY <1>1, <1>2 DEF Shows
<1>4. r = [start |-> r.start, end |-> r.end]
  BY DEF Range2
<1> QED
  BY <1>3, <1>4

\* What the slot of the date edits leaves.
LEMMA Updating ==
  ASSUME NEW c, ControlOK(c), NEW n, n = DateUpdated(c)
  PROVE  /\ ControlOK(n) /\ n.combo = c.combo /\ n.edit = c.edit /\ n.suppress = c.suppress
         /\ c.suppress => n.range = c.range
         /\ ~c.suppress => Settled(n) /\ n.range = Selected(n)
         /\ c.combo = "Custom" => n.range = c.range /\ Shows(n, c.range)
<1> DEFINE m == IF c.combo # "Custom" THEN c
                ELSE [c EXCEPT !.checked = {e \in Both : c.range[e] # NoDate},
                               !.start = IF c.range.start = NoDate THEN @ ELSE c.range.start,
                               !.end   = IF c.range.end = NoDate THEN @ ELSE c.range.end]
<1>1. c \in Control /\ c.known = c.range /\ c.range \in Range2 /\ c.range.start \in Int /\ c.range.end \in Int
  BY DEF ControlOK, Control, Range2
<1>2. /\ ControlOK(m) /\ m.combo = c.combo /\ m.edit = c.edit /\ m.suppress = c.suppress /\ m.range = c.range
      /\ c.combo = "Custom" => Shows(m, c.range)
  <2>1. CASE c.combo # "Custom"
    BY <2>1
  <2>2. CASE c.combo = "Custom"
    <3> DEFINE k == {e \in Both : c.range[e] # NoDate}
               a == IF c.range.start = NoDate THEN c.start ELSE c.range.start
               b == IF c.range.end = NoDate THEN c.end ELSE c.range.end
    <3>1. m = [c EXCEPT !.checked = k, !.start = a, !.end = b]
      BY <2>2
    <3>2. k \in SUBSET Both /\ a \in Int /\ b \in Int
      BY <1>1 DEF Control
    <3> HIDE DEF m, k, a, b
    <3>3. /\ m \in Control /\ m.combo = c.combo /\ m.edit = c.edit /\ m.suppress = c.suppress
          /\ m.range = c.range /\ m.known = c.known /\ m.checked = k /\ m.start = a /\ m.end = b
      BY <1>1, <3>1, <3>2 DEF Control
    <3>4. Shows(m, c.range)
      BY <3>3 DEF Shows, k, a, b
    <3> QED
      BY <1>1, <3>3, <3>4 DEF ControlOK
  <2> QED
    BY <2>1, <2>2
<1>3. n = RangeRefreshed(m)
  BY DEF DateUpdated
<1> HIDE DEF m
<1>4. /\ ControlOK(n) /\ Widgets(n) = Widgets(m) /\ n.suppress = m.suppress
      /\ m.suppress => n = m
      /\ ~m.suppress => n.range = Selected(m) /\ Settled(n)
  BY <1>2, <1>3, Refreshing
<1>5. n.combo = m.combo /\ n.edit = m.edit /\ n.start = m.start /\ n.end = m.end /\ n.checked = m.checked
  BY <1>4 DEF Widgets
<1>6. c.combo = "Custom" => n.range = c.range /\ Shows(n, c.range)
  <2> SUFFICES ASSUME c.combo = "Custom" PROVE n.range = c.range /\ Shows(n, c.range)
    OBVIOUS
  <2>1. Selected(m) = c.range
    BY <1>1, <1>2, ShownIsSelected
  <2>2. n.range = c.range
    BY <1>2, <1>4, <2>1
  <2> QED
    BY <1>2, <1>5, <2>2 DEF Shows
<1> QED
  BY <1>2, <1>4, <1>5, <1>6 DEF Settled

\* Another kind of range is chosen.
LEMMA Choosing ==
  ASSUME NEW c, ControlOK(c), NEW kind \in Kinds, NEW n, n = WithCombo(c, kind)
  PROVE  /\ ControlOK(n) /\ n.combo = kind /\ n.edit = c.edit /\ n.suppress = c.suppress
         /\ c.suppress => n.range = c.range
         /\ Settled(c) => Settled(n)
         /\ kind = "Custom" => n.range = c.range /\ (c.combo # kind => Shows(n, c.range))
<1>1. CASE c.combo = kind
  BY <1>1 DEF WithCombo
<1>2. CASE c.combo # kind
  <2> DEFINE m == [c EXCEPT !.combo = kind]
  <2>1. n = DateUpdated(m)
    BY <1>2 DEF WithCombo
  <2>2. /\ ControlOK(m) /\ m.combo = kind /\ m.edit = c.edit /\ m.suppress = c.suppress /\ m.range = c.range
    BY DEF ControlOK, Control
  <2> HIDE DEF m
  <2>3. /\ ControlOK(n) /\ n.combo = m.combo /\ n.edit = m.edit /\ n.suppress = m.suppress
        /\ m.suppress => n.range = m.range
        /\ ~m.suppress => Settled(n)
        /\ m.combo = "Custom" => n.range = m.range /\ Shows(n, m.range)
    BY <2>1, <2>2, Updating
  <2> QED
    BY <2>2, <2>3 DEF Settled
<1> QED
  BY <1>1, <1>2

\* The kind of range stays, and while updates are suppressed the range too.
Edited(c, n) == /\ ControlOK(n) /\ n.combo = c.combo /\ n.suppress = c.suppress
                /\ c.suppress => n.range = c.range

\* Another date is shown by an edit.
LEMMA Editing ==
  ASSUME NEW c, ControlOK(c)
  PROVE  /\ \A d \in Day : Edited(c, WithEdit(c, d)) /\ WithEdit(c, d).edit = d
         /\ \A d \in Int : Edited(c, WithStart(c, d)) /\ Edited(c, WithEnd(c, d))
<1>1. Edited(c, c)
  BY DEF Edited
<1>2. ASSUME NEW m, ControlOK(m), m.combo = c.combo, m.suppress = c.suppress, m.range = c.range
      PROVE  Edited(c, DateUpdated(m)) /\ DateUpdated(m).edit = m.edit
  <2> DEFINE n == DateUpdated(m)
  <2>1. /\ ControlOK(n) /\ n.combo = m.combo /\ n.edit = m.edit /\ n.suppress = m.suppress
        /\ m.suppress => n.range = m.range
    <3> HIDE DEF n
    <3>1. n = DateUpdated(m)
      BY DEF n
    <3> QED
      BY <1>2, <3>1, Updating
  <2> HIDE DEF n
  <2>2. Edited(c, n) /\ n.edit = m.edit
    BY <1>2, <2>1 DEF Edited
  <2> QED
    BY <2>2 DEF n
<1>3. ASSUME NEW d \in Day PROVE Edited(c, WithEdit(c, d)) /\ WithEdit(c, d).edit = d
  <2> DEFINE m == [c EXCEPT !.edit = d]
  <2>1. ControlOK(m) /\ m.combo = c.combo /\ m.suppress = c.suppress /\ m.range = c.range /\ m.edit = d
    BY DEF ControlOK, Control
  <2>2. WithEdit(c, d) = IF c.edit = d THEN c ELSE DateUpdated(m)
    BY DEF WithEdit
  <2> HIDE DEF m
  <2> QED
    BY <1>1, <1>2, <2>1, <2>2
<1>4. ASSUME NEW d \in Int PROVE Edited(c, WithStart(c, d))
  <2> DEFINE m == [c EXCEPT !.start = d]
  <2>1. ControlOK(m) /\ m.combo = c.combo /\ m.suppress = c.suppress /\ m.range = c.range
    BY DEF ControlOK, Control
  <2>2. WithStart(c, d) = IF c.start = d THEN c ELSE DateUpdated(m)
    BY DEF WithStart
  <2> HIDE DEF m
  <2> QED
    BY <1>1, <1>2, <2>1, <2>2
<1>5. ASSUME NEW d \in Int PROVE Edited(c, WithEnd(c, d))
  <2> DEFINE m == [c EXCEPT !.end = d]
  <2>1. ControlOK(m) /\ m.combo = c.combo /\ m.suppress = c.suppress /\ m.range = c.range
    BY DEF ControlOK, Control
  <2>2. WithEnd(c, d) = IF c.end = d THEN c ELSE DateUpdated(m)
    BY DEF WithEnd
  <2> HIDE DEF m
  <2> QED
    BY <1>1, <1>2, <2>1, <2>2
<1> QED
  BY <1>3, <1>4, <1>5

\* A date of the calendar, or none.
OfCalendar(r) == /\ r = [start |-> r.start, end |-> r.end]
                 /\ r.start \in Day \cup {NoDate} /\ r.end \in Day \cup {NoDate}

\* The program sets a range.
LEMMA SettingARange ==
  ASSUME NEW c, ControlOK(c), NEW r, OfCalendar(r), NEW n, n = WithRange(c, r)
  PROVE  /\ ControlOK(n)
         /\ ~Throws(r) => /\ n.range = r /\ n.combo = KindOf(r) /\ ~n.suppress
                          /\ n.combo \in {"Day", "Week", "Year"} => n.edit = r.start
                          /\ n.combo = "Custom" /\ c.combo # "Custom" => Shows(n, r)
<1> DEFINE kind == KindOf(r)
           b    == [c EXCEPT !.suppress = TRUE, !.range = r, !.known = r]
           d    == WithCombo(b, kind)
           s    == IF r.start = NoDate THEN d ELSE WithStart(d, r.start)
           u    == IF r.end = NoDate THEN s ELSE WithEnd(s, r.end)
           e    == IF kind = "AllTime" THEN d ELSE IF kind = "Custom" THEN u ELSE WithEdit(d, r.start)
<1>1. kind \in Kinds /\ (kind \notin {"AllTime", "Custom"} => r.start # NoDate)
  BY DEF KindOf, Kinds
<1>2. n = IF Throws(r) THEN [c EXCEPT !.suppress = TRUE] ELSE [e EXCEPT !.suppress = FALSE]
  BY DEF WithRange
<1>3. r \in Range2 /\ r.start \in Int /\ r.end \in Int /\ (r.start # NoDate => r.start \in Day)
  BY DEF OfCalendar, Range2, Day, NoDate
<1> HIDE DEF kind
<1>4. ControlOK(b) /\ b.suppress /\ b.range = r /\ b.combo = c.combo
  BY <1>3 DEF ControlOK, Control
<1> HIDE DEF b
<1>5. /\ ControlOK(d) /\ d.combo = kind /\ d.suppress /\ d.range = r
      /\ kind = "Custom" /\ c.combo # "Custom" => Shows(d, r)
  <2>1. d = WithCombo(b, kind)
    OBVIOUS
  <2> HIDE DEF d
  <2> QED
    BY <1>1, <1>4, <2>1, Choosing
<1> HIDE DEF d
<1>6. CASE kind \notin {"AllTime", "Custom"}
  <2> DEFINE w == WithEdit(d, r.start)
  <2>1. Edited(d, w) /\ w.edit = r.start
    BY <1>1, <1>3, <1>5, <1>6, Editing
  <2>2. e = w
    BY <1>6
  <2> HIDE DEF w, e
  <2>3. ControlOK(e) /\ e.combo = kind /\ e.range = r /\ e.edit = r.start
    BY <1>5, <2>1, <2>2 DEF Edited
  <2> QED
    BY <1>2, <1>6, <2>3 DEF ControlOK, Control, kind
<1>7. CASE kind = "AllTime"
  <2>1. e = d
    BY <1>7
  <2> HIDE DEF e
  <2> QED
    BY <1>2, <1>5, <1>7, <2>1 DEF ControlOK, Control, kind
<1>8. CASE kind = "Custom"
  <2>1. Edited(d, d)
    BY <1>5 DEF Edited
  <2>2. Edited(d, s) /\ (Shows(d, r) => s = d)
    <3>1. r.start # NoDate => Edited(d, WithStart(d, r.start)) /\ (d.start = r.start => WithStart(d, r.start) = d)
      BY <1>3, <1>5, Editing DEF WithStart
    <3> QED
      BY <2>1, <3>1 DEF Shows
  <2> HIDE DEF s
  <2>3. ControlOK(s) /\ s.combo = kind /\ s.suppress /\ s.range = r
    BY <1>5, <2>2 DEF Edited
  <2>4. Edited(s, u) /\ (Shows(d, r) => u = d)
    <3>1. r.end # NoDate => Edited(s, WithEnd(s, r.end)) /\ (s.end = r.end => WithEnd(s, r.end) = s)
      BY <1>3, <2>3, Editing DEF WithEnd
    <3>2. Edited(s, s)
      BY <2>3 DEF Edited
    <3> QED
      BY <2>2, <3>1, <3>2 DEF Shows
  <2> HIDE DEF u
  <2>5. ControlOK(u) /\ u.combo = kind /\ u.range = r
    BY <2>3, <2>4 DEF Edited
  <2>6. n = IF Throws(r) THEN [c EXCEPT !.suppress = TRUE] ELSE [u EXCEPT !.suppress = FALSE]
    BY <1>2, <1>8
  <2>7. ControlOK(n)
    BY <2>5, <2>6 DEF ControlOK, Control
  <2>8. ASSUME ~Throws(r)
        PROVE  /\ n.range = r /\ n.combo = kind /\ ~n.suppress
               /\ n.checked = u.checked /\ n.start = u.start /\ n.end = u.end
    <3>1. n = [u EXCEPT !.suppress = FALSE]
      BY <2>6, <2>8
    <3> QED
      BY <2>5, <3>1 DEF ControlOK, Control
  <2>9. ASSUME ~Throws(r), c.combo # "Custom" PROVE Shows(n, r)
    <3>1. u = d /\ Shows(d, r)
      BY <1>5, <1>8, <2>4, <2>9
    <3> QED
      BY <2>8, <2>9, <3>1 DEF Shows
  <2> QED
    BY <1>8, <2>7, <2>8, <2>9 DEF kind
<1> QED
  BY <1>6, <1>7, <1>8

\* A range that the program sets is what the widgets select, but for a range to the first of
\* the next month, for a year that does not start in January, and for a control that already
\* showed a custom range.
LEMMA Fitting ==
  ASSUME NEW c \in Control, NEW r, OfCalendar(r), c.combo = KindOf(r),
         c.combo \in {"Day", "Week", "Year"} => c.edit = r.start,
         c.combo = "Custom" => Shows(c, r),
         c.combo # "Month", c.combo = "Year" => r.start \in YearStarts
  PROVE  Selected(c) = r
<1>1. /\ r = [start |-> r.start, end |-> r.end] /\ r \in Range2
      /\ r.start \in Day \cup {NoDate} /\ r.end \in Day \cup {NoDate}
  BY DEF OfCalendar, Range2, Day, NoDate
<1>2. CASE c.combo = "AllTime"
  BY <1>2 DEF KindOf, Selected
<1>3. CASE c.combo = "Custom"
  BY <1>1, <1>3, ShownIsSelected
<1>4. CASE c.combo = "Day"
  <2>1. r.start = r.end
    BY <1>4 DEF KindOf
  <2>2. Selected(c) = [start |-> r.start, end |-> r.start]
    BY <1>4 DEF Selected
  <2> QED
    BY <1>1, <2>1, <2>2
<1>5. CASE c.combo = "Week"
  <2>1. r.end - r.start = 6 /\ DayOfWeek(r.start) = 1 /\ NoDate \notin {r.start, r.end}
    BY <1>5 DEF KindOf
  <2>2. Selected(c) = [start |-> r.start + 1 - 1, end |-> r.start + 7 - 1]
    BY <1>5, <2>1 DEF Selected
  <2>3. r.start \in Int /\ r.end \in Int
    BY <1>1, <2>1 DEF Day
  <2>4. r.start + 1 - 1 = r.start /\ r.start + 7 - 1 = r.end
    BY <2>1, <2>3
  <2> QED
    BY <1>1, <2>2, <2>4
<1>6. CASE c.combo = "Year"
  <2>1. r.start \in YearStarts /\ r.end = YearLater(r.start) - 1 /\ NoDate \notin {r.start, r.end}
    BY <1>6 DEF KindOf
  <2>2. r.start \in Day /\ r.end \in Day
    BY <1>1, <2>1
  <2>3. r.start = 1 /\ r.end = 366
    BY <2>1, <2>2 DEF YearStarts, Day, YearLater
  <2>4. Begins(1, YearStarts) = 1
    <3>1. \A s : (s \in YearStarts /\ s <= 1 /\ \A t \in YearStarts : t <= 1 => t <= s) <=> s = 1
      BY DEF YearStarts
    <3> QED
      BY <3>1 DEF Begins
  <2>5. Ends(1, YearStarts) = 366
    <3>1. \A s : (s \in YearStarts /\ s > 1 /\ \A t \in YearStarts : t > 1 => s <= t) <=> s = 367
      BY DEF YearStarts
    <3>2. Ends(1, YearStarts) = 367 - 1
      BY <3>1 DEF Ends
    <3> QED
      BY <3>2
  <2>6. Selected(c) = [start |-> 1, end |-> 366]
    BY <1>6, <2>3, <2>4, <2>5 DEF Selected
  <2> QED
    BY <1>1, <2>3, <2>6
<1>7. c.combo \in Kinds
  BY DEF Control
<1> QED
  BY <1>2, <1>3, <1>4, <1>5, <1>6, <1>7 DEF Kinds

\* The pairs that the program sets are of the calendar.
LEMMA PairsAreOfCalendar ==
  ASSUME NEW pair \in SetRanges
  PROVE  OfCalendar([start |-> pair[1], end |-> pair[2]])
<1>1. pair[1] \in {-1000} \cup 1 .. 397 /\ pair[2] \in {-1000} \cup 1 .. 397
  BY DatesAssumption
<1> QED
  BY <1>1 DEF OfCalendar, Day, NoDate

\* No bound moves, whether it belongs to the range or not.
LEMMA BoundsStay ==
  ASSUME NEW pair \in SetRanges, NEW included
  PROVE  Bounds(pair, included) = [start |-> pair[1], end |-> pair[2]]
<1>1. \A d, e : AppliedBound(d, e \in included, e \in included) = d
  BY DEF AppliedBound
<1> QED
  BY <1>1 DEF Bounds

\* The types, and that the program knows the range, make the property.
LEMMA RangeIsShownOfOK ==
  ASSUME ControlOK(control)
  PROVE  RangeIsShown
<1> SUFFICES ASSUME Settled(control)
             PROVE  /\ \A kind \in Kinds :
                         /\ Settled(WithCombo(control, kind))
                         /\ kind \in {"Day", "Week", "Month", "Year"} =>
                              /\ WithCombo(control, kind).range.start <= WithCombo(control, kind).edit
                              /\ WithCombo(control, kind).edit <= WithCombo(control, kind).range.end
                         /\ kind = "Custom" => WithCombo(control, kind).range = control.range
                    /\ \A pair \in SetRanges :
                         LET r == [start |-> pair[1], end |-> pair[2]]
                             c == WithRange(control, Bounds(pair, Both))
                         IN  ~Throws(r) =>
                               /\ c.range = r
                               /\ \/ Settled(c) \/ c.combo = "Month" \/ {c.combo, control.combo} = {"Custom"}
                                  \/ c.combo = "Year" /\ r.start \notin YearStarts
  BY DEF RangeIsShown, ControlOK
<1>1. ASSUME NEW kind \in Kinds, NEW n, n = WithCombo(control, kind)
      PROVE  /\ Settled(n)
             /\ kind \in {"Day", "Week", "Month", "Year"} => n.range.start <= n.edit /\ n.edit <= n.range.end
             /\ kind = "Custom" => n.range = control.range
  <2>1. /\ ControlOK(n) /\ n.combo = kind /\ Settled(n)
        /\ kind = "Custom" => n.range = control.range
    BY <1>1, Choosing
  <2>2. n.combo \in {"Day", "Week", "Month", "Year"} => Selected(n).start <= n.edit /\ n.edit <= Selected(n).end
    BY <2>1, SelectionIsRange DEF ControlOK
  <2>3. Selected(n) = n.range
    BY <2>1 DEF Settled
  <2> QED
    BY <2>1, <2>2, <2>3
<1>2. ASSUME NEW pair \in SetRanges, NEW r, r = [start |-> pair[1], end |-> pair[2]],
             NEW c, c = WithRange(control, Bounds(pair, Both)), ~Throws(r)
      PROVE  /\ c.range = r
             /\ \/ Settled(c) \/ c.combo = "Month" \/ {c.combo, control.combo} = {"Custom"}
                \/ c.combo = "Year" /\ r.start \notin YearStarts
  <2>1. OfCalendar(r)
    BY <1>2, PairsAreOfCalendar
  <2>2. /\ ControlOK(c) /\ c.range = r /\ c.combo = KindOf(r) /\ ~c.suppress
        /\ c.combo \in {"Day", "Week", "Year"} => c.edit = r.start
        /\ c.combo = "Custom" /\ control.combo # "Custom" => Shows(c, r)
    <3>1. c = WithRange(control, r)
      BY <1>2, BoundsStay
    <3>2. ControlOK(c) /\ (~Throws(r) => /\ c.range = r /\ c.combo = KindOf(r) /\ ~c.suppress
                                         /\ c.combo \in {"Day", "Week", "Year"} => c.edit = r.start
                                         /\ c.combo = "Custom" /\ control.combo # "Custom" => Shows(c, r))
      BY <2>1, <3>1, SettingARange
    <3> QED
      BY <1>2, <3>2
  <2>3. ASSUME c.combo # "Month", {c.combo, control.combo} # {"Custom"},
               ~(c.combo = "Year" /\ r.start \notin YearStarts)
        PROVE  Settled(c)
    <3>1. c.combo = "Custom" => Shows(c, r)
      BY <2>2, <2>3
    <3>2. Selected(c) = r
      BY <2>1, <2>2, <2>3, <3>1, Fitting DEF ControlOK
    <3> QED
      BY <2>2, <3>2 DEF Settled
  <2> QED
    BY <2>2, <2>3
<1> QED
  BY <1>1, <1>2

\* What the program knows, and is shown, of the range, whatever is chosen, edited or set:
\* the date control of SelectDateRange.
THEOREM RangeStaysShown == ControlSpec => []RangeIsShown
<1>1. ControlInit => ControlOK(control)
  <2> SUFFICES ASSUME NEW kind \in Kinds,
                      control = DateUpdated([combo |-> kind, edit |-> 1, start |-> 1, end |-> 1, checked |-> Both,
                                             range |-> None, suppress |-> FALSE, known |-> None])
               PROVE  ControlOK(control)
    BY DEF ControlInit
  <2> DEFINE c == [combo |-> kind, edit |-> 1, start |-> 1, end |-> 1, checked |-> Both,
                   range |-> None, suppress |-> FALSE, known |-> None]
  <2>1. c \in Control
    BY DEF Control, Day, None, NoDate, Range2
  <2>2. ControlOK(c)
    BY <2>1 DEF ControlOK
  <2>3. control = DateUpdated(c)
    OBVIOUS
  <2> HIDE DEF c
  <2> QED
    BY <2>2, <2>3, Updating
<1>2. ControlOK(control) /\ [ControlNext]_control => ControlOK(control')
  <2> SUFFICES ASSUME ControlOK(control), [ControlNext]_control
               PROVE  ControlOK(control')
    OBVIOUS
  <2>1. ASSUME NEW kind \in Kinds, ChooseKind(kind) PROVE ControlOK(control')
    BY <2>1, Choosing DEF ChooseKind
  <2>2. ASSUME NEW d \in Dates, EditDate(d) \/ EditStart(d) \/ EditEnd(d) PROVE ControlOK(control')
    <3>1. d \in Day /\ d \in Int
      BY DatesAssumption DEF Day
    <3>2. /\ Edited(control, WithEdit(control, d)) /\ Edited(control, WithStart(control, d))
          /\ Edited(control, WithEnd(control, d))
      BY <3>1, Editing
    <3> QED
      BY <2>2, <3>2 DEF EditDate, EditStart, EditEnd, Edited
  <2>3. ASSUME NEW e \in Both, Toggle(e) PROVE ControlOK(control')
    <3> DEFINE k == IF e \in control.checked THEN control.checked \ {e} ELSE control.checked \cup {e}
               c == [control EXCEPT !.checked = k]
    <3>1. k \in SUBSET Both
      BY <2>3 DEF ControlOK, Control
    <3>2. control' = RangeRefreshed(c)
      BY <2>3 DEF Toggle
    <3> HIDE DEF k
    <3>3. ControlOK(c)
      BY <3>1 DEF ControlOK, Control
    <3> HIDE DEF c
    <3> QED
      BY <3>2, <3>3, Refreshing
  <2>4. ASSUME NEW pair \in SetRanges, NEW included, SetDateRange(pair, included) PROVE ControlOK(control')
    <3> DEFINE r == [start |-> pair[1], end |-> pair[2]]
    <3>1. OfCalendar(r)
      BY PairsAreOfCalendar
    <3>2. control' = WithRange(control, r)
      BY <2>4, BoundsStay DEF SetDateRange
    <3> HIDE DEF r
    <3> QED
      BY <3>1, <3>2, SettingARange
  <2>5. CASE SetDayFormat
    BY <2>5, Updating DEF SetDayFormat
  <2>6. CASE UNCHANGED control
    BY <2>6
  <2> QED
    BY <2>1, <2>2, <2>3, <2>4, <2>5, <2>6 DEF ControlNext
<1>3. ControlOK(control) => RangeIsShown
  BY RangeIsShownOfOK
<1> DEFINE OK == ControlOK(control)
<1>4. ControlInit => OK
  BY <1>1
<1>5. OK /\ [ControlNext]_control => OK'
  <2>1. OK' <=> ControlOK(control')
    BY DEF ControlOK, Control
  <2> QED
    BY <1>2, <2>1
<1>6. OK => RangeIsShown
  BY <1>3
<1> HIDE DEF OK
<1> QED
  BY <1>4, <1>5, <1>6, PTL DEF ControlSpec
=============================================================================
