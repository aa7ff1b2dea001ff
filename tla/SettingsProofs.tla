-------------------------- MODULE SettingsProofs --------------------------
(***************************************************************************)
(* Settings for any set of clients, keys and values: no wakeup is lost, no *)
(* command is overwritten, and a clean cache is on disk.                   *)
(***************************************************************************)
EXTENDS SettingsDurability, TLAPS

\* Who can be asleep, by the command in the mailbox and the destructor's stage.
Sleepers ==
  life # "gone" =>
    /\ command \in {"sleep", "exit"} => asleep \subseteq {"worker"}
    /\ "worker" \in asleep => worker = "ready" /\ (command = "sleep" \/ life = "leaving")
    /\ \A c \in Clients : c \in asleep => call[c] \in Blocking /\ ~MayProceed(call[c])

\* How the worker's position and the destructor's stage go with the command.
Mailbox ==
  life # "gone" =>
    /\ worker \in {"reading", "loaded", "loadFailed"} => command = "reload"
    /\ worker \in {"opening", "writing", "sealing", "written", "writeFailed"}
         => command = "write"
    /\ worker = "exited" => command = "exit"
    /\ command = "exit" <=> life \in {"leaving", "joining"}
    /\ life = "saving" => command \in {"write", "sleep"}

Inv == TypeOK /\ Sleepers /\ Mailbox

---------------------------------------------------------------------------
(* Maps *)

LEMMA SomeIsMap ==
  ASSUME NEW m \in Map
  PROVE  Some(m) \subseteq Map
BY DEF Some, Map

LEMMA PartsAreMaps ==
  ASSUME NEW m \in Map
  PROVE  Parts(m) \subseteq Map
<1> SUFFICES ASSUME NEW q \in Parts(m) PROVE q \in Map
  OBVIOUS
<1>1. CASE q \in Some(m)
  BY <1>1, SomeIsMap
<1>2. CASE q \in {[p EXCEPT ![k] = Garbled] : p \in Some(m), k \in {k \in Keys : m[k] # Absent}}
  <2> PICK p \in Some(m), k \in Keys : q = [p EXCEPT ![k] = Garbled]
    BY <1>2
  <2>1. p \in Map
    BY SomeIsMap
  <2> QED BY <2>1 DEF Map
<1> QED BY <1>1, <1>2 DEF Parts

LEMMA EmptyIsMap == Empty \in Map
BY DEF Empty, Map

\* Waking someone only shrinks the set of sleepers, and empties a singleton.
LEMMA NotifyShrinks ==
  ASSUME NotifyOne
  PROVE  /\ asleep' \subseteq asleep
         /\ \A p : asleep \subseteq {p} => asleep' = {}
BY DEF NotifyOne

---------------------------------------------------------------------------
(* Type correctness *)

LEMMA TypeInit == Init => TypeOK
<1> SUFFICES ASSUME Init PROVE TypeOK
  OBVIOUS
<1>1. file \in [state : FileState, lines : Map]
  BY EmptyIsMap DEF Init, FileState
<1>2. data \in Map /\ prevData \in Map /\ copy \in Map
  BY EmptyIsMap DEF Init
<1> QED BY <1>1, <1>2 DEF Init, TypeOK, Command, WorkerState

LEMMA TypeClient ==
  ASSUME TypeOK, NEW c \in Clients, ClientStep(c)
  PROVE  TypeOK'
<1> USE DEF TypeOK, Return, At, Unblocked, Blocking, Command, cache, job
<1>1. CASE Block(c)
  BY <1>1 DEF Block
<1>2. CASE Reload(c) \/ CommitChanges(c)
  BY <1>2, NotifyShrinks DEF Reload, CommitChanges
<1>3. CASE RejectChanges(c) \/ Read(c)
  BY <1>3 DEF RejectChanges, Read, cache
<1>4. ASSUME NEW k \in Keys, Remove(c, k) PROVE TypeOK'
  BY <1>4 DEF Remove, Map
<1>5. ASSUME NEW k \in Keys, NEW v \in Values, SetValue(c, k, v) PROVE TypeOK'
  BY <1>5 DEF SetValue, Map
<1>6. ASSUME NEW m \in [Keys -> Values \union {Absent}], SetValues(c, m) PROVE TypeOK'
  BY <1>6 DEF SetValues, Map
<1> QED BY <1>1, <1>2, <1>3, <1>4, <1>5, <1>6 DEF ClientStep

LEMMA TypeWorker ==
  ASSUME TypeOK, WorkerStep
  PROVE  TypeOK'
<1> USE DEF TypeOK, WorkerAt, WorkerState, cache, job
<1>1. CASE WorkerSleeps \/ WorkerExits \/ StartReload
  BY <1>1 DEF WorkerSleeps, WorkerExits, StartReload
<1>2. CASE ReadFile
  BY <1>2 DEF ReadFile
<1>3. CASE ReadFails
  BY <1>3, SomeIsMap DEF ReadFails
<1>4. CASE FinishReload
  BY <1>4, EmptyIsMap DEF FinishReload, Idle, Command
<1>5. CASE StartWrite
  BY <1>5 DEF StartWrite
<1>6. CASE OpenFile
  BY <1>6, EmptyIsMap DEF OpenFile, FileState
<1>7. CASE WriteLines
  BY <1>7, PartsAreMaps DEF WriteLines, FileState
<1>8. CASE SealFile
  BY <1>8 DEF SealFile, FileState
<1>9. CASE WriteFails \/ CloseFails
  BY <1>9 DEF WriteFails, CloseFails
<1>10. CASE FinishWrite
  BY <1>10, EmptyIsMap DEF FinishWrite, Idle, Command
<1> QED
  BY <1>1, <1>2, <1>3, <1>4, <1>5, <1>6, <1>7, <1>8, <1>9, <1>10 DEF WorkerStep

LEMMA TypeOwner ==
  ASSUME TypeOK, OwnerStep \/ Construct \/ Destroy \/ Crash \/ SpuriousWakeup
  PROVE  TypeOK'
<1> USE DEF TypeOK, Command, cache, job
<1>1. CASE OwnerSleeps \/ SaveOnExit \/ OrderExit
  BY <1>1 DEF OwnerSleeps, SaveOnExit, OrderExit
<1>2. CASE NotifyExit
  BY <1>2, NotifyShrinks DEF NotifyExit
<1>3. CASE Join \/ Construct \/ Crash
  BY <1>3, EmptyIsMap DEF Join, Construct, Crash, FreshMembers, WorkerState
<1>4. CASE Destroy \/ SpuriousWakeup
  BY <1>4 DEF Destroy, SpuriousWakeup
<1> QED BY <1>1, <1>2, <1>3, <1>4 DEF OwnerStep

LEMMA TypeNext == TypeOK /\ [Next]_vars => TypeOK'
<1> SUFFICES ASSUME TypeOK, [Next]_vars PROVE TypeOK'
  OBVIOUS
<1>1. CASE UNCHANGED vars
  BY <1>1 DEF vars, cache, job, TypeOK
<1> QED BY <1>1, TypeClient, TypeWorker, TypeOwner DEF Next

\* Every variable keeps its type, for any clients, keys and values.
THEOREM TypeCorrect == Spec => []TypeOK
BY TypeInit, TypeNext, PTL DEF Spec

---------------------------------------------------------------------------
(* Who can be asleep *)

LEMMA SleepersInit == Init => Sleepers /\ Mailbox
BY DEF Init, Sleepers, Mailbox

LEMMA SleepersClient ==
  ASSUME Inv, NEW c \in Clients, ClientStep(c)
  PROVE  (Sleepers /\ Mailbox)'
<1> USE OtherThreads DEF Inv, TypeOK, At, Return, Unblocked, Blocking, MayProceed, cache, job
<1>1. CASE Block(c)
  BY <1>1 DEF Block, Sleepers, Mailbox
<1>2. CASE Reload(c) \/ CommitChanges(c)
  <2>1. life = "open" /\ UNCHANGED <<life, worker>> /\ command = "sleep"
    BY <1>2 DEF Reload, CommitChanges
  <2>2. asleep' = {} /\ command' \in {"reload", "write"}
    BY <1>2, <2>1, NotifyShrinks DEF Reload, CommitChanges, Sleepers
  <2> QED BY <2>1, <2>2 DEF Sleepers, Mailbox
<1>3. CASE RejectChanges(c) \/ Read(c)
  BY <1>3 DEF RejectChanges, Read, Sleepers, Mailbox
<1>4. ASSUME NEW k \in Keys, Remove(c, k) PROVE (Sleepers /\ Mailbox)'
  BY <1>4 DEF Remove, Sleepers, Mailbox
<1>5. ASSUME NEW k \in Keys, NEW v \in Values, SetValue(c, k, v)
      PROVE  (Sleepers /\ Mailbox)'
  BY <1>5 DEF SetValue, Sleepers, Mailbox
<1>6. ASSUME NEW m \in [Keys -> Values \union {Absent}], SetValues(c, m)
      PROVE  (Sleepers /\ Mailbox)'
  BY <1>6 DEF SetValues, Sleepers, Mailbox
<1> QED BY <1>1, <1>2, <1>3, <1>4, <1>5, <1>6 DEF ClientStep

LEMMA SleepersWorker ==
  ASSUME Inv, WorkerStep
  PROVE  (Sleepers /\ Mailbox)'
<1> USE OtherThreads DEF Inv, TypeOK, WorkerAt, WorkerState, Command, cache, job
<1>1. CASE WorkerSleeps
  BY <1>1 DEF WorkerSleeps, Sleepers, Mailbox, MayProceed
<1>2. CASE WorkerExits \/ StartReload \/ StartWrite
  BY <1>2 DEF WorkerExits, StartReload, StartWrite, Sleepers, Mailbox, MayProceed
<1>3. CASE ReadFile \/ ReadFails \/ OpenFile \/ WriteLines \/ SealFile \/ WriteFails
           \/ CloseFails
  BY <1>3 DEF ReadFile, ReadFails, OpenFile, WriteLines, SealFile, WriteFails,
              CloseFails, Sleepers, Mailbox, MayProceed
<1>4. CASE FinishReload \/ FinishWrite
  <2>1. Idle /\ life' = life /\ command \in {"reload", "write"}
    BY <1>4 DEF FinishReload, FinishWrite, Mailbox
  <2> QED BY <2>1 DEF Idle, Sleepers, Mailbox
<1> QED BY <1>1, <1>2, <1>3, <1>4 DEF WorkerStep

LEMMA SleepersOwner ==
  ASSUME Inv, OwnerStep \/ Construct \/ Destroy \/ Crash \/ SpuriousWakeup
  PROVE  (Sleepers /\ Mailbox)'
<1> USE OtherThreads DEF Inv, TypeOK, OwnerAt, cache, job
<1>1. CASE OwnerSleeps
  BY <1>1 DEF OwnerSleeps, Sleepers, Mailbox, MayProceed
<1>2. CASE SaveOnExit
  BY <1>2 DEF SaveOnExit, Sleepers, Mailbox
<1>3. CASE OrderExit
  BY <1>3 DEF OrderExit, Sleepers, Mailbox
<1>4. CASE NotifyExit
  <2>1. life = "leaving" /\ command = "exit"
    BY <1>4 DEF NotifyExit, Mailbox
  <2>2. asleep' = {}
    BY <1>4, <2>1, NotifyShrinks DEF NotifyExit, Sleepers
  <2> QED BY <1>4, <2>1, <2>2 DEF NotifyExit, Sleepers, Mailbox
<1>5. CASE Join \/ Crash
  BY <1>5 DEF Join, Crash, Sleepers, Mailbox
<1>6. CASE Construct
  BY <1>6 DEF Construct, FreshMembers, Sleepers, Mailbox
<1>7. CASE Destroy
  BY <1>7 DEF Destroy, Sleepers, Mailbox, MayProceed
<1>8. CASE SpuriousWakeup
  BY <1>8 DEF SpuriousWakeup, Sleepers, Mailbox, MayProceed
<1> QED BY <1>1, <1>2, <1>3, <1>4, <1>5, <1>6, <1>7, <1>8 DEF OwnerStep

LEMMA InvNext == Inv /\ [Next]_vars => Inv'
<1> SUFFICES ASSUME Inv, [Next]_vars PROVE Inv'
  OBVIOUS
<1>1. TypeOK'
  BY TypeNext DEF Inv
<1>2. (Sleepers /\ Mailbox)'
  <2>1. CASE UNCHANGED vars
    BY <2>1 DEF vars, cache, job, Inv, Sleepers, Mailbox, MayProceed
  <2> QED BY <2>1, SleepersClient, SleepersWorker, SleepersOwner DEF Next
<1> QED BY <1>1, <1>2 DEF Inv

LEMMA InvHolds == Spec => []Inv
<1>1. Init => Inv
  BY TypeInit, SleepersInit DEF Inv
<1> QED BY <1>1, InvNext, PTL DEF Spec

\* No thread sleeps on a condition that holds: at a notify_one only the worker can
\* be asleep, and whenever the worker goes idle it notifies everybody.
THEOREM NoWakeupIsLost == Spec => []NoLostWakeup
<1>1. Inv => NoLostWakeup
  <2> SUFFICES ASSUME Inv, life # "gone", NEW p \in asleep, Awaited(p)
               PROVE  p = "worker" /\ life = "leaving"
    BY DEF NoLostWakeup
  <2>1. CASE p = "worker"
    BY <2>1, OtherThreads DEF Inv, Sleepers, Awaited
  <2>2. CASE p = "owner"
    BY <2>2, OtherThreads DEF Inv, Sleepers, Awaited
  <2>3. CASE p \in Clients
    BY <2>3, OtherThreads DEF Inv, Sleepers, Awaited
  <2> QED BY <2>1, <2>2, <2>3 DEF Inv, TypeOK
<1> QED BY <1>1, InvHolds, PTL

\* A command stays in the mailbox until the worker has carried it out.
THEOREM CommandsStay == Spec => CommandsAreCarriedOut
<1>1. Inv /\ [Next]_vars =>
        [life # "gone" /\ life' # "gone" /\ command' # command =>
           command = "sleep" \/ command' = "sleep"]_vars
  <2> SUFFICES ASSUME Inv, Next, life # "gone", life' # "gone", command' # command
               PROVE  command = "sleep" \/ command' = "sleep"
    OBVIOUS
  <2>1. ASSUME NEW c \in Clients, ClientStep(c) PROVE command = "sleep"
    BY <2>1 DEF ClientStep, Block, Reload, CommitChanges, RejectChanges, Read, Remove,
                SetValue, SetValues, Unblocked, MayProceed
  <2>2. CASE WorkerStep
    BY <2>2 DEF WorkerStep, WorkerSleeps, WorkerExits, StartReload, ReadFile, ReadFails,
                FinishReload, StartWrite, OpenFile, WriteLines, SealFile, WriteFails,
                CloseFails, FinishWrite, Idle
  <2>3. CASE OwnerStep
    BY <2>3 DEF OwnerStep, OwnerSleeps, SaveOnExit, OrderExit, NotifyExit, Join
  <2>4. CASE Construct \/ Destroy \/ Crash \/ SpuriousWakeup
    BY <2>4 DEF Construct, Destroy, Crash, SpuriousWakeup
  <2> QED BY <2>1, <2>2, <2>3, <2>4 DEF Next
<1> QED BY <1>1, InvHolds, PTL DEF Spec, CommandsAreCarriedOut

---------------------------------------------------------------------------
(* The clean cache is on disk *)

\* A step that is none of RejectOrFail leaves the history variable false only if
\* it reconciles or if it was false before; and a reconciling step moves the
\* worker or creates the object.
LEMMA Unestranged ==
  ASSUME DNext, ~estranged'
  PROVE  ~RejectOrFail /\ (Reconcile \/ ~estranged)
<1>1. CASE RejectOrFail
  BY <1>1 DEF DNext
<1>2. CASE ~RejectOrFail /\ ~Reconcile
  BY <1>2 DEF DNext
<1> QED BY <1>1, <1>2

LEMMA ReconcileMoves ==
  ASSUME Reconcile
  PROVE  (worker' \in {"opening", "loaded"} /\ worker' # worker) \/ life = "gone"
BY DEF Reconcile, StartWrite, ReadFile, Construct, WorkerAt

LEMMA DurableClient ==
  ASSUME Inv, Durable, NEW c \in Clients, ClientStep(c), ~RejectOrFail, ~estranged, ~estranged'
  PROVE  Durable'
<1> USE DEF At, Unblocked, cache, job
<1>1. ~RejectChanges(c)
  BY DEF RejectOrFail
<1>2. life = "open" /\ life' = life /\ worker' = worker /\ copy' = copy /\ file' = file
  BY <1>1 DEF ClientStep, Block, Reload, CommitChanges, Read, Remove, SetValue, SetValues
<1>3. (data' = data /\ dirty' = dirty) \/ dirty' = TRUE
  <2>1. CASE Block(c) \/ Reload(c) \/ CommitChanges(c) \/ Read(c)
    BY <2>1 DEF Block, Reload, CommitChanges, Read
  <2>2. ASSUME NEW k \in Keys, Remove(c, k) PROVE (data' = data /\ dirty' = dirty) \/ dirty' = TRUE
    <3>1. CASE data[k] # Absent
      BY <2>2, <3>1 DEF Remove
    <3>2. CASE data[k] = Absent
      BY <2>2, <3>2 DEF Remove, Inv, TypeOK, Map
    <3> QED BY <3>1, <3>2
  <2>3. ASSUME NEW k \in Keys, NEW v \in Values, SetValue(c, k, v) PROVE dirty' = TRUE
    BY <2>3 DEF SetValue
  <2>4. ASSUME NEW m \in [Keys -> Values \union {Absent}], SetValues(c, m) PROVE dirty' = TRUE
    BY <2>4 DEF SetValues
  <2> QED BY <1>1, <2>1, <2>2, <2>3, <2>4 DEF ClientStep
<1> QED BY <1>2, <1>3 DEF Durable, OnDisk

LEMMA DurableWorker ==
  ASSUME Inv, Durable, WorkerStep, ~RejectOrFail, ~estranged', Reconcile \/ ~estranged
  PROVE  Durable'
<1> USE DEF WorkerAt, cache, job, Durable, OnDisk
<1>1. ~ReadFails /\ ~WriteFails /\ ~CloseFails
  BY DEF RejectOrFail
<1>2. CASE StartWrite
  BY <1>2 DEF StartWrite, Inv, Mailbox
<1>3. CASE ReadFile
  BY <1>3 DEF ReadFile, Inv, Mailbox
<1>4. CASE ~estranged /\ (WorkerSleeps \/ WorkerExits \/ StartReload)
  BY <1>4 DEF WorkerSleeps, WorkerExits, StartReload, Inv, Mailbox
<1>5. CASE ~estranged /\ FinishReload
  BY <1>5 DEF FinishReload, Idle, Inv, Mailbox
<1>6. CASE ~estranged /\ (OpenFile \/ WriteLines \/ SealFile)
  BY <1>6 DEF OpenFile, WriteLines, SealFile
<1>7. CASE ~estranged /\ FinishWrite
  BY <1>7 DEF FinishWrite, Idle, Inv, Mailbox
<1>8. ~Reconcile \/ StartWrite \/ ReadFile
  BY DEF WorkerStep, Reconcile, Construct, WorkerSleeps, WorkerExits, StartReload, ReadFile,
         ReadFails, FinishReload, StartWrite, OpenFile, WriteLines, SealFile, WriteFails,
         CloseFails, FinishWrite
<1> QED BY <1>1, <1>2, <1>3, <1>4, <1>5, <1>6, <1>7, <1>8 DEF WorkerStep

LEMMA DurableOwner ==
  ASSUME Inv, Durable, OwnerStep \/ Construct \/ Destroy \/ Crash \/ SpuriousWakeup,
         ~estranged', Reconcile \/ ~estranged
  PROVE  Durable'
<1> USE DEF cache, job, Durable, OnDisk
<1>1. CASE Construct
  BY <1>1 DEF Construct, FreshMembers
<1>2. CASE Join \/ Crash
  BY <1>2 DEF Join, Crash
<1>3. CASE OwnerSleeps \/ SaveOnExit \/ OrderExit \/ NotifyExit \/ Destroy \/ SpuriousWakeup
  <2>1. worker' = worker /\ life # "gone"
    BY <1>3 DEF OwnerSleeps, SaveOnExit, OrderExit, NotifyExit, Destroy, SpuriousWakeup,
                OwnerAt
  <2>2. ~estranged
    BY <2>1, ReconcileMoves
  <2>3. CASE OwnerSleeps \/ NotifyExit \/ SpuriousWakeup
    BY <2>2, <2>3 DEF OwnerSleeps, NotifyExit, SpuriousWakeup, OwnerAt
  <2>4. CASE Destroy
    BY <2>2, <2>4 DEF Destroy
  <2>5. CASE SaveOnExit
    BY <2>2, <2>5 DEF SaveOnExit, OwnerAt, Inv, Mailbox, TypeOK, WorkerState
  <2>6. CASE OrderExit
    <3>1. ~dirty /\ life # "gone" /\ life' = "leaving"
      BY <2>2, <2>6 DEF OrderExit, OwnerAt
    <3> QED BY <2>1, <2>2, <2>6, <3>1 DEF OrderExit
  <2> QED BY <1>3, <2>3, <2>4, <2>5, <2>6
<1> QED BY <1>1, <1>2, <1>3 DEF OwnerStep

LEMMA DurableNext == Inv /\ Durable /\ [DNext]_dvars => Durable'
<1> SUFFICES ASSUME Inv, Durable, [DNext]_dvars PROVE Durable'
  OBVIOUS
<1>1. CASE UNCHANGED dvars
  BY <1>1 DEF dvars, vars, cache, job, Durable, OnDisk
<1>2. CASE DNext /\ estranged'
  BY <1>2 DEF Durable
<1>3. CASE DNext /\ ~estranged'
  <2>1. ~RejectOrFail /\ (Reconcile \/ ~estranged)
    BY <1>3, Unestranged
  <2>2. ASSUME NEW c \in Clients, ClientStep(c) PROVE Durable'
    <3>1. worker' = worker /\ life # "gone"
      BY <2>2 DEF ClientStep, Block, Reload, CommitChanges, RejectChanges, Read, Remove,
                  SetValue, SetValues, Unblocked, At
    <3>2. ~estranged
      BY <2>1, <3>1, ReconcileMoves
    <3> QED BY <1>3, <2>1, <2>2, <3>2, DurableClient
  <2>3. CASE WorkerStep
    BY <1>3, <2>1, <2>3, DurableWorker
  <2>4. CASE OwnerStep \/ Construct \/ Destroy \/ Crash \/ SpuriousWakeup
    BY <1>3, <2>1, <2>4, DurableOwner
  <2> QED BY <1>3, <2>2, <2>3, <2>4 DEF DNext, Next
<1> QED BY <1>1, <1>2, <1>3

LEMMA DurableHolds == DSpec => [](Inv /\ Durable)
<1>1. DInit => Inv /\ Durable
  BY TypeInit, SleepersInit DEF DInit, Init, Inv, Durable
<1>2. [DNext]_dvars => [Next]_vars
  BY DEF DNext, dvars
<1> QED BY <1>1, <1>2, InvNext, DurableNext, PTL DEF DSpec

\* A clean cache of an idle object is what the file holds, however callers and the
\* worker's writes interleave, up to rejected changes and failed file operations.
THEOREM CleanIsOnDisk == DSpec => []CleanCacheIsOnDisk
<1>1. Inv /\ Durable => CleanCacheIsOnDisk
  <2> SUFFICES ASSUME Inv, Durable, life = "open", command = "sleep", ~dirty, ~estranged
               PROVE  OnDisk
    BY DEF CleanCacheIsOnDisk
  <2>1. worker = "ready"
    BY DEF Inv, TypeOK, WorkerState, Mailbox
  <2> QED BY <2>1 DEF Durable
<1> QED BY <1>1, DurableHolds, PTL

\* A destructor that returns leaves everything the clients set in the file.
THEOREM ExitSaves == DSpec => []DestructorSaves
<1>1. Inv /\ Durable => DestructorSaves
  <2> SUFFICES ASSUME Inv, Durable, life = "joining", ~estranged PROVE OnDisk
    BY DEF DestructorSaves
  <2>1. worker \in {"ready", "exited"}
    BY DEF Inv, TypeOK, WorkerState, Mailbox
  <2> QED BY <2>1 DEF Durable
<1> QED BY <1>1, DurableHolds, PTL
============================================================================
