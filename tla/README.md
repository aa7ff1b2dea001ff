# Verification of gutil in TLA+

gutil is a C++ utility library: a core without dependencies (`src/src/core`), a Qt part (`src/src/qt`),
wrappers of Crypto++ and a small games library. This directory holds TLA+ modules that model its stateful
and concurrent components and its data structures, the TLC configurations that check them on small
instances, and proofs for the TLA+ proof system that carry results over to instances of any size.

## The system

| component | state it keeps | operations | what is hard about it | modules |
|---|---|---|---|---|
| Queued logger, exception logging (`core/logging`) | a queue, `m_closing`, a worker thread | `Log`, `LogException`, destructor | the worker writes with the lock released; shutdown against a worker that sleeps, writes or has not started | `QueuedLogger`, `LogChannel` |
| Settings (`core/data_access/settings`) | the cached map, the last committed map, `m_dirty`, `m_command`, the file, a worker thread | `SetValue(s)`, `Remove`, the getters, `CommitChanges`, `RejectChanges`, `Reload`, destructor | three predicates on one condition variable, changes during a write, failing and crashing file accesses | `Settings`, `SettingsDurability` |
| Undo stack (`core/utils/undostack`) | the stack, `m_ptr`, the macro being built | `Do`, `Undo`, `Redo`, `BeginMacro`, `CommitMacro`, `RollbackMacro`, `Clear` | long call sequences, exceptions thrown by commands | `UndoStack`, `EditHistory` |
| Machine locks (`qt/utils/usermachinelocks`) | a map from lock names to read-write locks of the process, an exclusive lock file | lock for read or write, unlock, set the file name, destructor | two levels of locks, a map changed while others use it | `MachineLocks`, `ExclusiveLocks` |
| Universal mutex (`qt/utils/universalmutex`) | a lock file that several machines write and read back, a file watcher, a background thread | `Lock`, `Unlock`, `SetFilePath`, `HasLock`, the watcher's slot | mutual exclusion by writing a file and reading it back | `UniversalMutex` |
| Console device (`qt/data_access/consoleiodevice`) | static queues, counters and two worker threads, used by one instance after another | `WriteLine`, `WaitForLineWritten`, `ReadLine`, `WaitForReadyRead`, destructor | blocking calls against two threads, statics that outlive an instance | `ConsoleIODevice` |
| File device (`qt/data_access/fileiodevice`, `qt_iodevice`, `iodevice`) | a mutex, the write mode, the file name, the time of the last update | `SendData`, `ReceiveData`, `TruncateFile`, `SetFileName` | exceptions between lock and unlock, a mode changed without the mutex, a time noted too late | `FileDevice` on `ExclusiveLocks` |
| Process status indicator (`qt/business_objects`) | a machine lock, a status, a local server | `IsProcessRunning`, `SetIsProcessRunning`, `SendMessageToControllingProcess`, destructor | crashes, one process starting while another stops | `ProcessStatus` on `ExclusiveLocks` |
| Shared smart pointer (`core/utils/smartpointer.h`) | an atomic reference count | copy, assign, `Clear`, `Detach` | counts shared by threads | `SharedPointer` |
| Stopwatch (`qt/utils/stopwatchengine`) | start, last time, marks, a flag, a read-write lock | `StartStop`, `Reset`, `Mark`, `Refresh`, the getters | writes under a lock for reading, signals after the lock | `Timers` |
| Files and streams (`core/data_access/file`, `interfaces/iio.h`, `sourcesandsinks`) | a file with its position and its open mode | six ways of opening, `Read`, `ReadLine`, `Write`, `Seek`, `Touch`, `Delete`, `Pump` | boundaries of chunks and lengths | `Files` |
| Files in chunks, serial port (`qt/utils/datatransferutils`, `core/data_access/serialport`) | what was moved so far, a flag; a handle | write, copy and read a file; `Initialize`, `Close`, `ReadBytes`, `WriteBytes` | results that are not looked at, files that change, a flag set by another thread, sizes in an int | `Transfers` |
| Console and menu (`core/data_access/console`, `utils/commandlinemenu`) | a buffer of fixed size; the current item | `ReadLine`, `Read`, `WriteLine`; `Exec` | input longer than a buffer | `Files` |
| Safe files, encryption (`cryptopp/gpsutils`, `cryptopp_cryptor`) | a file of messages behind a header, hashes, keys | export, import, encryption in chunks, credentials | failed writes, cancelled calls, lengths read from the file | `GpsFile` |
| Vectors, lists, heap, bits, flags (`core/data_objects`) | memory that holds objects or not, links, pages | insert, remove, search, sort, copy, iterate | objects moved by hand, cached neighbours, boundaries | `ElementSequences`, `Vector`, `LinkedLists`, `PagedList`, `Collections` |
| Search tree, map, set | nodes linked to parent and children, with cached heights and subtree ends | `Add`, `Remove`, `Clear`, copy, `Search`, iterators | relinking and caches that must stay right through long sequences of calls | `BinarySearchTree`, `KeySet`, `TreeProofs`, `MapAndSet` |
| Ranges and regions (`core/data_objects/range.h`) | two bounds; a list of ranges | union, complement and what is made of them, comparisons, `Contains` | open and closed bounds, holes, merging lists in place | `Region`, `StructureProofs` |
| Strings and encodings (`core/data_objects/string`, `qt/data_objects`) | a vector of characters with a null behind them; a variant | changes, searches, replacing, splitting; UTF-8, cases, base 64 and 16; the XML of variants and tables | making room for the null; boundaries of encodings; nested lists and maps | `Strings`, `Encodings` |
| Collections, data tables, models (`collection.h`, `datatable.h`, `qt/data_models`, `binarydatastore`) | a list with observers; columns, a map of their keys, rows of cells, update counts; a table in a database | insert, remove, set, commit, reject, find, copy; add, get, set | observers that refuse and alter; three structures kept in step by hand; processes that share a file | `Collections`, `Tables`, `DataStore` |
| Card decks (`games/cards`) | a deck, hands, cards by pointer | deal, collect, shuffle, sort | who owns a card | `Cards` |
| Timeline view, date control (`qt/model_views`, `qt/controls`) | items on a line of time, a drag; widgets and a range of dates | mouse, editor, rows that come and go; slots that run slots | rounding, reentrant slots | `Timeline`, `DateRange` |
| Fader, button, port watcher (`qt/ui`, `qt/controls`, `comportwatcher`) | a timer, a counter, visibility; a list of ports | fade in, out, skip; start, stop, ask | timers that are replaced and killed; a signal after the lock | `Timers` |
| the rest: log sinks, databases, other widgets, random numbers | | | forwarding, presentation, or calls of another library | not modelled |

How they interact: `SetGlobalLogger` wraps every global logger in a `QueuedLogger`, and `Settings` reports a
failed command to it. `Settings` reads and writes through `File`. The universal mutex, the process status
indicator and the file device are built on the machine locks. Maps and sets are search trees whose nodes
hold vectors; a string is a vector; tables are made of collections; a safe file goes through the streams.
Nothing else is shared: every modelled component owns its threads and locks.

`PROJECT.json` lists the components with their sources, the lines that each definition models (`map`), what
can go wrong in each of them (`hazards`), the runs, the findings and the theorems.

## Conventions

* A variable, operation or value that exists in the code has the name it has there. The first comment of a
  module names its source file.
* A critical section of a lock is one step. What happens while a lock is released is a step of its own. A
  thread blocked on a condition variable is in a set (or at a position) "asleep" that only a notification or
  a spurious wakeup ends; a woken thread tests its predicate again.
* A definition whose comment begins "A bug to detect" is a variant of the definition that follows it. No
  specification uses it. Exchanged for the original it makes the property named in `PROJECT.json`
  (`mutants`) fail, which shows that the property depends on that code.
* History variables (said to be such where they are declared) are only written.
* A property says what the code promises and, where the code fails, names the cases in which it does (often
  by a history variable): that the code is right in all others is what the run shows. Of these cases it says
  nothing, so that code that is right in them too would satisfy it.
* In the modules of single-threaded data a call is an operator from a value to a value, so that a property
  may also ask about calls that the behaviour does not make.
* Allocation failures are not modelled, nor is the wording of any message.

## The modules

### QueuedLogger, LogChannel, ThreadProofs

`QueuedLogger` has one action per critical section: `Enqueue` is `Log()`; `LogException` and
`LogInnerException` are the calls that `ILog::LogException` makes for an exception and the chain of its
inner exceptions, between which other threads may log. The worker's loop is cut where it takes, releases or
waits for the lock: `LoopHead` (the test of `m_closing`, then the wait's predicate), `Retest` after a
wakeup, `Take` (copy, pop, unlock), `Write` (the device, then the lock again). The destructor is `Close`,
`NotifyWorker`, `Join`; its precondition, that no thread is inside a call, is a guard of `Close`.

`LogChannel` says what a user may expect, without threads: entries come out in the order they went in, and a
channel that is shut down finishes with everything delivered or nothing. `ImplementsChannel` is the
refinement.

### Settings, SettingsDurability, SettingsProofs

`Settings` models the callers, the worker and the destructor around `m_lock` and the one condition variable.
A client that blocks is recorded in `call` and `asleep`. `_reload` is `StartReload`, `ReadFile` or
`ReadFails`, `FinishReload`; `_commit_changes` is `StartWrite`, `OpenFile`, `WriteLines`, `SealFile`,
`FinishWrite`, with `WriteFails` possible at each of them. The end of both, their `finally` body and the way
back to the wait, is `Idle`. The file is "absent", "damaged" (the place-holder of the checksum still in it)
or "sealed"; its lines are a map, and a line that was cut short holds the value `Garbled`. `Crash` removes
everything but the file; `Construct` starts the next program.

A write that fails in the middle leaves a file that is damaged or, when nothing was opened, the old one. The
base 64 lines, the header and the checksum function are left out; that a damaged file may pass its checksum
by chance is modelled by nothing (it is one in 2^32).

`SettingsDurability` adds the history variable `estranged`: set by `RejectChanges` and by a failed read or
write, after which the code makes no promise that a clean cache equals the file, and cleared by the next
write or successful load.

### UndoStack, EditHistory, StructureProofs

A command is a number, the document the sequence of the commands in force: `Do` appends, `Undo` is right
only if the command is the last in force and marks the document `Ruined` otherwise. That is the strictest
document there is: commands that do not commute at all. An entry of the stack is the sequence of its
commands (a macro of one command is replaced by the command in the code, which is the same sequence). The
command called n-th may throw (`DoThrows`, `UndoThrows`, `RedoThrows`, `RollbackThrows`); a macro that stops
half-way sets `torn`. `trail` is the history: the document at each position of the stack. `EditHistory` is
what a user sees, documents only; `ImplementsHistory` is the refinement.

### BinarySearchTree, KeySet, TreeProofs

A tree is a record: the root, `m_size` and one function for each field of the nodes. Keys are unique, so a
node is named by its key and 0 is the null pointer; the fields of a key without a node are 0. An operation
is an operator from trees to trees, composed of the private functions in the order of the code: `Removed` is
`_remove` with the replacement of the node (`Replacement`, `TakeOut`, `PutInPlace`) and the walk up to the
root (`WalkUp`, with `Refresh` and `Rebalance` at each node). The two rotations are one operator with the
sides exchanged. Iterators are records with the position and the two fields that let one come back from the
ends. `KeySet` is what the user sees: a call adds one key, removes one, empties the set, or copies it.
`ImplementsKeySet` is the refinement, through `Search`, and beyond it says of each call which step of the
set it is: `Add(k)` of the tree is `Add(k)` of the set, with the same key, and so on. What loops in
the code (`WalkUp`, `Search`, the copy) is a recursive function on a finite set of states.

### Region, StructureProofs

A bound holds a value, whether it is included, and whether it is null; a range two bounds; a region the list
of ranges and the flag of the universe. `MergeLists` is the loop of `Union`, `MergeNext` a turn of it: the
iterators stand between what was gone through, the last range looked at, and what is to come of each list.
`Carry` is one turn of the loop of `Complement`. Everything else is made of these two, as in the code. A
range or region denotes a set of `Points`, and the properties compare these sets. The value type is dense
and unbounded (`PointsAssumption`: the run has one point between any two bounds): for integers `(1, 2)`
would be empty, and `[1, 2]` the same as `[1, 3)`, which the code does not know. Bounds are positive
(`ValuesAssumption`): see "What was found".

### MachineLocks, MachineLocksProofs

An object locks in two levels: the read-write lock that its process keeps for the file name, found through
the static map `process_locks`, then the `QLockFile`. `Lock`, `Found`, `Grab` are `_grab_lock_in_process`
and `_get_lock_reference`; `TakeFile`, `FileRefused` and `FileFails` the rest of `lock`; `Unlock`, `Refind`,
`Release` are `UnlockForMachine` with `_release_lock`. `task` remembers why an object is unlocking, because
the destructor and `SetUserMachineLockFileName` go on afterwards. The look-up in the map takes two steps,
since the code inserts under a lock for reading: two overlapping uses of which one inserts set `status` to
"undefined", as does the use of a deleted lock, and the model stops there. What `QReadWriteLock` and
`QLockFile` do (`LetsIn`, the release of a dead process's file) is taken from how Qt documents them.

### UniversalMutex, UniversalMutexProofs

The machine mutex is one variable, `holder`, for each machine: the exclusion that `MachineLocks`
establishes. Between machines nothing is shared but the lock file, which reads as an identifier (an empty or
missing file as the null one). Each access to the file is a step: `ReadFile`, `Truncate`, `WriteId` and
`Verify` in `Lock`, `ClearFile` and `RemoveFile` in `Unlock`, `LookAtPath` and `CreateFile` in
`SetFilePath`. `Changed` is a change with the signal of every watcher; `LockFileUpdated`, `CheckFile`,
`GiveUp`, `EndThread` are the slot and the background thread. `_lockfile_lock` is not a variable: it is held
exactly while the object is inside a call or its thread is "losing" (`LockFree`). The files are opened
without a look at the result, so a failing open is an empty file to the reader and a write that goes
nowhere. `unverified` is a history variable: the agents whose `Lock` returned without the lock.

### ConsoleIODevice

One user thread (the header excludes more), the sender and the receiver; every critical section of
`send_lock` or `receive_lock` is one step. `GoOn` is what the sender does whenever it holds the lock, which
is the same at the three places where it takes it. `Construct` keeps the static variables that the code
keeps. A wait with a limit may end at any time (`TimeOut`), and the receiver may stop (`EndOfInput`), after
which nobody wakes a user who waits for input without a limit: `CallsReturn` does not speak of him.

### ExclusiveLocks, FileDevice, ProcessStatus

`ExclusiveLocks` is what a machine lock promises to those who build on it (`TakeLock`, `GiveLock`,
`DropLocks`), and what `MachineLocksProofs` proves that it keeps; the file device and the status indicator
take their locks by these actions. Every point at which a call of `FileIODevice` may throw is a choice of a
step (`Fail`), as is the moment at which `TruncateFile` takes the mutex. The history variables `spoiled` and
`overtaken` name the devices that an exception, two overlapping truncations or a late note of the time have
spoilt, and the properties show that all others are right. A message is written in pieces (`Chunks`), files
are modified by others too. In `ProcessStatus` there is an indicator in each process; the socket file
outlives a crash, and a server can be started only if there is none.

### SharedPointer, ThreadProofs

Every pointer is used by a thread of its own, and an access to the count is one step, so that `Detach` is
three of them. A program that copies a pointer while another thread changes that very pointer is outside of
what the code promises (`Free`).

### Files, Transfers, GpsFile, FileProofs

`Files` is one `File` object on the C library's file (external): what is opened how, where the position
stands, what reading and writing do there, and `Pump` through a `ConstrainedInput` and an
`OutputReplicator`, in chunks, which the callback may end before the first chunk, between reading and
writing one, and behind each. A call that throws without an effect is no step; between a read and a write
the position has to change, as C asks. Beside it, what goes through the terminal: the console's
`_read_until_terminator` with its buffer, both forms of `Read`, `WriteLine`, and the menu as a walk in a
tree. A call that waits for input is a step once the input is there.

`Transfers` has `DataTransferUtils` with a step for every chunk, between which the flag is set and other
programs change the files; what `write` returns is not looked at, so a write may be short (history: `short`).
A behaviour is one call. Beside it the serial port as built on unix, a step for every byte, with the handles
0 and -1 that the code uses, descriptors of the kernel (external), and a line that may break.

`GpsFile` writes safe files and reads them back, with the real control of `GPSFile_Export` and
`GPSFile_Import`: hashing while copying, headers with lengths, the first header written last, skipping,
validating. What Crypto++ promises is assumed in one place: a crypttext is a sequence of cells, each with
the nonce and its place, and it decrypts as a whole and with its key only. A write may fail and leaves a
proper prefix; a payload file may change between the two passes over it; callbacks cancel either pass. An
import starts when the export has ended, and one that threw is let go. Something that decrypts but is no
header is the end of the model ("confused"): it would need the length fields byte for byte.

### ElementSequences, Vector, LinkedLists, PagedList

What the containers are to be, sequences, is in `ElementSequences`. The modules keep below that what the
code must get right by hand: `Vector` and `PagedList` which places of the memory hold an object (writing as
if there were one, overwriting one, leaking one is a fault); the lists the links and what iterators
remember. Merge sorts relink the nodes or merge through a buffer as in the code. A property compares the
structure after every call with the sequence that the call makes. `LinkedLists` has both kinds, `DList` and
`SList`.

### Collections, MapAndSet, Cards

`Collections` has the `ObservableCollection`: `OneChange` is `Insert`, `Remove` or `SetValue` with its two
rounds of callbacks, of which one may refuse the change, alter the item, or throw when it is too late. Every
observer keeps a mirror of the collection from what it is told. An observer that is added twice is called
twice, and keeps none. Observers that change the collection while they are called are not modelled. Beside
it: the heap and the vector of bits; `Flags`, with what each flag was set to last; and `CircularInt`.
`MapAndSet` extends `BinarySearchTree` and uses its operators for the tree of a map and of a set; what the
nodes hold is kept beside it, by key. Its iterators and `Unlike` (the `RemoveAll` of a vector) are tail
recursive functions over the states of their loops, so that they can be proved about. In `Cards` a card is a pointer; the two kinds of deck differ in who deletes it.

### Strings, Encodings

`Strings` is a string in its memory, with cells that were never written and the null that must follow the
last character: for every string that can come about (null ones, full ones, ones without a null) every call
is compared with what it is to do to the characters. `Encodings` are pure functions: UTF-8 in both
directions with the iterator, letters and their cases, base 64 and 16, each against a definition of what it
computes. There the XML of `Variant` and `VariantTable` is, too: what is written is a sequence of start and
end elements with their attributes, and the reader's place in it matters as much as what it reads, since a
list or a map goes on where its item has ended. `Kept` is what must come back; of the rest (see "What was
found") nothing is said. `Trimmed` walks its two iterators as the code does: the one from behind passes over
continuation bytes to the start of a character, so that bytes that are no characters may be cut off or, when
nothing stops it, the bytes before the string be read (`TrimmedIsDefined`, such calls are left out).

### DataStore, Tables, DateRange, Timeline, Timers

`Tables` are the columns, the map from their keys, the rows and the update counts of `IUpdatable`, with the
calls of `DataTableModel`. `spoilt` names the calls after which they disagree. A copied row keeps the
columns of the table it was copied from (`named`), so that nothing is said of names in it. A tree shown as a
list computes its maps anew at every change of the tree; its counts are in the same module. In `DataStore`
several instances share a database file; a statement is a step, the constructor several: looking for the
file, opening it (which makes an empty one), and then checking or creating the table, so that one instance
may find the empty file of another and throw. `DateRange` runs the slots of the widgets inside of the calls
that set them, as Qt does (`DateUpdated`, `WithCombo`, `WithEdit`). `Timeline` works in pixels, rounded as
in the code, between press, moves and release, with rows that come and go in between, also in the middle of
a drag. The view remembers the dragged item by an index that does not follow it, so a drag is `lost` when
its row, or one before it, is removed; of the times of such a drag nothing is said. `Timers` holds what
keeps time or works on timer events: a fader (with the button that uses it), the watcher of serial ports,
with another thread that asks, and the stopwatch. The calls of the stopwatch are steps, but for the two
things that happen outside its lock: `_refresh`, where two readers overlap, and the signal.

### MCContainers, MCDevices, MCStructures

The instances that TLC checks, one for what runs in one thread (in two parts, containers and structures) and
one for devices and shared objects: the initial state picks the `subject` of the behaviour, and everything
else stays as it is, so that the state spaces add up instead of multiplying. `MCMachineLocks` and
`MCUniversalMutex` give their constants values; the logger and the settings need no such module.

## The runs

| run | instance | shows |
|---|---|---|
| `logger` | two producers, three entries each, so that a chain of three exceptions fits | order, no lost wakeup, all or nothing at shutdown, the destructor returns, entries get written, refinement |
| `settings` | two clients (one sleeps while the other posts), one key, two values | the mailbox and the wakeups, durability, termination, with crashes and failures everywhere |
| `locks` | three objects, two of them in one process, two file names, one object renamed | exclusion, agreement of the levels, readers and writers, nobody waits for a lock that nobody has |
| `mutex` | two agents on one machine, one on another; an accepted second id; one agent with an event loop | exclusion on a machine, the machine mutex is given back, what an owner may find in the file, a noticed loss is acted upon |
| `devices` | console device: three lines written, two typed, any number of instances in turn; file devices: three threads, two devices, two files; three indicators; three pointers; a stopwatch with two users, three fades, two ports; a file of three bytes; two files of up to two and a half chunks; a serial line of two bytes; a safe file of two payloads; a terminal of four characters | order, nothing lost at destruction, true answers, calls return; whole messages, updates seen, nothing left behind; one server; exact counts; the time that was run, fades that end, ports that are known; files are copied as they are, whole or with a reason, safe files imported as they were exported, input is read |
| `containers` | three elements in sequences of four, heaps of seven, texts of four characters, sixteen code points, variants of every kind in lists and maps two deep, four flags, three cards and hands, two columns and rows, trees of four, two instances of a store, dates around the ends of a month, four items on a line of time | every container is what its calls make of it, sound underneath; strings keep their null; encodings have their inverses; tables, maps and caches agree; the date control shows its range, and items are drawn and dragged rightly |
| `structures` | undo stack: five commands, two macros of two and one after an undo; tree: 8 keys, and 12 keys with at least ten nodes; maps and sets: four keys, up to two values each; regions: three bounds | the document follows the stack and the tree is a set (two refinements); the tree's links, caches, order and iterators; insertion keeps the balance; maps are functions and sets are counted and iterated over in order; regions are lists in order and their operations those on sets |
| `logger_early_close` | one producer, two entries | finding: entries are lost when the logger is destroyed before its worker starts |
| `settings_damaged` | one client, one key, one value | finding: values of a damaged file get into the cache |
| `tree_balance` | twelve keys | finding: a removal leaves the tree unbalanced |
| `locks_dangling` | one object | finding: locks deleted by the last destructor are used again |
| `mutex_network` | two machines with one agent each | finding: both have the lock |

The runs of `devices`, `containers` and `structures` end within four minutes each on two processors.

### Why the bounds are enough

* `logger`: what the queue does to an entry does not depend on the number of entries. Two producers give
  every interleaving of two calls of `Log`; three entries each leave room for a chain of three exceptions
  with entries of the other thread in between. The safety part is proved for all numbers.
* `settings`: the mailbox holds one command, so two clients make one sleep while the other's command waits,
  and the destructor comes third. Two values tell "changed back" from "changed"; one key is enough, because
  no operation relates two keys. Crashes are unbounded. Proved for all clients, keys and values, except
  liveness.
* `structures`, undo stack: five commands are a macro of two, a second macro of two and one command pushed
  after an undo, which is the shortest history where redo entries that are macros get deleted. Proved for
  any number.
* `structures`, tree: with eight keys every shape of tree occurs in which rotations of both kinds and
  removals of inner nodes meet. Twelve is the smallest number of nodes for which one removal can unbalance
  two nodes; such trees are kept at ten nodes or more (`MinTall`), and on the way there the keys are the
  first ones. That the tree is sound and a set, and that insertion keeps the balance, is proved for any keys.
* `structures`, maps and sets: four keys give a removal with two children and rotations; two values of a key
  are one that is overwritten or left and one that goes, and equal items of a set in two places. Proved for
  any keys, values and numbers of them.
* `structures`, regions: three bounds and the numbers between and beyond them are seven points. The
  comparisons look at two bounds, a merge at three; with seven points there are regions of four ranges, and
  two regions that overlap in every way.
* `containers`, timeline: up to three conflicting items the code has a case for each, so four; two of them
  while the mouse is used, of which one is dragged over the other. A line of 45 pixels for three units of
  time makes rounding happen.
* `locks`: a second object in the process contends for the process's lock, one in another process for the
  file; a second name is needed to rename. Safety is proved for all instances.
* `mutex`: fellows of one machine, and a stranger. A second stranger would do nothing the first cannot, as
  agents interact through the content of one file. Safety is proved for all instances.
* `devices`: with three lines one is written while one is queued and one is awaited. Two threads share a file
  device and a third one has its own, so that both locks are contended for; two pieces are a message that can
  be read half, two modifications an update that overtakes another. Calls fail on one device only, whichever
  it is, as often as they can: what is shown is that the other one is not harmed. Three indicators: one that
  stops, its successor, and one that asks. Three pointers: a copy, the original, and a third that keeps the
  object alive or does not; an address is used again. The second payload of a safe file is the first that is
  found by a length, and payloads have no, one or two units, exported in one or two chunks. The terminal's
  buffer holds two characters, so that four overflow it. Fades of 9 and of 26 events, one that is too long,
  with a delay of two events and without. Files of three bytes are a whole chunk and a part of one, files of
  five do not fit into an int.
* `containers`: capacities double, so lengths up to four go through every growth and page; of three elements
  two are equivalent, so that stability of the sorts shows. Heaps of seven have three levels. The code points
  are both ends of every length of UTF-8; the bytes are a first byte of each length, a continuation, a blank,
  a letter and a null. Two columns, rows and changes: one before and one after what is removed. Two observers:
  one before and one after the one that refuses; words of two bits, and two words full; a word of four flags,
  whose ranges end before it does, at its end, and begin behind its beginning. A variant in a list in a map,
  and the reverse, is followed by the end of what it is in; scalars are one of each kind that the code writes
  differently.

### Fairness

Weak fairness of a thread's next step, for threads that run: the logger's worker, the settings worker, the
sender and receiver, callers inside a call. Blocking in a wait or a lock disables the step, so nothing is
assumed about who is woken. Strong fairness is assumed only where a thread competes again and again for a
lock that others hold in between: `LockFileUpdated` and `CheckFile` of the universal mutex. Calls that a
user makes (log, commit, lock, destroy) are never fair, with one exception: in `MachineLocks` whoever has a
lock unlocks it some day, without which nobody's waiting could end. Crashes and failing disks are never
fair; where they can go on for ever the property says so.

## The proofs

The proof modules hold for any values of the constants that satisfy the named assumptions: about typing
(identifiers are distinct from the special values, every object has a process, bounds are positive), that a
value type is dense (`PointsAssumption`), that the dates are from
2000-01-01 to 2001-01-31 (`DatesAssumption`). Each follows the same line: an invariant `IInv`
(or `Inv`), `Init => IInv`, `IInv /\ [Next]_vars => IInv'` with a step for each action, and a temporal step
that draws the conclusion.

| module | theorems | why the invariant has to be stronger than the claim |
|---|---|---|
| `ThreadProofs` | logger: order, no lost wakeup, all or nothing, the refinement of `LogChannel`; shared pointer: the counts are exact | logger: `InOrder` is kept only because the entry in hand follows those delivered and precedes the queue; all or nothing needs that a worker that has begun leaves only on an empty queue; pointers: `CallsArePrepared` says what a call that is under way may count on, as that the pointer assigned from stays idle, and `CountFollows` turns a step of one pointer into the change of a cardinality |
| `SettingsProofs` | types, wakeups, the mailbox, durability, saving at exit | a sleeping thread is tied to the predicate it waits for; that a clean cache is on disk needs the file's contents at every point of the write, and who may post while a command waits |
| `StructureProofs` | undo stack: types, the document follows the stack, the refinement of `EditHistory`; regions are exact | undo stack: undoing an entry leads to the document before it only if every entry connects two documents of `trail` (`EntriesConnect`); lemmas about taking a suffix off a sequence. The refinement takes `trail` apart at `ptr`: before it the past, behind it the future, and at it the mark, while a macro is built. Regions: a bound is one number, even for a cut below its value and odd for one above it, and all comparisons become comparisons of these numbers (`RangesCompare`); the lists have a gap after each range (`GapList`). In the loop of `Union` what is to come does not begin before the last range does (`MergesRight`), in that of `Complement` the pieces and what is left below the bound carried are the points not handled (`CarriesRight`). A list of the same points is the same, because a range whose points a list has lies in one of its ranges (`OneSpansIt`) |
| `MachineLocksProofs` | types, both levels agree, exclusion, writers are alone, the refinement of `ExclusiveLocks` | `FlagFollowsPosition`: between the calls the flag says nothing about which of the two locks is held; the position does |
| `UniversalMutexProofs` | types, exclusion on a machine, the mutex is given back, intruders are foreign | `MutexFollowsPosition` says who holds the machine mutex at each point of each call; that nobody of the same machine is named in the file follows because an agent writes its id only while it holds the mutex |
| `DeviceProofs` | file device: whole messages, changes are seen, calls leave nothing behind; status indicator: one process controls; stopwatch, fader and port watcher, each and all of them; data store: a version tells; date control: the range is shown; console: types, lines in order, true answers | file device: who holds the mutex and the file lock at each position of a call, and what part of the message the file has; status: the lock, the socket and the server of a process go together; stopwatch: what a reader saw before it writes; fader: a fade in whose delay is over has shown the parent; data store: a version that is remembered is not one to come, and an id that is given is larger than all others only if the ids have a maximum (`LargestNumber`); date control: what each slot leaves (`Updating`), as the range is shown after any of them only if the slots that it runs show it, and a day belongs to its week, month and year (`DaysBelong`); console: what is written, the line in hand and the queue are consecutive numbers that end at the counter (`OutIsInOrder`, and the same for the input), and an instance has its threads exactly at certain positions (`ThreadsFollowInstance`), so that an answer that is given from a counter is true |
| `TreeProofs` | search tree: sound, a set of keys (`ImplementsKeySet`), balance after insertion; maps and sets are right | `TreeIsSound` follows the links; the proof says of which keys the tree below each node consists: `Sound(t, D)`, with `D[n]` the keys below `n`, has the links and the order agree with `D` (`Shape`) and what a node caches with its children (`AllFresh`). On the walk up to the root only the nodes above the current one may be stale (`WalkOK`), and for insertion the tree below it is balanced and has grown by at most one (`Avl`). A loop is a tail recursion that has a solution (`TailRecursion`) and comes to its end because the set of keys below, or above, gets smaller (`LoopEnds`); a copy is finished from the leaves up (`SetInduction`, `InStep`). The two sides of the tree are handled as one. Maps and sets: the tree is sound and has exactly the keys that have values or items (`MapOK`, `SetOK`), and the size is a cardinality that changes at one key by a difference of lengths (`PlacesCount`). An iterator is a walk (`WalkMeetsAll`): if it starts at the first point of an order and goes from each to the next, it comes to an end and has met all of them in that order; the nodes of a tree are such points, and so are the pairs of a key and a place in its vector, forwards and backwards (`ItemsAreWalked`) |
| `FileProofs` | safe files: what is imported is what was exported, whatever fails; transfers in chunks: what was moved, and why one was given up; serial port: descriptors, and bytes that come in order | safe files: how the file falls into messages (`MessagesFollow`) and the hash into their units (`AllIsHashed`), so that `Reads` can say where an import stands in both: a payload that is skipped is hashed too, or the end would not validate. What fails leaves any part of a message in the file, and more or less of it in the hash; of the file `Marked` then keeps only that payloads follow their headers and how much was hashed by the end of each append, more than a header if a payload was to be written and none of it is there. A reader that validates has hashed no more than that (`Behind`), and as much only if all payloads up to there are whole; so that it cannot find the hash of the file at the end without having found all of them. Transfers: the source still holds what it held as long as nobody has touched it (`FilesAreOpen`), so that the next chunk follows the bytes counted so far (`BytesAreCounted`), and at each end of the loop what it was left for (`EndsForAReason`). Port: each byte given out is the next one that was read, or the one before again, so that the places of what was read follow from call to call (`Follows`, `OneMoreFollows`); the variable of the loop holds the last byte read |

Every theorem holds for the specification of one component: `devices`, `containers` and `structures` check
the same definitions side by side, on small instances. Only model-checked are:

* liveness (`DestructorReturns`, `EntriesAreWritten`, `CommandsComplete`, `CallsReturn`, `LossIsNoticed`,
  `NobodyWaitsForNobody`), because the prover does not handle fairness or ENABLED;
* what is recursive: the sorts, the lists that are followed along their links, the encodings, tables and
  their trees, the layout of the timeline, `Pump`, the terminal. The prover does not go into
  RECURSIVE operators, and the library's theorems of induction take an operator, which the provers cannot
  instantiate. What they can is a least element of a set of numbers (`LeastNumber`); the loops of the search
  tree and of regions are proved from it, which takes a recursive function in the model, a proof that there
  is one (`TailRecursion`, `Turns`), and lemmas on every one of its states.

The type invariants are proved, not run, and so is the refinement of `ExclusiveLocks`. Nothing is assumed but
the named assumptions: as that nobody is called `NoOwner`, or that a stale socket is not one of them
either (`StaleAssumption`).

## What was found

With a run that shows it:

* A logger destroyed before its worker has taken the lock drops its queue (`logger_early_close`).
* A settings file that fails its check still becomes the cache (`settings_damaged`).
* A removal from the search tree may leave it unbalanced, because only the first unbalanced node is rotated
  (`tree_balance`).
* The last machine lock of a process leaves dangling pointers for the next (`locks_dangling`).
* The universal mutex does not exclude between machines (`mutex_network`).

The rest was met while the code was modelled. The models either do what the code does, and the properties
exclude the case, or leave the call out.

Undo stack, locks and devices

* `UndoStack::Clear` deletes a macro and keeps `m_macro` pointing to it (`undostack.cpp` 129).
* `Lock` of the universal mutex returns normally, keeping the machine mutex, when its id was overwritten;
  two threads that lock new names at once race on the machine locks' map.
* The console device answers waits of a second instance from the count of the first.
* File device: the lock stays after an exception (`fileiodevice.cpp` 41), an update between unlocking and
  noting the time is never seen (58-60), `TruncateFile` changes the mode without the mutex (117), although
  `iodevice.h` 28-40 calls it thread-safe.
* Status indicator: two processes that ask see each other's lock (`processstatusindicator.cpp` 61); a server
  cannot listen where a crashed one left its socket, or while a predecessor still closes its own, and the
  result is ignored (106); `SetStatus` is never committed, so that other processes see "not running" for
  ever (50).
* `SharedSmartPointer::Detach` gives its reference up before it copies the object (`smartpointer.h` 219).
* Stopwatch: the signal is sent after the lock is released, so that two may come in the wrong order
  (`stopwatchengine.cpp` 112); `Reset` does not do what its comment says.

Containers and strings

* `Vector`: a vector of two iterators has no length (`vector.h` 108-123) and `LastIndexOf` finds nothing (627),
  against its comment (616-618): neither is modelled;
  `Insert` of a short array where elements have to be moved by hand (257-278); assignment to itself empties;
  an inserted reference to an own element dangles (183).
* `DList::_remove` frees a node without destroying the item (`dlist.h` 712); going back over the front
  (356).
* `List`: insertion in the middle of a full list writes through null (`list.h` 132); `RemoveAll` skips items
  (298-306); `Sort` of a full list (432-443); `rend` (628); pages twice as large as needed (117).
* `Flags`: `TestRange` and `SetRange` pass the number of flags to `GEN_BITMASK`, which wants the index of the
  last bit (`flags.h` 70, 82; `globals.h` 553), so that one flag more is read, or overwritten although
  `flags.h` 85 wants to prevent it.
* `Variant` (`variant.cpp`): of a character only the first byte of its UTF-8 comes back from the XML (215);
  of a float six digits (171); the offset of a time and the greed of a regular expression do not, nor do
  types without a case. `ReadXml` never ends on a text that is cut off (338).
* `Set`: an iterator cannot come back from the end (`set.h` 150-158).
* `BitVector`: a word is added one bit too late, beyond the memory (`bitvector.h` 100), and one is taken
  away whose bits are needed (108).
* `String`: `RemoveAll(GBYTE)` leaves no null (`string.h` 223); `Truncate` to more than the length empties
  (403); a string of a capacity has no null (60-64); `Reserve` of less than the length; `LastIndexOf` counts
  from the wrong end (`string.cpp` 599); `IndexOfUTF8` compares the first character only (632); `Replace` on
  a null string (559); the division sign is lower case (341); a base 64 text may have `=` early.
* `ObservableCollection`: an exception of an observer after a change leaves the change made and the
  observers after it uninformed; an observer that alters an item leaves those before it with the old one.
* `Region`: a null lower bound is compared as if it were 0 (`range.h` 718, 550). With negative bounds lists
  get out of order and `Contains` misses points, therefore `ValuesAssumption`. `Range::Intersects` of a
  half-open range and one with a hole (362-365); `Equals` (683) tests for the universe what its comment
  wants empty; `a &= a` leaves nothing (601).

Files and terminal

* `File::ReadLine(max_len)` returns one byte more than asked for (`file.cpp` 230), against the test
  `tst_filetest.cpp` 185-201; `Touch` empties the file (118), which `file.h` 79-88 says it leaves unchanged;
  `Pump` writes a whole chunk where a short one was read (`iio.h` 104); `ConstrainedInput::ReadBytes` does
  not constrain.
* `Console`: every 257th character of a line is lost (`console.cpp` 134-141); at the end of the input
  `ReadLine` never returns; `Read(bytes)` gives one character too few (`console.h` 79-84); `WriteLine`
  doubles the end of a line that has one, and writes none for an empty text (48-50). `CommandLineMenu::Exec`
  ends a function without its return value after a choice (`commandlinemenu.cpp` 28-62): whether the next
  menu is shown is undefined.
* Chunks (`datatransferutils.cpp`): the destination of a copy is emptied before the source is opened (75), so
  that a source that is not there, or is the destination, leaves it empty; what `write` returns is not looked
  at (46, 94); a read counts bytes that it did not get (145); a size of 2 GiB throws, one of 4 GiB and more
  loses the rest (85, 135). Serial port: after an `open` that failed `IsOpen` is true and -1 is kept
  (`serialport.cpp` 43, `serialport.h` 54); the -1 of a `read` is added to the count, and the byte before is
  given out again (175-183); a count is returned where `serialport.h` promises 0.
* Safe files: `NextPayload` throws if it is called again after the end of a validated file; a cancelled
  `GetCurrentPayload` cannot be repeated; an import that does not validate a file with a failed append may
  skip payloads or take a payload for a header; a validated one may give out such a payload before the end
  shows it. Lengths of 2 GiB and more are shifted out.

Views, tables and games

* Fader: the number of a timer that is done is kept (`faderwidget.cpp` 105), so that a fade after a finished
  one does not run, and the button of a `LineEditWithButton` that has come or gone stays so; fades over
  10200 ms never end (99). The port watcher clears its list without its lock.
* Timeline: painting never ends with an item outside of the range; of four items that conflict two are drawn
  over each other (1041-1092); the dragged item is remembered by its row, which may go.
* Date control: a custom date is put back (295); what is the first of a month to the first of the next
  counts as a month, and a real month as custom. A bound that does not belong to the range is never moved,
  because whether it belongs is also passed for whether it is the lower bound
  (`selectdaterange.cpp` 128-145).
* Tables: a row inserted by its raw pointer has two counts of references (421-440); a removed column leaves its
  cells and the map behind (486), a copied row points to the columns of the table it was copied from (97),
  `RejectChanges` restores the count of updates only, `FindLastRow` finds the row before; `Deal` with a starting
  hand out of range throws although its comment says that it is reduced. A mapping of the flat tree loses row 0.
  Two constructors of the data store at once fail. The database device makes rows without a table and tables
  without columns.

## What is not modelled

* `UpdateNotifier`: a network request of Qt (a circle of redirections would never end). The global logger
  and the other log sinks pass calls on; `SetGlobalLogger` is documented as not thread-safe, so its race has
  nothing to be checked against. `DatabaseIODevice`: a row that it makes
  belongs to no table, and a table that it creates has no columns, so that the first call with either fails,
  and there is nothing to model behind. Other widgets, dialogs and plug-ins
  are presentation; the random numbers and the mathematics are formulas on floating-point numbers.
* Of modelled components: what AES-CCM and the hashes compute, formatting and parsing of numbers,
  compression, the change callback of the undo stack, a change to a different path of the universal mutex,
  several user threads of one console device (which its header forbids), allocation failures, walking the
  tree by `MoveUp`, `MoveLeft` and `MoveRight`, the setters of a range, `Region::Clear` and `RemoveRange`
  (which call functions that `DList` does not have), data sets with relations, observers that change the
  collection that calls them, what the runnable of a status server reads, the file watcher of the file
  device, `IndexOfUTF8` and its reverse, the second unlocking of the mutex by the destructor of `Settings`
  (its `unique_lock` still owns it), ranges of dates with bounds that do not belong to them beyond what
  `SetDateRange` does with them.
* Functions that do not compile (`Set::Count`, the copy constructor of an implicitly shared pointer).

## Plan

What is left, in this order:

1. Data sets with their relations on `Tables`; the setters of a range.
2. The number parsing of `String`, as a function against a definition.
