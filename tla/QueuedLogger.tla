--------------------------- MODULE QueuedLogger ---------------------------
(***************************************************************************)
(* QueuedLogger (src/core/logging/queuedlogger.cpp): threads hand entries  *)
(* to Log(), which queues them under m_lock; one worker thread pops them   *)
(* and writes them to the wrapped device with the lock released; the       *)
(* destructor raises m_closing, notifies the condition variable and joins  *)
(* the worker.  LogException (ilog.cpp) queues an exception and the chain  *)
(* of its inner exceptions by separate calls of Log().                     *)
(*                                                                         *)
(* Every critical section of m_lock is one step.  The worker's position    *)
(* says where it stands between them:                                      *)
(*   "starting"  the thread exists but has not taken the lock yet          *)
(*   "asleep"    in m_waitCondition.wait, not notified                     *)
(*   "woken"     notified, about to retake the lock and test its predicate *)
(*   "draining"  holds the lock in the inner loop over the queue           *)
(*   "logging"   writes the entry in hand, the lock released               *)
(*   "exited"    has left its function                                     *)
(***************************************************************************)
EXTENDS Naturals, Sequences

CONSTANTS Producers,     \* the threads that log
          MaxEntries     \* how many entries a producer logs at most (a bound)

ASSUME MaxEntriesAssumption == MaxEntries \in Nat

VARIABLES
  queue,      \* m_queue
  worker,     \* the worker thread's position
  inHand,     \* the entry the worker has popped, as a sequence of at most one
  phase,      \* the object's life: "open", "closing" (m_closing is set),
              \* "joining" (worker notified), "closed" (worker joined)
  sent,       \* how many entries each producer has logged
  chained,    \* the producers inside LogException with an inner one to log
  accepted,   \* history: every entry handed to Log(), in queueing order
  delivered   \* history: every entry the device has written, in order

vars == <<queue, worker, inHand, phase, sent, chained, accepted, delivered>>

\* LoggingData: who logged it, its number, and whether its title announces
\* that an inner exception follows.
Entry == [from : Producers, n : 1 .. MaxEntries, announces : BOOLEAN]

m_closing == phase # "open"

Init ==
  /\ queue = <<>> /\ inHand = <<>>
  /\ worker = "starting"
  /\ phase = "open"
  /\ sent = [p \in Producers |-> 0]
  /\ chained = {}
  /\ accepted = <<>> /\ delivered = <<>>

---------------------------------------------------------------------------
(* The producers *)

\* notify_one: the worker is the only thread that ever waits.
NotifyOne == worker' = IF worker = "asleep" THEN "woken" ELSE worker

\* A bug to detect: Log() queues the entry but wakes nobody.
EnqueueUnnotified(p, announces) ==
  /\ phase = "open"
  /\ sent[p] < MaxEntries
  /\ announces => sent[p] + 1 < MaxEntries
  /\ LET e == [from |-> p, n |-> sent[p] + 1, announces |-> announces]
     IN /\ queue' = Append(queue, e)
        /\ accepted' = Append(accepted, e)
  /\ sent' = [sent EXCEPT ![p] = @ + 1]
  /\ chained' = IF announces THEN chained \union {p} ELSE chained \ {p}
  /\ UNCHANGED <<worker, inHand, phase, delivered>>

\* QueuedLogger::Log, called by p with the lock free.
Enqueue(p, announces) ==
  /\ phase = "open"
  /\ sent[p] < MaxEntries
  /\ announces => sent[p] + 1 < MaxEntries
  /\ LET e == [from |-> p, n |-> sent[p] + 1, announces |-> announces]
     IN /\ queue' = Append(queue, e)
        /\ accepted' = Append(accepted, e)
  /\ sent' = [sent EXCEPT ![p] = @ + 1]
  /\ chained' = IF announces THEN chained \union {p} ELSE chained \ {p}
  /\ NotifyOne
  /\ UNCHANGED <<inHand, phase, delivered>>

\* A plain entry, or an exception without an inner one.
Log(p) == p \notin chained /\ Enqueue(p, FALSE)

\* The outer exception of a chain.
LogException(p) == p \notin chained /\ Enqueue(p, TRUE)

\* The recursive call for the inner exception, which may have one of its own.
LogInnerException(p) ==
  /\ p \in chained
  /\ \E announces \in BOOLEAN : Enqueue(p, announces)

---------------------------------------------------------------------------
(* The worker thread *)

\* wait(lkr, pred): go on if the predicate holds, else (again) to sleep.
Wait ==
  /\ worker' = IF m_closing \/ queue # <<>> THEN "draining" ELSE "asleep"
  /\ UNCHANGED <<queue, inHand, phase, sent, chained, accepted, delivered>>

Exit ==
  /\ worker' = "exited"
  /\ UNCHANGED <<queue, inHand, phase, sent, chained, accepted, delivered>>

\* A bug to detect: the inner loop also stops when m_closing is set.
LoopHeadEager ==
  /\ \/ worker = "starting"
     \/ worker = "draining" /\ (queue = <<>> \/ m_closing)
  /\ IF m_closing THEN Exit ELSE Wait

\* The head of the outer loop, while(!m_closing): reached from the start of the
\* thread and from an inner loop that found the queue empty.
LoopHead ==
  /\ worker = "starting" \/ (worker = "draining" /\ queue = <<>>)
  /\ IF m_closing THEN Exit ELSE Wait

\* A notified worker retakes the lock.
Retest == worker = "woken" /\ Wait

\* The condition variable may wake a thread that nobody notified.
SpuriousWakeup ==
  /\ worker = "asleep"
  /\ worker' = "woken"
  /\ UNCHANGED <<queue, inHand, phase, sent, chained, accepted, delivered>>

\* A bug to detect: the entry is copied but not popped.
TakeUnpopped ==
  /\ worker = "draining" /\ queue # <<>>
  /\ inHand' = <<Head(queue)>>
  /\ worker' = "logging"
  /\ UNCHANGED <<queue, phase, sent, chained, accepted, delivered>>

\* A bug to detect: the worker takes the whole queue with it.
TakeAll ==
  /\ worker = "draining" /\ queue # <<>>
  /\ inHand' = queue
  /\ queue' = <<>>
  /\ worker' = "logging"
  /\ UNCHANGED <<phase, sent, chained, accepted, delivered>>

\* Copy the front entry, pop it and release the lock.
Take ==
  /\ worker = "draining" /\ queue # <<>>
  /\ inHand' = <<Head(queue)>>
  /\ queue' = Tail(queue)
  /\ worker' = "logging"
  /\ UNCHANGED <<phase, sent, chained, accepted, delivered>>

\* m_log->Log(d) returns and the worker retakes the lock.
Write ==
  /\ worker = "logging"
  /\ delivered' = delivered \o inHand
  /\ inHand' = <<>>
  /\ worker' = "draining"
  /\ UNCHANGED <<queue, phase, sent, chained, accepted>>

---------------------------------------------------------------------------
(* The destructor; by then no producer may be inside a call *)

Close ==
  /\ phase = "open" /\ chained = {}
  /\ phase' = "closing"
  /\ UNCHANGED <<queue, worker, inHand, sent, chained, accepted, delivered>>

\* A bug to detect: the destructor joins without having notified.
NotifyWorkerSkipped ==
  /\ phase = "closing"
  /\ phase' = "joining"
  /\ UNCHANGED <<queue, worker, inHand, sent, chained, accepted, delivered>>

NotifyWorker ==
  /\ phase = "closing"
  /\ phase' = "joining"
  /\ NotifyOne
  /\ UNCHANGED <<queue, inHand, sent, chained, accepted, delivered>>

Join ==
  /\ phase = "joining" /\ worker = "exited"
  /\ phase' = "closed"
  /\ UNCHANGED <<queue, worker, inHand, sent, chained, accepted, delivered>>

Closed == phase = "closed" /\ UNCHANGED vars

---------------------------------------------------------------------------

WorkerStep == LoopHead \/ Retest \/ Take \/ Write

Next ==
  \/ \E p \in Producers : Log(p) \/ LogException(p) \/ LogInnerException(p)
  \/ LoopHead \/ Retest \/ SpuriousWakeup \/ Take \/ Write
  \/ Close \/ NotifyWorker \/ Join \/ Closed

\* The scheduler runs the worker, a producer inside LogException, and a
\* destructor that has begun.  Nothing makes a producer log or an owner destroy.
Fairness ==
  /\ WF_vars(WorkerStep)
  /\ WF_vars(NotifyWorker)
  /\ WF_vars(Join)

Spec == Init /\ [][Next]_vars /\ Fairness

---------------------------------------------------------------------------
(* Correctness *)

TypeOK ==
  /\ queue \in Seq(Entry) /\ accepted \in Seq(Entry) /\ delivered \in Seq(Entry)
  /\ worker \in {"starting", "asleep", "woken", "draining", "logging", "exited"}
  /\ inHand \in {<<>>} \union {<<e>> : e \in Entry}
  /\ phase \in {"open", "closing", "joining", "closed"}
  /\ sent \in [Producers -> 0 .. MaxEntries]
  /\ chained \subseteq Producers

\* Nothing is lost, repeated or reordered on the way through the queue: what
\* was written, the entry in the worker's hand and the queue, in this order,
\* are what was logged (Log's PushBack against the worker's Front/PopFront).
InOrder == accepted = (delivered \o inHand) \o queue

\* The worker never sleeps unnotified while there is something to do: Log()
\* notifies after every push, and the wait's predicate is tested under the lock.
NoLostWakeup ==
  worker = "asleep" => queue = <<>> /\ phase \in {"open", "closing"}

\* How the worker's position relates to the rest of the state: it holds an entry
\* exactly while it writes one, has written nothing before its first look at the
\* queue, and leaves only a closing logger, with all or none of it written.
WorkerPosition ==
  /\ (worker = "logging") <=> (inHand # <<>>)
  /\ worker = "starting" => delivered = <<>>
  /\ worker = "exited" => phase # "open" /\ (queue = <<>> \/ delivered = <<>>)
  /\ phase = "closed" => worker = "exited"

\* A destroyed logger has written every entry or, when m_closing was set before
\* the worker first took the lock, none at all; never some of them.
AllOrNothing ==
  phase = "closed" => delivered = accepted \/ delivered = <<>>

\* "Process the queue, even if we're closing" (queuedlogger.cpp): a destroyed
\* logger has written everything it was given.
EverythingIsLogged == phase = "closed" => delivered = accepted

\* The destructor comes back: setting m_closing and notifying is enough to get
\* the worker out of its loops.
DestructorReturns == phase = "closing" ~> phase = "closed"

\* Once the worker is in its loop, whatever is logged is eventually written,
\* whether or not the logger is being destroyed.
EntriesAreWritten ==
  \A p \in Producers, n \in 1 .. MaxEntries :
    (worker \in {"asleep", "woken", "draining", "logging"} /\ sent[p] >= n)
      ~> \E i \in DOMAIN delivered : delivered[i].from = p /\ delivered[i].n = n

ChannelStatus ==
  IF phase = "open" THEN "open" ELSE IF phase = "closed" THEN "done" ELSE "closing"

Channel == INSTANCE LogChannel WITH status <- ChannelStatus

\* Queue, worker and destructor together are the abstract channel: entries come
\* out in the order they went in, and a shutdown delivers all of them or none.
ImplementsChannel == Channel!Spec
============================================================================
