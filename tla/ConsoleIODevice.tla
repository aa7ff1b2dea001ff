--------------------------- MODULE ConsoleIODevice ---------------------------
(***************************************************************************)
(* ConsoleIODevice (src/qt/data_access/consoleiodevice.cpp): one thread    *)
(* uses the device, a sender thread writes queued lines to the console, a  *)
(* receiver thread queues the lines that are typed.  The queues, the       *)
(* counters and the threads are static: one instance at a time may use     *)
(* them, and the next one takes them over.                                 *)
(*                                                                         *)
(* A critical section of send_lock or receive_lock is one step.  A line    *)
(* written is its id, a line typed its number; both count from the         *)
(* construction of the instance.                                           *)
(*                                                                         *)
(* The user's thread ("user"):                                             *)
(*   "none"      there is no instance                                      *)
(*   "idle"      between two calls                                         *)
(*   "blocked"   asleep on sent_condition, "retest" when woken             *)
(*   "listening" asleep on received_condition, "heard" when woken          *)
(*   "cancelled", "killing", "joining"  in the destructor                  *)
(* The sender: "stopped", "starting" (has not yet taken the lock),         *)
(*   "asleep" on send_condition, "awake" when woken, "writing" to the      *)
(*   console with the lock released, "written" before it takes the lock.   *)
(* The receiver: "stopped", "reading", or "line" when it has one to queue. *)
(***************************************************************************)
EXTENDS Naturals, Sequences

CONSTANTS MaxLines,    \* bound: lines that an instance writes
          MaxTyped     \* bound: lines that are typed for an instance

ASSUME BoundsAssumption == MaxLines \in Nat /\ MaxTyped \in Nat

VARIABLES
  user, sender, receiver,   \* where the three threads stand
  send_count,     \* send_count
  send_queue,     \* send_queue
  sent_id,        \* sent_id
  cancel_send,    \* cancel_send
  awaited,        \* the id that the user waits for
  receive_queue,  \* receive_queue
  inHand,         \* the line that the sender has dequeued, 0 for none
  console,        \* history: the lines that this instance has written
  typed,          \* history: how many lines were typed for it
  read,           \* history: how many lines it has read
  claimed         \* history: the last line whose writing was reported to the user

vars == <<user, sender, receiver, send_count, send_queue, sent_id, cancel_send, awaited,
          receive_queue, inHand, console, typed, read, claimed>>

outVars == <<sender, send_count, send_queue, sent_id, cancel_send, awaited, inHand, console, claimed>>
inVars  == <<receiver, receive_queue, typed, read>>

Init ==
  /\ user = "none" /\ sender = "stopped" /\ receiver = "stopped"
  /\ send_count = 0 /\ send_queue = <<>> /\ sent_id = 0 /\ cancel_send = FALSE
  /\ awaited = 0 /\ inHand = 0
  /\ receive_queue = <<>>
  /\ console = <<>> /\ typed = 0 /\ read = 0 /\ claimed = 0

---------------------------------------------------------------------------
(* Writing: the user *)

\* The user is told that line id is written.  Before the sender has started,
\* sent_id is still that of the previous instance, and the report means nothing.
Report(id) == claimed' = IF sender = "starting" THEN claimed ELSE id

\* __wait_for_line_written.
WaitForId(id) ==
  IF sent_id < id
  THEN user' = "blocked" /\ awaited' = id /\ UNCHANGED claimed
  ELSE user' = "idle" /\ awaited' = 0 /\ Report(id)

WakeSender == sender' = IF sender = "asleep" THEN "awake" ELSE sender

\* WriteLine and send_data; async is the property AsynchronousWrite.
WriteLine(async) ==
  /\ user = "idle" /\ send_count < MaxLines
  /\ send_count' = send_count + 1
  /\ send_queue' = Append(send_queue, send_count')
  /\ WakeSender
  /\ IF async THEN UNCHANGED <<user, awaited, claimed>> ELSE WaitForId(send_count')
  /\ UNCHANGED <<sent_id, cancel_send, inHand, console, inVars>>

\* The id is one that WriteLine has returned.
WaitForLineWritten(id) ==
  /\ user = "idle" /\ id <= send_count
  /\ WaitForId(id)
  /\ UNCHANGED <<sender, send_count, send_queue, sent_id, cancel_send, inHand, console, inVars>>

Retest ==
  /\ user = "retest"
  /\ WaitForId(awaited)
  /\ UNCHANGED <<sender, send_count, send_queue, sent_id, cancel_send, inHand, console, inVars>>

---------------------------------------------------------------------------
(* Writing: the sender *)

\* What the sender does when it holds the lock: it dequeues a line and releases
\* the lock, or waits, or leaves when it is cancelled and the queue is empty.
GoOn ==
  \/ /\ send_queue # <<>>
     /\ sender' = "writing" /\ inHand' = Head(send_queue) /\ send_queue' = Tail(send_queue)
     /\ UNCHANGED cancel_send
  \/ /\ send_queue = <<>> /\ ~cancel_send
     /\ sender' = "asleep" /\ inHand' = 0
     /\ UNCHANGED <<send_queue, cancel_send>>
  \/ /\ send_queue = <<>> /\ cancel_send
     /\ sender' = "stopped" /\ inHand' = 0 /\ cancel_send' = FALSE
     /\ UNCHANGED send_queue

\* A bug to detect: a while loop instead of the do-while.
StartUnlessCancelled ==
  /\ sender = "starting"
  /\ sent_id' = 0
  /\ IF cancel_send
     THEN /\ sender' = "stopped" /\ inHand' = 0 /\ cancel_send' = FALSE
          /\ UNCHANGED send_queue
     ELSE GoOn
  /\ UNCHANGED <<user, send_count, awaited, console, claimed, inVars>>

StartSender ==
  /\ sender = "starting"
  /\ sent_id' = 0
  /\ GoOn
  /\ UNCHANGED <<user, send_count, awaited, console, claimed, inVars>>

WakeUp ==
  /\ sender = "awake"
  /\ GoOn
  /\ UNCHANGED <<user, send_count, sent_id, awaited, console, claimed, inVars>>

WriteToConsole ==
  /\ sender = "writing"
  /\ console' = Append(console, inHand)
  /\ sender' = "written"
  /\ UNCHANGED <<user, send_count, send_queue, sent_id, cancel_send, awaited, inHand, claimed, inVars>>

\* A bug to detect: the next line's id is recorded.
RecordNext ==
  /\ sender = "written"
  /\ sent_id' = inHand + 1
  /\ user' = IF user = "blocked" THEN "retest" ELSE user
  /\ GoOn
  /\ UNCHANGED <<send_count, awaited, console, claimed, inVars>>

\* A bug to detect: those who wait for the line are not woken.
RecordSilently ==
  /\ sender = "written"
  /\ sent_id' = inHand
  /\ GoOn
  /\ UNCHANGED <<user, send_count, awaited, console, claimed, inVars>>

\* Record that the line is written and wake those who wait for it.
Record ==
  /\ sender = "written"
  /\ sent_id' = inHand
  /\ user' = IF user = "blocked" THEN "retest" ELSE user
  /\ GoOn
  /\ UNCHANGED <<send_count, awaited, console, claimed, inVars>>

---------------------------------------------------------------------------
(* Reading *)

\* A line ends: the receiver has it in its buffer.
TypeLine ==
  /\ receiver = "reading" /\ typed < MaxTyped
  /\ receiver' = "line" /\ typed' = typed + 1
  /\ UNCHANGED <<user, receive_queue, read, outVars>>

\* getchar fails.
EndOfInput ==
  /\ receiver = "reading"
  /\ receiver' = "stopped"
  /\ UNCHANGED <<user, receive_queue, typed, read, outVars>>

QueueLine ==
  /\ receiver = "line"
  /\ receiver' = "reading"
  /\ receive_queue' = Append(receive_queue, typed)
  /\ user' = IF user = "listening" THEN "heard" ELSE user
  /\ UNCHANGED <<typed, read, outVars>>

\* ReadLine; it returns an empty line if there is none.
ReadLine ==
  /\ user = "idle" /\ receive_queue # <<>>
  /\ read' = Head(receive_queue)
  /\ receive_queue' = Tail(receive_queue)
  /\ UNCHANGED <<user, receiver, typed, outVars>>

\* A bug to detect: it sleeps although there is a line.
ListenAnyway ==
  /\ user = "idle"
  /\ user' = "listening"
  /\ UNCHANGED <<inVars, outVars>>

\* WaitForReadyRead; it returns true at once if there is a line.
WaitForReadyRead ==
  /\ user = "idle" /\ receive_queue = <<>>
  /\ user' = "listening"
  /\ UNCHANGED <<inVars, outVars>>

ReturnTrue ==
  /\ user = "heard"
  /\ user' = "idle"
  /\ UNCHANGED <<inVars, outVars>>

TimeOut ==
  /\ user = "listening"
  /\ user' = "idle"
  /\ UNCHANGED <<inVars, outVars>>

---------------------------------------------------------------------------
(* Constructor and destructor *)

\* While an instance exists the constructor throws.
Construct ==
  /\ user = "none"
  /\ user' = "idle" /\ sender' = "starting" /\ receiver' = "reading"
  /\ send_count' = 0
  /\ console' = <<>> /\ typed' = 0 /\ read' = 0 /\ claimed' = 0
  /\ UNCHANGED <<send_queue, sent_id, cancel_send, awaited, inHand, receive_queue>>

Cancel ==
  /\ user = "idle"
  /\ user' = "cancelled" /\ cancel_send' = TRUE
  /\ UNCHANGED <<sender, send_count, send_queue, sent_id, awaited, inHand, console, claimed, inVars>>

WakeCancelled ==
  /\ user = "cancelled"
  /\ user' = "killing"
  /\ WakeSender
  /\ UNCHANGED <<send_count, send_queue, sent_id, cancel_send, awaited, inHand, console, claimed, inVars>>

\* A bug to detect: what was typed for this instance is left to the next one.
TerminateOnly ==
  /\ user = "killing"
  /\ user' = "joining" /\ receiver' = "stopped"
  /\ UNCHANGED <<receive_queue, typed, read, outVars>>

\* The receiver is terminated under receive_lock, so outside its critical section.
TerminateReceiver ==
  /\ user = "killing"
  /\ user' = "joining" /\ receiver' = "stopped" /\ receive_queue' = <<>>
  /\ UNCHANGED <<typed, read, outVars>>

JoinSender ==
  /\ user = "joining" /\ sender = "stopped"
  /\ user' = "none"
  /\ UNCHANGED <<inVars, outVars>>

---------------------------------------------------------------------------

SenderStep   == StartSender \/ WakeUp \/ WriteToConsole \/ Record
Destructor   == WakeCancelled \/ TerminateReceiver \/ JoinSender
Begin ==
  \/ Construct \/ Cancel \/ ReadLine \/ WaitForReadyRead
  \/ \E async \in BOOLEAN : WriteLine(async)
  \/ \E id \in 1 .. MaxLines : WaitForLineWritten(id)

Next ==
  \/ Begin \/ Retest \/ ReturnTrue \/ TimeOut \/ Destructor
  \/ SenderStep
  \/ TypeLine \/ EndOfInput \/ QueueLine

\* The threads run; nobody has to type, and nothing has to time out.
Fairness ==
  /\ WF_vars(SenderStep) /\ WF_vars(QueueLine)
  /\ WF_vars(Retest) /\ WF_vars(ReturnTrue) /\ WF_vars(Destructor)

Spec == Init /\ [][Next]_vars /\ Fairness

---------------------------------------------------------------------------
(* Correctness *)

Lines == 1 .. MaxLines

TypeOK ==
  /\ user \in {"none", "idle", "blocked", "retest", "listening", "heard",
               "cancelled", "killing", "joining"}
  /\ sender \in {"stopped", "starting", "asleep", "awake", "writing", "written"}
  /\ receiver \in {"stopped", "reading", "line"}
  /\ send_count \in 0 .. MaxLines /\ send_queue \in Seq(Lines)
  /\ sent_id \in 0 .. MaxLines /\ cancel_send \in BOOLEAN
  /\ awaited \in 0 .. MaxLines /\ (awaited # 0 <=> user \in {"blocked", "retest"})
  /\ inHand \in 0 .. MaxLines /\ (inHand # 0 <=> sender \in {"writing", "written"})
  /\ receive_queue \in Seq(1 .. MaxTyped) /\ console \in Seq(Lines)
  /\ typed \in 0 .. MaxTyped /\ read \in 0 .. MaxTyped /\ claimed \in 0 .. MaxLines

\* The line that is on its way to the console or to the queue.
BeingSent == IF sender = "writing" THEN <<inHand>> ELSE <<>>

\* Lines are written in order, none twice, none lost, and all of them before the
\* destructor returns: "this guarantees that the send queue is flushed".  Lines are read
\* in the order they were typed, and what was typed for one instance does not reach the
\* next.
LinesInOrder ==
  /\ console \o BeingSent \o send_queue = [i \in 1 .. send_count |-> i]
  /\ user = "none" => send_queue = <<>> /\ sender = "stopped"
  /\ receive_queue = [i \in 1 .. Len(receive_queue) |-> read + i]
  /\ read + Len(receive_queue) <= typed

\* A line whose writing was reported to the user is written; WaitForReadyRead does not
\* sleep on a line that is there, nor return true without one, until somebody reads.
AnswersAreTrue ==
  /\ claimed <= Len(console)
  /\ user = "heard" => receive_queue # <<>>
  /\ user = "listening" => receive_queue = <<>>

\* A synchronous write, a wait for a line and the destructor return.
CallsReturn ==
  user \in {"blocked", "retest", "heard", "cancelled", "killing", "joining"}
    ~> user \in {"idle", "none"}
=============================================================================
