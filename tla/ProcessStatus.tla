---------------------------- MODULE ProcessStatus ----------------------------
(***************************************************************************)
(* ProcessStatusIndicator and ProcessStatusServer (src/qt/business_objects) *)
(* on a machine lock (ExclusiveLocks): processes tell by the lock whether  *)
(* one of them controls the status, and send messages to its local server. *)
(* There is one indicator in each process.                                 *)
(*                                                                         *)
(* Where an indicator stands:                                              *)
(*   "gone"        not constructed                                         *)
(*   "idle"        outside a call                                          *)
(*   "probing"     in IsProcessRunning, with the lock                      *)
(*   "connecting"  in SendMessageToControllingProcess, about to connect    *)
(*   "announcing"  in SetIsProcessRunning(true), about to start the server *)
(*   "closing"     in SetIsProcessRunning(false), about to stop the server *)
(*   "dying"       the same in the destructor                              *)
(***************************************************************************)
EXTENDS ExclusiveLocks

CONSTANTS StatusFile,  \* the name of the lock file
          Stale        \* the socket file of a process that crashed

ASSUME StatusFileAssumption == StatusFile \in LockFiles
ASSUME StaleAssumption      == Stale \notin Lockers \union {NoOwner}

VARIABLES
  state,      \* where each indicator stands
  status,     \* the value "status" in the settings of each
  dirty,      \* whether these settings have changed
  saved,      \* the value in the settings file
  socket,     \* whose server listens at the common name: NoOwner, Stale or an indicator
  server,     \* the server of each: "none", "listening", or "deaf" if it could not listen
  thread,     \* whose connection the one runnable of each server was made for
  excused     \* history: the indicators that may be deaf, because the name was in use

statusVars == <<owner, state, status, dirty, saved, socket, server, thread, excused>>

StatusInit ==
  /\ LocksFree /\ state = [i \in Lockers |-> "gone"]
  /\ status = [i \in Lockers |-> "NotRunning"] /\ dirty = [i \in Lockers |-> FALSE]
  /\ saved = "NotRunning"
  /\ socket = NoOwner /\ server = [i \in Lockers |-> "none"]
  /\ thread = [i \in Lockers |-> NoOwner]
  /\ excused = {}

Controls(i) == owner[StatusFile] = i /\ state[i] # "probing"

Turns(i, from, to) == state[i] = from /\ state' = [state EXCEPT ![i] = to]

\* SetValue changes the settings in memory; nobody commits them.
Put(i, s) == status' = [status EXCEPT ![i] = s] /\ dirty' = [dirty EXCEPT ![i] = TRUE]

ConstructIndicator(i) ==
  /\ Turns(i, "gone", "idle")
  /\ status' = [status EXCEPT ![i] = saved] /\ dirty' = [dirty EXCEPT ![i] = FALSE]
  /\ UNCHANGED <<owner, saved, socket, server, thread, excused>>

---------------------------------------------------------------------------
(* Asking and sending *)

\* IsProcessRunning tries to lock; if it can, nobody has the lock but itself.
Probe(i) ==
  /\ Turns(i, "idle", "probing")
  /\ TakeLock(i, StatusFile)
  /\ UNCHANGED <<status, dirty, saved, socket, server, thread, excused>>

EndProbe(i) ==
  /\ Turns(i, "probing", "idle")
  /\ GiveLock(i, StatusFile)
  /\ UNCHANGED <<status, dirty, saved, socket, server, thread, excused>>

\* SendMessageToControllingProcess asks first, and sends nothing if the lock is free.
SendMessage(i) ==
  /\ Turns(i, "idle", "connecting") /\ owner[StatusFile] # NoOwner
  /\ UNCHANGED <<owner, status, dirty, saved, socket, server, thread, excused>>

\* Nobody may be listening: an exception.  The server has one runnable, made for the
\* descriptor of the first connection, which it starts again for every other one.
Connect(i) ==
  /\ Turns(i, "connecting", "idle")
  /\ thread' = IF socket \in Lockers /\ thread[socket] = NoOwner
               THEN [thread EXCEPT ![socket] = i] ELSE thread
  /\ UNCHANGED <<owner, status, dirty, saved, socket, server, excused>>

---------------------------------------------------------------------------
(* Controlling *)

SetStatus(i, s) ==
  /\ state[i] = "idle" /\ Controls(i)
  /\ Put(i, s)
  /\ UNCHANGED <<owner, state, saved, socket, server, thread, excused>>

\* SetIsProcessRunning(true); if the lock is refused there is an exception.
Start(i) ==
  /\ Turns(i, "idle", "announcing")
  /\ TakeLock(i, StatusFile)
  /\ Put(i, "Normal")
  /\ excused' = IF socket = NoOwner THEN excused ELSE excused \union {i}
  /\ UNCHANGED <<saved, socket, server, thread>>

\* A bug to detect: a socket file of that name is removed first.
AnnounceOver(i) ==
  /\ Turns(i, "announcing", "idle")
  /\ server' = [server EXCEPT ![i] = "listening"] /\ socket' = i
  /\ thread' = [thread EXCEPT ![i] = NoOwner]
  /\ UNCHANGED <<owner, status, dirty, saved, excused>>

\* listen fails if there is a socket file of that name; nobody looks at the result.
Announce(i) ==
  /\ Turns(i, "announcing", "idle")
  /\ server' = [server EXCEPT ![i] = IF socket = NoOwner THEN "listening" ELSE "deaf"]
  /\ socket' = IF socket = NoOwner THEN i ELSE socket
  /\ thread' = [thread EXCEPT ![i] = NoOwner]
  /\ UNCHANGED <<owner, status, dirty, saved, excused>>

\* A bug to detect: the status stays what it was.
StopQuietly(i, to) ==
  /\ Turns(i, "idle", to) /\ Controls(i)
  /\ GiveLock(i, StatusFile)
  /\ UNCHANGED <<status, dirty, saved, socket, server, thread, excused>>

\* SetIsProcessRunning(false), and the destructor of the one that controls.
Stop(i, to) ==
  /\ Turns(i, "idle", to) /\ Controls(i)
  /\ Put(i, "NotRunning")
  /\ GiveLock(i, StatusFile)
  /\ UNCHANGED <<saved, socket, server, thread, excused>>

CloseServer(i) ==
  /\ server' = [server EXCEPT ![i] = "none"]
  /\ socket' = IF server[i] = "listening" THEN NoOwner ELSE socket
  /\ thread' = [thread EXCEPT ![i] = NoOwner]
  /\ excused' = excused \ {i}

\* What an indicator had in memory is gone.
Forget(i) == /\ status' = [status EXCEPT ![i] = "NotRunning"]
             /\ dirty' = [dirty EXCEPT ![i] = FALSE]

FinishStop(i) ==
  /\ Turns(i, "closing", "idle")
  /\ CloseServer(i)
  /\ UNCHANGED <<owner, status, dirty, saved>>

Leave(i) ==
  /\ Turns(i, "idle", "dying") /\ ~Controls(i)
  /\ UNCHANGED <<owner, status, dirty, saved, socket, server, thread, excused>>

\* The members are destroyed: the server, then the settings, which are saved.
FinishDestroy(i) ==
  /\ Turns(i, "dying", "gone")
  /\ CloseServer(i)
  /\ saved' = IF dirty[i] THEN status[i] ELSE saved
  /\ Forget(i)
  /\ UNCHANGED owner

Crash(i) ==
  /\ state[i] # "gone" /\ state' = [state EXCEPT ![i] = "gone"]
  /\ DropLocks({i})
  /\ server' = [server EXCEPT ![i] = "none"] /\ thread' = [thread EXCEPT ![i] = NoOwner]
  /\ socket' = IF socket = i THEN Stale ELSE socket
  /\ Forget(i) /\ excused' = excused \ {i}
  /\ UNCHANGED saved

StatusNext ==
  \/ \E i \in Lockers :
       \/ ConstructIndicator(i) \/ Probe(i) \/ EndProbe(i) \/ SendMessage(i) \/ Connect(i)
       \/ Start(i) \/ Announce(i) \/ FinishStop(i) \/ Leave(i) \/ FinishDestroy(i) \/ Crash(i)
  \/ \E i \in Lockers, to \in {"closing", "dying"} : Stop(i, to)
  \/ \E i \in Lockers, s \in {"Normal", "Idle"} : SetStatus(i, s)

---------------------------------------------------------------------------
(* Properties *)

\* The status is not "NotRunning" in the controlling process and nowhere else, and the
\* settings file that the others read never holds anything else.
StatusStaysHome ==
  /\ saved = "NotRunning"
  /\ \A i \in Lockers : status[i] # "NotRunning" <=> Controls(i)

\* One server listens, and it belongs to the process that controls, or to its predecessor,
\* who gives the lock back before it closes the server.  Who controls is deaf only if it
\* found the socket file of that predecessor, or of a process that had crashed, when it
\* took over.
OneServerListens ==
  /\ \A i \in Lockers :
       /\ server[i] = "listening" <=> socket = i
       /\ server[i] # "none" => Controls(i) \/ state[i] \in {"closing", "dying"}
       /\ Controls(i) /\ state[i] # "announcing" => server[i] # "none"
       /\ server[i] = "deaf" => i \in excused
  /\ \A i, j \in Lockers : server[i] = "listening" /\ Controls(j) /\ i # j =>
       server[j] = "deaf" \/ state[j] = "announcing"

\* "A status indicator that works between processes" (processstatusindicator.h): whoever
\* starts, stops, sends, asks and crashes, there is one server for the messages, up to the
\* cases that OneServerListens names; but the status works in the controlling process only.
StatusIsShared == StatusStaysHome /\ OneServerListens
=============================================================================
