------------------------------ MODULE MCDevices ------------------------------
(* The instance of the devices, and of what threads share apart from them, that *)
(* TLC checks.  A behaviour exercises one of them.                              *)
EXTENDS ConsoleIODevice, FileDevice, ProcessStatus, SharedPointer, Files, GpsFile,
        Timers, Transfers

CONSTANTS deviceA, deviceB, deviceC,      \* devices, and indicators
          truncater, sender1, sender2     \* the threads of the file devices

VARIABLE subject       \* what this behaviour exercises

\* Two threads share the first device, which is also given another file.
MCDeviceOf == [u \in Threads |-> IF u = sender2 THEN deviceB ELSE deviceA]
MCCallsOf  == [u \in Threads |-> CASE u = truncater -> {"truncate"}
                                   [] u = sender1   -> {"truncate", "send"}
                                   [] u = sender2   -> {"send", "receive"}]
MCNamesOf  == [d \in Lockers |-> IF d = deviceB THEN {"first", "second"} ELSE {"first"}]

\* Two keyfiles are the same, and another one is lost.
Credentials(type, password, keyfile) == [type |-> type, password |-> password, keyfile |-> keyfile]
MCKeyfileContents == [file \in {"key", "copy"} |-> "random bytes"]
MCOwner           == Credentials("PasswordAndKeyfileType", "secret", "key")
MCAllCredentials  ==
  {Credentials("PasswordAndKeyfileType", "secret", "copy"),
   Credentials("PasswordAndKeyfileType", "secret", "lost"),
   Credentials("KeyfileType", "", "key"), Credentials("PasswordType", "secret", "")}

\* Units of payloads, the second of which is exported in two chunks.
MCPayloads == LET u == [unit |-> 1] IN {<<>>, <<u>>, <<[unit |-> 2], u>>}

\* A menu, in which the first choice leads to another menu.
MCSubMenus == [item \in {"main", "files", "open", "quit"} |->
                 CASE item = "main" -> <<"files", "quit">> [] item = "files" -> <<"open">>
                   [] OTHER -> <<>>]

\* Files: none, one of two chunks, and one that is longer than an int can tell.
MCFileContents == {<<>>, <<1, 2, 3>>, <<1, 2, 3, 4, 5>>}

MCSubjects ==
  {"console", "file", "status", "pointers", "stopwatch", "fader", "watcher", "stream", "gps", "terminal",
   "transfer", "port"}

MCInit ==
  /\ subject \in MCSubjects
  /\ Init /\ DeviceInit /\ StatusInit /\ PointerInit /\ TimersInit /\ FilesInit /\ GpsInit /\ TerminalInit
  /\ TransferInit /\ PortInit
  /\ subject # "transfer" => files = [f \in FileNames |-> <<>>]
  /\ subject # "fader" => fader = NewFader(333, 0, FALSE)

fileVars     == <<contents, modified, clock, name, mode, lastUpdate, doing, job, readAt,
                  overtaken, spoiled>>
indicatorVars == <<state, status, dirty, saved, socket, server, thread, excused>>

\* The locks belong to the file devices and to the indicators.
OnlyOf(S) ==
  /\ subject \in S /\ UNCHANGED subject
  /\ "console" \notin S => UNCHANGED vars
  /\ "file" \notin S => UNCHANGED fileVars
  /\ "status" \notin S => UNCHANGED indicatorVars
  /\ {"file", "status"} \cap S = {} => UNCHANGED owner
  /\ "pointers" \notin S => UNCHANGED pointerVars
  /\ "stopwatch" \notin S => UNCHANGED watchVars
  /\ "fader" \notin S => UNCHANGED fader
  /\ "watcher" \notin S => UNCHANGED watcher
  /\ "stream" \notin S => UNCHANGED fileStreamVars
  /\ "gps" \notin S => UNCHANGED gpsVars
  /\ "terminal" \notin S => UNCHANGED terminalVars
  /\ "transfer" \notin S => UNCHANGED <<files, transfer>>
  /\ "port" \notin S => UNCHANGED port

\* In a behaviour only the calls of one file device fail, whichever it is (a bound).
OneDeviceFails == Cardinality(spoiled' \cap Lockers) <= 1

MCNext ==
  \/ OnlyOf({"console"}) /\ Next
  \/ OnlyOf({"file"}) /\ DeviceNext /\ OneDeviceFails
  \/ OnlyOf({"status"}) /\ StatusNext
  \/ OnlyOf({"pointers"}) /\ PointerNext
  \/ OnlyOf({"stopwatch"}) /\ StopwatchNext
  \/ OnlyOf({"fader"}) /\ FaderNext
  \/ OnlyOf({"watcher"}) /\ WatcherNext
  \/ OnlyOf({"stream"}) /\ FilesNext
  \/ OnlyOf({"gps"}) /\ GpsNext
  \/ OnlyOf({"terminal"}) /\ TerminalNext
  \/ OnlyOf({"transfer"}) /\ TransferNext
  \/ OnlyOf({"port"}) /\ PortNext

MCSpec == MCInit /\ [][MCNext]_
           <<subject, vars, deviceVars, indicatorVars, pointerVars, timerVars, watchVars,
             fileStreamVars, gpsVars, terminalVars, files, transfer, port>> /\ Fairness

\* What is read from a file, copied, or imported is what was written, appended, or exported;
\* what is read from a terminal, and chosen from a menu, is what was typed.
FilesAreTrue ==
  /\ subject = "stream" => FilesAreRight
  /\ subject = "gps" => GpsFilesAreTrue
  /\ subject = "terminal" => TerminalIsRight
  /\ subject \in {"transfer", "port"} => TransfersAreRight
=============================================================================
