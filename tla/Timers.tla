------------------------------- MODULE Timers -------------------------------
(***************************************************************************)
(* Objects of src/qt that keep time or work on timer events:               *)
(*                                                                         *)
(*   FaderWidget (ui/faderwidget.cpp) covers its parent with a colour that *)
(*   fades away or comes;                                                  *)
(*   COMPortWatcher (data_access/comportwatcher.cpp) looks for serial      *)
(*   ports and tells others when they change;                              *)
(*   StopwatchEngine (utils/stopwatchengine.cpp) is used by several        *)
(*   threads.  Its read-write lock makes a step of every call that changes *)
(*   it; two things happen outside: _refresh writes under the lock for     *)
(*   reading, so that two readers overlap, and StartStop tells its         *)
(*   listeners after it has unlocked.                                      *)
(*                                                                         *)
(* Where the call of a thread with the stopwatch stands:                   *)
(*   "idle"     outside a call                                             *)
(*   "reading"  in a call that reads, with the clock read in _refresh      *)
(*   "unlocked" in StartStop, about to read m_isRunning for the signal     *)
(*   "emitting" about to emit the signal                                   *)
(***************************************************************************)
EXTENDS Integers, FiniteSets, Sequences, SequencesExt

CONSTANTS FadeDurations, FadeDelays,   \* in milliseconds
          Ports,       \* serial ports that may be plugged in
          Users,       \* the threads with the stopwatch
          MaxNow,      \* the clock stops there (a bound)
          MaxMarks     \* GetMarkMemoryMaxLength()

ASSUME TimersAssumption    == FadeDurations \subseteq Nat \ {0} /\ FadeDelays \subseteq Nat
ASSUME StopwatchAssumption == MaxNow \in Nat /\ MaxMarks \in Nat \ {0}

VARIABLES
  fader,     \* the fields of a FaderWidget; shown, parentShown; history: asked, whether a fade
             \* was requested, and stuck, one that no timer will carry out
  watcher,   \* of a COMPortWatcher: watching (m_tid # -1), ports (m_availablePorts); plugged,
             \* the ports there are; what another thread makes of its signals: emitting,
             \* notified and known
  \* the stopwatch:
  now,         \* QDateTime::currentDateTime()
  watch,       \* m_isRunning, the two accumulated times, m_startTime, m_stopTime, m_time,
               \* m_markTimes; the null time is NoTime
  position,    \* where each thread stands
  seen,        \* what it has read: the clock or m_isRunning
  told,        \* what the listener of NotifyStartedStopped was last told
  ran,         \* history: for how long the stopwatch has run since it was reset
  firstStart,  \* history: when it was started for the first time since then
  muddled      \* history: calls of StartStop have overlapped, or Reset was called while
               \* the stopwatch stood still

timerVars == <<fader, watcher>>

Resolution == 40     \* FADE_RESOLUTION
Opaque     == 255

Greater(a, b) == IF a > b THEN a ELSE b
Lesser(a, b)  == IF a < b THEN a ELSE b

---------------------------------------------------------------------------
(* FaderWidget *)

\* timer: m_timerId is -1, that of a timer, or that of one that was killed.  The fader of a
\* LineEditWithButton has the button for its parent, which is hidden at first.
NewFader(duration, delay, ofButton) ==
  [timer |-> "none", alpha |-> 0, delayCtr |-> 0, fadeIn |-> FALSE,
   duration |-> duration, delay |-> delay, shown |-> FALSE, parentShown |-> ~ofButton,
   ofButton |-> ofButton, asked |-> FALSE, stuck |-> FALSE]

FaderInit ==
  \E duration \in FadeDurations, delay \in FadeDelays, ofButton \in BOOLEAN :
    fader = NewFader(duration, delay, ofButton)

\* A bug to detect: a fade that follows another starts without its delay, whose end shows
\* the parent.
FadeStartedAtOnce(f) ==
  [f EXCEPT !.alpha = IF f.fadeIn THEN Opaque ELSE 0, !.shown = TRUE,
            !.timer = IF @ = "none" THEN "running" ELSE @,
            !.asked = TRUE, !.stuck = f.timer = "dead"]

\* _fade_requested without skip_fade: there is a new timer only if m_timerId is -1.
FadeStarted(f) ==
  [f EXCEPT !.delayCtr = f.delay, !.alpha = IF f.fadeIn THEN Opaque ELSE 0, !.shown = TRUE,
            !.timer = IF @ = "none" THEN "running" ELSE @,
            !.asked = TRUE, !.stuck = f.timer = "dead"]

\* _fade_requested(true).
FadeSkipped(f) ==
  [f EXCEPT !.timer = "none", !.shown = IF f.fadeIn THEN FALSE ELSE @, !.parentShown = f.fadeIn,
            !.asked = TRUE, !.stuck = FALSE]

\* FadeIn, FadeOut, ToggleFade.
FadeRequested(f, fadeIn, skip) ==
  LET g == [f EXCEPT !.fadeIn = fadeIn]
  IN  IF skip THEN FadeSkipped(g) ELSE FadeStarted(g)

\* How much one timer event adds or takes.
FadeStep(f) == (Opaque * Resolution) \div f.duration

\* timerEvent after the delay.  The timer that is done is killed, its number kept.
Faded(f) ==
  LET alpha == IF f.fadeIn THEN Greater(f.alpha - FadeStep(f), 0)
               ELSE Lesser(f.alpha + FadeStep(f), Opaque)
      done  == alpha = IF f.fadeIn THEN 0 ELSE Opaque
  IN  [f EXCEPT !.alpha = alpha, !.delayCtr = -1,
                !.timer = IF done THEN "dead" ELSE @,
                !.shown = IF done /\ f.fadeIn THEN FALSE ELSE @,
                !.parentShown = IF f.fadeIn THEN (@ \/ f.delayCtr = 0) ELSE (@ /\ ~done)]

\* timerEvent.
Ticked(f) ==
  IF f.delayCtr > 0 THEN [f EXCEPT !.delayCtr = Greater(@ - Resolution, 0)] ELSE Faded(f)

\* LineEditWithButton, whose button is visible unless it is hidden itself.
ShowButton == fader.ofButton /\ ~fader.parentShown /\ fader' = FadeRequested(fader, TRUE, FALSE)
HideButton == fader.ofButton /\ fader.parentShown /\ fader' = FadeRequested(fader, FALSE, FALSE)

FaderNext ==
  \/ ~fader.ofButton /\ \E fadeIn, skip \in BOOLEAN : fader' = FadeRequested(fader, fadeIn, skip)
  \/ ShowButton \/ HideButton
  \/ fader.timer = "running" /\ fader' = Ticked(fader)

---------------------------------------------------------------------------
(* COMPortWatcher: its thread, and another one that asks for the ports when it is told. *)

WatcherInit ==
  watcher = [watching |-> FALSE, ports |-> {}, plugged |-> {},
             emitting |-> FALSE, notified |-> FALSE, known |-> {}]

StartWatching == ~watcher.watching /\ ~watcher.emitting /\ watcher' = [watcher EXCEPT !.watching = TRUE]

\* The list is cleared.
StopWatching ==
  /\ watcher.watching /\ ~watcher.emitting
  /\ watcher' = [watcher EXCEPT !.watching = FALSE, !.ports = {}, !.emitting = TRUE]

\* A bug to detect: nobody is told when the last port goes.
LookForPortsQuietly ==
  /\ watcher.watching /\ ~watcher.emitting
  /\ watcher' = [watcher EXCEPT !.ports = watcher.plugged,
                                !.emitting = watcher.plugged \notin {{}, watcher.ports}]

\* timerEvent: the list changes under the lock, the signal is emitted after it.
LookForPorts ==
  /\ watcher.watching /\ ~watcher.emitting
  /\ watcher' = [watcher EXCEPT !.ports = watcher.plugged, !.emitting = watcher.plugged # watcher.ports]

EmitChanged ==
  watcher.emitting /\ watcher' = [watcher EXCEPT !.emitting = FALSE, !.notified = TRUE]

\* GetAvailablePorts, on the signal or at any time.
GetAvailablePorts ==
  \/ watcher' = [watcher EXCEPT !.known = watcher.ports]
  \/ watcher.notified /\ watcher' = [watcher EXCEPT !.known = watcher.ports, !.notified = FALSE]

Plug == \E p \in Ports : \/ watcher' = [watcher EXCEPT !.plugged = @ \cup {p}]
                         \/ watcher' = [watcher EXCEPT !.plugged = @ \ {p}]

WatcherNext ==
  StartWatching \/ StopWatching \/ LookForPorts \/ EmitChanged \/ GetAvailablePorts \/ Plug

---------------------------------------------------------------------------
(* StopwatchEngine *)

watchVars == <<now, watch, position, seen, told, ran, firstStart, muddled>>

NoTime == 0

NewWatch == [running |-> FALSE, accumulated |-> 0, sinceStart |-> 0,
             start |-> NoTime, stop |-> NoTime, time |-> NoTime, marks |-> <<>>]

StopwatchInit ==
  /\ now = 1 /\ watch = NewWatch
  /\ position = [u \in Users |-> "idle"] /\ seen = [u \in Users |-> NoTime]
  /\ told = FALSE /\ ran = 0 /\ firstStart = NoTime /\ muddled = {}

Refreshed(w, t) == IF w.running THEN [w EXCEPT !.sinceStart = t - w.time] ELSE w

Elapsed(w)     == w.accumulated + w.sinceStart
TimeCurrent(w) == w.start + Elapsed(w)
WasStarted(w)  == Elapsed(w) > 0

Moves(u, from, to) == position[u] = from /\ position' = [position EXCEPT ![u] = to]

\* A writer waits for the readers.
NoReaders == \A u \in Users : position[u] # "reading"

---------------------------------------------------------------------------

\* The clock goes on, and is not set back.
Tick ==
  /\ now < MaxNow /\ now' = now + 1
  /\ ran' = IF watch.running THEN ran + 1 ELSE ran
  /\ UNCHANGED <<watch, position, seen, told, firstStart, muddled>>

\* A bug to detect: the time before the stop is forgotten.
StartedAnew(w) ==
  IF w.running THEN w
  ELSE [w EXCEPT !.sinceStart = 0, !.time = now,
                 !.start = IF @ = NoTime THEN now ELSE @, !.running = TRUE]

Started(w) ==
  IF w.running THEN w
  ELSE [w EXCEPT !.accumulated = @ + w.sinceStart, !.sinceStart = 0, !.time = now,
                 !.start = IF @ = NoTime THEN now ELSE @, !.running = TRUE]

Stopped(w) == IF w.running THEN [Refreshed(w, now) EXCEPT !.running = FALSE, !.stop = now] ELSE w

StartStop(u, start) ==
  /\ Moves(u, "idle", "unlocked") /\ NoReaders
  /\ watch' = IF start THEN Started(watch) ELSE Stopped(watch)
  /\ firstStart' = IF start /\ firstStart = NoTime THEN now ELSE firstStart
  /\ muddled' = IF \E v \in Users : position[v] \in {"unlocked", "emitting"}
                THEN muddled \union {"signal"} ELSE muddled
  /\ UNCHANGED <<now, seen, told, ran>>

ReadFlag(u) ==
  /\ Moves(u, "unlocked", "emitting")
  /\ seen' = [seen EXCEPT ![u] = IF watch.running THEN 1 ELSE 0]
  /\ UNCHANGED <<now, watch, told, ran, firstStart, muddled>>

Emit(u) ==
  /\ Moves(u, "emitting", "idle")
  /\ told' = (seen[u] = 1) /\ seen' = [seen EXCEPT ![u] = NoTime]
  /\ muddled' = IF \A v \in Users \ {u} : position[v] \notin {"unlocked", "emitting"}
                THEN muddled ELSE muddled \union {"signal"}
  /\ UNCHANGED <<now, watch, ran, firstStart>>

\* A bug to detect: the stopwatch is stopped as well, and the listener not told.
ResetStopping(u) ==
  /\ position[u] = "idle" /\ NoReaders
  /\ watch' = [NewWatch EXCEPT !.start = now, !.time = now]
  /\ ran' = 0 /\ firstStart' = NoTime /\ muddled' = muddled \union {"start"}
  /\ UNCHANGED <<now, position, seen, told>>

\* Reset does not stop the stopwatch, nor clear the time of the start.
Reset(u) ==
  /\ position[u] = "idle" /\ NoReaders
  /\ watch' = [watch EXCEPT !.stop = NoTime, !.start = now, !.time = now,
                            !.accumulated = 0, !.sinceStart = 0, !.marks = <<>>]
  /\ ran' = 0 /\ firstStart' = IF watch.running THEN now ELSE NoTime
  /\ muddled' = IF watch.running THEN muddled \ {"start"} ELSE muddled \union {"start"}
  /\ UNCHANGED <<now, position, seen, told>>

\* Mark and Refresh, with the lock for writing; the oldest marks go.
Mark(u) ==
  /\ position[u] = "idle" /\ NoReaders
  /\ LET w == Refreshed(watch, now)
     IN  watch' = [w EXCEPT !.marks = <<TimeCurrent(w)>> \o
                     SubSeq(@, 1, IF Len(@) < MaxMarks THEN Len(@) ELSE MaxMarks - 1)]
  /\ UNCHANGED <<now, position, seen, told, ran, firstStart, muddled>>

Refresh(u) ==
  /\ position[u] = "idle" /\ NoReaders
  /\ watch' = Refreshed(watch, now)
  /\ UNCHANGED <<now, position, seen, told, ran, firstStart, muddled>>

\* TimeCurrent, TimeStart, TimeStopped and WasStarted: the clock is read, then the time
\* written, by any number of readers.
ReadClock(u) ==
  /\ Moves(u, "idle", "reading")
  /\ seen' = [seen EXCEPT ![u] = now]
  /\ UNCHANGED <<now, watch, told, ran, firstStart, muddled>>

WriteTime(u) ==
  /\ Moves(u, "reading", "idle")
  /\ watch' = Refreshed(watch, seen[u]) /\ seen' = [seen EXCEPT ![u] = NoTime]
  /\ UNCHANGED <<now, told, ran, firstStart, muddled>>

StopwatchNext ==
  \/ Tick
  \/ \E u \in Users : \/ \E start \in BOOLEAN : StartStop(u, start)
                      \/ ReadFlag(u) \/ Emit(u) \/ Reset(u) \/ Mark(u) \/ Refresh(u)
                      \/ ReadClock(u) \/ WriteTime(u)

---------------------------------------------------------------------------
(* All of them *)

TimersInit == FaderInit /\ WatcherInit /\ StopwatchInit

TimersNext ==
  \/ FaderNext /\ UNCHANGED <<watcher, watchVars>>
  \/ WatcherNext /\ UNCHANGED <<fader, watchVars>>
  \/ StopwatchNext /\ UNCHANGED timerVars

---------------------------------------------------------------------------
(* Properties *)

\* An upper bound of the timer events until a fade is done.
EventsLeft(f) ==
  Greater(f.delayCtr, 0) + (IF f.fadeIn THEN f.alpha ELSE Opaque - f.alpha)

\* Every timer event brings the end of the fade closer, unless it is so long (more than
\* 10200 ms) that a step of it is rounded to nothing; and when no timer runs any more the
\* parent is shown as requested last and not covered.  But timerEvent kills its timer and
\* keeps its number, so that of two fades that are not skipped, the second one after the
\* end of the first, the second is never carried out: a button that has come or gone
\* (LineEditWithButton) stays so.
FadesEnd ==
  /\ fader.timer = "running" /\ FadeStep(fader) > 0 =>
       LET next == Ticked(fader)
       IN  next.timer = "running" => EventsLeft(next) < EventsLeft(fader)
  /\ fader.timer # "running" /\ fader.asked /\ ~fader.stuck =>
       fader.parentShown = fader.fadeIn /\ (fader.fadeIn => ~fader.shown)

\* Who asks for the ports whenever he is told that they have changed knows the list, or
\* will be told again.
PortsAreKnown == watcher.known = watcher.ports \/ watcher.emitting \/ watcher.notified

\* The time it shows is what it has run since it was reset, whoever starts, stops, marks
\* and reads it, or a time that has passed already while it runs and is read; the marks
\* are such times, the last one first.  "The date and time the stopwatch was started"
\* (TimeStart) is that of the first start, unless it was reset while it stood still:
\* then it is the time of the reset.
ShowsRunningTime ==
  /\ IF watch.running THEN Elapsed(watch) <= ran ELSE Elapsed(watch) = ran
  /\ \A i \in 1 .. Len(watch.marks) :
       /\ watch.marks[i] <= watch.start + ran
       /\ i < Len(watch.marks) => watch.marks[i + 1] <= watch.marks[i]
  /\ firstStart # NoTime => /\ watch.start <= firstStart
                            /\ "start" \notin muddled => watch.start = firstStart

\* The listener knows whether the stopwatch runs once the calls of StartStop are through,
\* unless two of them have overlapped: then the signals may come in the wrong order.
ListenerIsTold ==
  "signal" \notin muddled /\ (\A u \in Users : position[u] \in {"idle", "reading"})
    => (told <=> watch.running)

\* A stopwatch and its listener agree with what the threads did to it: with the clock
\* going on, overlapping reads, starts, stops, marks and resets.
StopwatchIsRight == ShowsRunningTime /\ ListenerIsTold

\* What timers do comes to its end, is told, and is the time that has passed.
TimersAreRight == StopwatchIsRight /\ FadesEnd /\ PortsAreKnown
===========================================================================
