-------------------------------- MODULE Files --------------------------------
(***************************************************************************)
(* File (src/core/data_access/file.cpp), a file of the C library that is   *)
(* opened, read, written and closed through one object, and the streams    *)
(* its bytes go through: IInput::Pump copies a part of the file, a         *)
(* ConstrainedInput, chunk by chunk to an OutputReplicator.                *)
(*                                                                         *)
(* A call that throws without an effect is not a step.  Between a read and *)
(* a write the C library asks for a change of the position (turned).       *)
(*                                                                         *)
(* And Console (src/core/data_access/console.cpp), which reads lines and   *)
(* words from the standard input through a buffer of fixed size, and       *)
(* CommandLineMenu (src/core/utils/commandlinemenu.cpp), which lets the    *)
(* user choose from a tree of menus by the numbers he types.  A call that  *)
(* waits for input is a step once the input is there; at the end of the    *)
(* input it never returns.                                                 *)
(***************************************************************************)
EXTENDS Integers, Sequences

LOCAL INSTANCE SequencesExt
LOCAL INSTANCE FiniteSetsExt

CONSTANTS FileBytes,     \* what is written
          MaxFileLength  \* the length of the file (a bound)

ASSUME FilesAssumption == MaxFileLength \in Nat

VARIABLES
  disk,       \* the contents of the file, or Absent
  handle,     \* h: how it is opened, the position, the end-of-file flag, and whether the
              \* last transfer was a "read" or a "write" ("either" after a Seek)
  done        \* history: the last call that moved bytes, and what it returned

fileStreamVars == <<disk, handle, done>>

Absent  == <<-1>>
Nothing == [call |-> "none"]
NewLine == 10
Unknown == 0           \* a byte of a buffer that was not read into, and of a hole in a file

OpenModeEnum ==
  [OpenRead              |-> {"reads"},
   OpenWrite             |-> {"writes", "creates", "truncates"},
   OpenReadWrite         |-> {"reads", "writes"},
   OpenReadWriteTruncate |-> {"reads", "writes", "creates", "truncates"},
   OpenAppend            |-> {"writes", "creates", "appends"},
   OpenReadAndAppend     |-> {"reads", "writes", "creates", "appends"}]

ClosedHandle == [mode |-> {}, pos |-> 0, eof |-> FALSE, turned |-> "either"]

FileIsOpen == handle.mode # {}
May(what) == what \in handle.mode
Available == IF Len(disk) > handle.pos THEN Len(disk) - handle.pos ELSE 0
Upcoming(n) == SubSeq(disk, handle.pos + 1, handle.pos + n)

FilesInit == disk = Absent /\ handle = ClosedHandle /\ done = Nothing

\* The C library starts at the end of a file it only appends to.
OpenAs(e) ==
  LET mode   == OpenModeEnum[e]
      before == IF disk = Absent \/ "truncates" \in mode THEN <<>> ELSE disk
  IN  /\ ~FileIsOpen
      /\ disk # Absent \/ "creates" \in mode
      /\ disk' = before
      /\ handle' = [ClosedHandle EXCEPT !.mode = mode,
                      !.pos = IF "appends" \in mode /\ "reads" \notin mode
                              THEN Len(before) ELSE 0]
      /\ done' = Nothing

CloseFile == FileIsOpen /\ handle' = ClosedHandle /\ done' = Nothing /\ UNCHANGED disk

\* Delete closes the file, also when there is nothing to delete.
DeleteFile == disk' = Absent /\ handle' = ClosedHandle /\ done' = Nothing

\* Touch opens the file for writing, which empties it.  Not while this object has it open.
TouchFile == ~FileIsOpen /\ disk' = <<>> /\ done' = Nothing /\ UNCHANGED handle

SoughtTo(pos) == [handle EXCEPT !.pos = pos, !.eof = FALSE, !.turned = "either"]

SeekFile(pos) == FileIsOpen /\ handle' = SoughtTo(pos) /\ done' = Nothing /\ UNCHANGED disk

\* Length() goes to the end and back, which clears the end-of-file flag.
MeasureFile == FileIsOpen /\ handle' = SoughtTo(handle.pos) /\ done' = Nothing /\ UNCHANGED disk

WriteFile(data) ==
  LET at     == IF May("appends") THEN Len(disk) ELSE handle.pos
      hole   == [i \in 1..(IF at > Len(disk) THEN at - Len(disk) ELSE 0) |-> Unknown]
      before == disk \o hole
  IN  /\ May("writes") /\ (handle.turned # "read" \/ handle.eof)
      /\ at + Len(data) <= MaxFileLength
      /\ disk' = SubSeq(before, 1, at) \o data
                   \o SubSeq(before, at + Len(data) + 1, Len(before))
      /\ handle' = [handle EXCEPT !.pos = at + Len(data), !.turned = "write"]
      /\ done' = [call |-> "write", before |-> disk, at |-> at, data |-> data]

Readable == May("reads") /\ handle.turned # "write"

Passed(n, hitEnd) == [handle EXCEPT !.pos = @ + n, !.eof = @ \/ hitEnd, !.turned = "read"]

ReadFile(bytes) ==
  LET n == Min({bytes, Available})
  IN  /\ Readable /\ ~handle.eof
      /\ handle' = Passed(n, n < bytes)
      /\ done' = [call |-> "read", from |-> handle.pos, value |-> Upcoming(n)]
      /\ UNCHANGED disk

---------------------------------------------------------------------------
(* ReadLine: byte by byte until the predicate holds of what has been read. *)

NoLimit == MaxFileLength + 1

EndsLine(s) == s # <<>> /\ Last(s) = NewLine

\* The limit counts the byte of the new line as well.
LineIsDone(s, max) == EndsLine(s) \/ (max # NoLimit /\ Len(s) >= max + 1)

\* The fewest bytes the predicate accepts, or all that are left.
LineLength(max) ==
  LET accepted == {n \in 0..Available : LineIsDone(Upcoming(n), max)}
  IN  IF accepted = {} THEN Available ELSE Min(accepted)

ReadLineOf(max) ==
  LET n == LineLength(max)
      s == Upcoming(n)
  IN  /\ Readable /\ ~handle.eof
      /\ handle' = Passed(n, ~LineIsDone(s, max))
      /\ done' = [call |-> "line", from |-> handle.pos, max |-> max,
                  value |-> IF EndsLine(s) THEN Front(s) ELSE s]
      /\ UNCHANGED disk

---------------------------------------------------------------------------
(* Pump, from the part of the file between start and end. *)

\* One chunk after the other.  The buffer keeps its size when the last chunk is shorter, and
\* all of it is written.
RECURSIVE Pumped(_, _, _, _)
Pumped(from, left, chunk, buffer) ==
  IF left = 0 THEN <<>>
  ELSE LET got  == SubSeq(disk, from + 1, from + chunk)
           next == got \o SubSeq(buffer, Len(got) + 1, Len(buffer))
           rest == left - chunk
       IN  <<next>> \o Pumped(from + chunk, rest, Min({chunk, rest}), next)

Concatenated(pieces, n) == FlattenSeq(SubSeq(pieces, 1, n))

\* OutputReplicator::WriteBytes: each of the outputs gets what is written.
Replicated(outputs, data) == [o \in outputs |-> data]

\* The callback is called at first, and then for every chunk when it is read and when it is
\* written; call number `last` (from 0) says to stop, or throws.  Never if there are fewer.
Pump(start, end, chunkSize, last) ==
  LET bytes   == end - start                      \* ConstrainedInput::BytesAvailable
      chunk   == Min({chunkSize, bytes})
      pieces  == Pumped(start, bytes, chunk, [i \in 1..chunk |-> Unknown])
      read    == Min({(last + 1) \div 2, Len(pieces)})
      written == Min({last \div 2, Len(pieces)})
  IN  /\ May("reads") /\ start < Len(disk) /\ end <= Len(disk)
      /\ handle' = [SoughtTo(start + Min({read * chunk, bytes})) EXCEPT
                      !.turned = IF read = 0 THEN "either" ELSE "read"]
      /\ done' = [call |-> "pump", from |-> start, n |-> bytes, chunk |-> chunk,
                  finished |-> last > 2 * Len(pieces),
                  value |-> Replicated({"string", "vector"}, Concatenated(pieces, written))]
      /\ UNCHANGED disk

FilesNext ==
  \/ \E e \in DOMAIN OpenModeEnum : OpenAs(e)
  \/ CloseFile \/ DeleteFile \/ TouchFile \/ MeasureFile
  \/ \E pos \in 0..MaxFileLength : SeekFile(pos)
  \/ \E data \in BoundedSeq(FileBytes, 2) : WriteFile(data)
  \/ \E n \in 0..NoLimit : ReadFile(n) \/ ReadLineOf(n)
  \/ \E end \in 0..Len(disk) : \E start \in 0..end, chunk \in 1..2 :
       \E last \in 0..2 * (end - start) + 1 : Pump(start, end, chunk, last)

---------------------------------------------------------------------------

IsPrefixOf(s, t) == Len(s) <= Len(t) /\ SubSeq(t, 1, Len(s)) = s

\* Write changes the bytes it is given to write and no other, and a file that is opened for
\* appending keeps all it had.
WritesAreExact ==
  done.call = "write" =>
    LET end == done.at + Len(done.data)
    IN  /\ SubSeq(disk, done.at + 1, end) = done.data
        /\ \A i \in 1..Len(done.before) : i \notin (done.at + 1)..end => disk[i] = done.before[i]
        /\ May("appends") => IsPrefixOf(done.before, disk)

\* ReadLine passes over what it returns and the new line, if it found one; there is no other
\* new line among them, and without one it has reached the end of the file or its limit.
\* (The limit is a number of bytes by the documentation, and one byte more in the code: a
\* line may end at either.)
LinesAreWhole ==
  done.call = "line" =>
    LET passed == SubSeq(disk, done.from + 1, handle.pos)
    IN  /\ \A i \in 1..Len(done.value) : done.value[i] # NewLine
        /\ \/ passed = done.value \o <<NewLine>>
           \/ passed = done.value /\ (handle.eof \/ Len(passed) \in {done.max, done.max + 1})

\* A pump that finishes has moved the position over the bytes asked for, and every output
\* begins with them; one that is cancelled, whenever that is, has copied the first of them
\* and lost at most one chunk, which was read and not written.
PumpCopies ==
  done.call = "pump" =>
    \A o \in DOMAIN done.value :
      LET want == SubSeq(disk, done.from + 1, done.from + done.n)
          got  == done.value[o]
      IN  /\ IsPrefixOf(SubSeq(got, 1, Min({Len(got), done.n})), want)
          /\ done.finished => IsPrefixOf(want, got) /\ handle.pos = done.from + done.n
          /\ handle.pos - (done.from + Min({Len(got), done.n})) \in 0..done.chunk

\* What a call says it has read, written or copied is what has happened to the bytes.
FilesAreRight == WritesAreExact /\ LinesAreWhole /\ PumpCopies

---------------------------------------------------------------------------
(* The console and the menu *)

CONSTANTS Typeable,       \* the characters that are typed
          MaxInput,       \* there are at most so many (a bound)
          ConsoleBuffer,  \* sizeof(__console_read_buffer), 256 in the code
          SubMenus,       \* the submenus of every menu item
          MenuRoot

ASSUME TerminalAssumption ==
  MaxInput \in Nat /\ ConsoleBuffer \in Nat \ {0} /\ MenuRoot \in DOMAIN SubMenus

VARIABLES
  stdin,      \* typed, and how much of it is taken; history: the last call and its value
  menu        \* running, and item (_current_item); history: path, the items activated

terminalVars == <<stdin, menu>>

EndOfLine == 10
Whitespace == {EndOfLine, 32}
EndsAt(mode) == IF mode = "line" THEN {EndOfLine} ELSE Whitespace

NoCall == [call |-> "none"]
Idle   == [running |-> FALSE, item |-> MenuRoot, path |-> <<>>]

TerminalInit == stdin = [typed |-> <<>>, taken |-> 0, last |-> NoCall] /\ menu = Idle

Waiting == SubSeq(stdin.typed, stdin.taken + 1, Len(stdin.typed))

Type(c) ==
  /\ Len(stdin.typed) < MaxInput
  /\ stdin' = [stdin EXCEPT !.typed = Append(@, c), !.last = NoCall] /\ UNCHANGED menu

\* What is taken by a call, and what it returns.
Took(n, last) == [stdin EXCEPT !.taken = @ + n, !.last = last @@ [from |-> stdin.taken]]

---------------------------------------------------------------------------
(* Console *)

\* _read_until_terminator: a full buffer is moved into the string when the next character
\* comes, which is not kept.
RECURSIVE ReadOn(_, _, _, _)
ReadOn(input, ends, buffer, ret) ==
  IF Head(input) \in ends THEN ret \o buffer
  ELSE IF Len(buffer) = ConsoleBuffer THEN ReadOn(Tail(input), ends, <<>>, ret \o buffer)
  ELSE ReadOn(Tail(input), ends, Append(buffer, Head(input)), ret)

\* The characters up to the terminator and including it, 0 if it has not been typed.
UpToEnd(mode) ==
  LET ends == {n \in 1 .. Len(Waiting) : Waiting[n] \in EndsAt(mode)}
  IN  IF ends = {} THEN 0 ELSE Min(ends)

ReadUntil(mode) == ReadOn(Waiting, EndsAt(mode), <<>>, <<>>)

\* ReadLine, and Read, which reads a word.
ReadToEnd(mode) ==
  /\ UpToEnd(mode) > 0
  /\ stdin' = Took(UpToEnd(mode), [call |-> mode, value |-> ReadUntil(mode)])
  /\ UNCHANGED menu

\* Read(buffer, buffer_len, bytes): there is one place for the null, and the bytes that do
\* not fit are taken and thrown away.
ReadBytes(size, bytes) ==
  /\ size > 0 /\ bytes <= Len(Waiting)
  /\ stdin' = Took(bytes, [call |-> "bytes", size |-> size, bytes |-> bytes,
                           value |-> SubSeq(Waiting, 1, Min({size - 1, bytes}))])
  /\ UNCHANGED menu

\* Read(buffer, buffer_len, UINT_MAX): up to a blank, or until the buffer is full.
ReadWordInto(size) ==
  LET fits == size - 1
      end  == UpToEnd("word")
  IN  /\ size > 0
      /\ \/ /\ end \in 1 .. fits
            /\ stdin' = Took(end, [call |-> "bytes", size |-> size, bytes |-> end - 1,
                                   value |-> SubSeq(Waiting, 1, end - 1)])
         \/ /\ end \notin 1 .. fits /\ Len(Waiting) >= fits
            /\ stdin' = Took(fits, [call |-> "bytes", size |-> size, bytes |-> fits,
                                    value |-> SubSeq(Waiting, 1, fits)])
      /\ UNCHANGED menu

\* WriteLine: the loop of LastIndexOf (vector.h 627) never runs, so one is added, but for
\* an empty text, whose length - 1 is also the number for "not found".
LineWritten(text) == IF text = <<>> THEN <<>> ELSE Append(text, EndOfLine)

---------------------------------------------------------------------------
(* CommandLineMenu *)

IsDigit(c) == c \in 48 .. 57

\* String::ToInt: blanks, then digits; what follows does not matter.
LeadingDigits(s) ==
  LET start == Min({i \in 1 .. Len(s) + 1 : i > Len(s) \/ s[i] \notin Whitespace})
      end   == Min({i \in start .. Len(s) + 1 : i > Len(s) \/ ~IsDigit(s[i])})
  IN  SubSeq(s, start, end - 1)

ToInt(s) == FoldLeft(LAMBDA n, c : 10 * n + c - 48, 0, LeadingDigits(s))

\* Exec: with no submenus it returns at once.
ExecMenu ==
  /\ ~menu.running
  /\ menu' = [running |-> SubMenus[MenuRoot] # <<>>, item |-> MenuRoot, path |-> <<>>]
  /\ UNCHANGED stdin

IsChoice(line) == LeadingDigits(line) # <<>> /\ ToInt(line) \in 1 .. Len(SubMenus[menu.item])

\* A line that is empty or no choice is read past.  After a choice the function that shows
\* the next menu ends without a return value: undefined, Exec goes on or returns.
Choose ==
  LET line == ReadUntil("line")
      next == SubMenus[menu.item][ToInt(line)]
  IN  /\ menu.running /\ UpToEnd("line") > 0
      /\ stdin' = Took(UpToEnd("line"), [call |-> "line", value |-> line])
      /\ \/ ~IsChoice(line) /\ UNCHANGED menu
         \/ /\ IsChoice(line)
            /\ \E goesOn \in BOOLEAN :
                 menu' = [running |-> goesOn /\ SubMenus[next] # <<>>, item |-> next,
                          path |-> Append(menu.path, next)]

TerminalNext ==
  \/ \E c \in Typeable : Type(c)
  \/ /\ ~menu.running
     /\ \/ \E mode \in {"line", "word"} : ReadToEnd(mode)
        \/ \E size \in 0 .. MaxInput, bytes \in 0 .. MaxInput : ReadBytes(size, bytes)
        \/ \E size \in 1 .. MaxInput : ReadWordInto(size)
  \/ ExecMenu \/ Choose

---------------------------------------------------------------------------
(* Properties *)

\* Of a line or a word everything is read but its end; of one that is longer than the buffer
\* this is said of the first bufferful (the character behind it is lost).  A Read gives bytes
\* in the order they were typed, and all that were asked for if there is room for them and
\* the null.
InputIsRead ==
  LET last   == stdin.last
      passed == SubSeq(stdin.typed, last.from + 1, stdin.taken)
  IN  /\ last.call \in {"line", "word"} =>
           /\ Last(passed) \in EndsAt(last.call)
           /\ \A i \in 1 .. Len(passed) - 1 : passed[i] \notin EndsAt(last.call)
           /\ IF Len(passed) - 1 <= ConsoleBuffer THEN last.value = Front(passed)
              ELSE IsPrefixOf(SubSeq(passed, 1, ConsoleBuffer), last.value)
      /\ last.call = "bytes" =>
           /\ last.value = SubSeq(passed, 1, Len(last.value))
           /\ last.bytes < last.size => Len(last.value) = last.bytes

\* The items that were activated lie on a path from the root, each chosen by its number in
\* the menu that was shown; and a menu that waits for a choice has some.
MenuFollowsChoices ==
  /\ \A k \in DOMAIN menu.path :
       LET above == IF k = 1 THEN MenuRoot ELSE menu.path[k - 1]
       IN  menu.path[k] \in ToSet(SubMenus[above])
  /\ menu.running => SubMenus[menu.item] # <<>>
  /\ menu.item = IF menu.path = <<>> THEN MenuRoot ELSE Last(menu.path)

\* A line that fits into the buffer is read as it was written, unless it is empty or ends
\* in an end of line already.
LinesAreWritten ==
  LET text == stdin.typed
  IN  text # <<>> /\ Len(text) <= ConsoleBuffer /\ EndOfLine \notin ToSet(text) =>
        ReadOn(LineWritten(text), {EndOfLine}, <<>>, <<>>) = text

TerminalIsRight == InputIsRead /\ MenuFollowsChoices /\ LinesAreWritten
=============================================================================
