------------------------------ MODULE Transfers ------------------------------
(***************************************************************************)
(* Bytes that are moved piece by piece while others interfere:             *)
(* DataTransferUtils (src/qt/utils/datatransferutils.cpp), which writes,   *)
(* copies and reads files in chunks until another thread sets a flag, and  *)
(* SerialPort (src/core/data_access/serialport.cpp, as built on unix),     *)
(* which reads and writes a byte at a time while the line may break.       *)
(*                                                                         *)
(* Where a transfer stands (`stage`):                                      *)
(*   "idle"     none was called yet                                        *)
(*   "loop"     at the condition of the loop                               *)
(*   "check"    behind the loop, about to compare the bytes with the total *)
(*   "returned" or "threw"                                                 *)
(***************************************************************************)
EXTENDS Integers, Sequences

CONSTANTS ChunkSize,     \* CHUNK_SIZE, 4096 in the code
          IntLimit,      \* an int is less than this, 2^31 in the code
          FileNames, FileContents,   \* the files, and what is in them (bounds)
          NoFile,        \* the content of a file that is not there
          LineBytes, MaxLine,        \* what comes on the serial line, and how much (bounds)
          Junk,          \* a byte that nobody has written
          Word           \* the numbers of a GUINT32, 2^32 in the code

ASSUME TransfersAssumption ==
  /\ ChunkSize \in Nat \ {0} /\ IntLimit \in Nat \ {0}
  /\ Word \in Nat \ {0} /\ MaxLine \in Nat
  /\ FileContents \subseteq Seq(Int) /\ <<>> \in FileContents /\ NoFile \notin Seq(Int)

VARIABLES
  files,      \* the content of every file
  transfer,   \* the locals of the call; history: opened, whether the files could be opened,
              \* data, what was to be written or in the source then, touched, whether another
              \* program has changed the source since, and short, whether a write has failed
  port        \* the serial port: see NewPort

NoTransfer ==
  [stage |-> "idle", kind |-> "write", source |-> "", dest |-> "", total |-> 0, done |-> 0,
   got |-> <<>>, flag |-> FALSE, flagged |-> FALSE, reason |-> "none",
   opened |-> FALSE, data |-> <<>>, touched |-> FALSE, short |-> FALSE]

Smaller(a, b) == IF a < b THEN a ELSE b
FirstBytes(s, n)   == SubSeq(s, 1, Smaller(n, Len(s)))

\* A size that is put into an int.
PutIntoInt(n) == LET r == n % (2 * IntLimit) IN IF r < IntLimit THEN r ELSE r - 2 * IntLimit

---------------------------------------------------------------------------
(* DataTransferUtils *)

Running == transfer.stage \in {"loop", "check"}

\* flag: whether the caller gives a flag, which may be set already.
Called(kind, source, dest, flag) ==
  [NoTransfer EXCEPT !.kind = kind, !.source = source, !.dest = dest, !.flag = flag.given,
                     !.flagged = flag.given /\ flag.set]

Flags == [given : BOOLEAN, set : BOOLEAN]

NotOpened(call)     == [call EXCEPT !.stage = "threw", !.reason = "not opened"]
Begun(call, data, total) ==
  [call EXCEPT !.stage = "loop", !.opened = TRUE, !.data = data, !.total = total]

\* Opening truncates the file; any file may turn out not to be open to the program.
StartWrite(name, data, flag) ==
  LET call == Called("write", "", name, flag)
  IN  \/ UNCHANGED files /\ transfer' = NotOpened(call)
      \/ files' = [files EXCEPT ![name] = <<>>] /\ transfer' = Begun(call, data, Len(data))

\* The destination is opened first: it is empty also if the source is not there.
StartCopy(source, dest, flag) ==
  LET call == Called("copy", source, dest, flag)
      kept == [files EXCEPT ![dest] = <<>>]
  IN  \/ UNCHANGED files /\ transfer' = NotOpened(call)
      \/ files' = kept /\ transfer' = NotOpened(call)
      \/ /\ files' = kept /\ kept[source] # NoFile
         /\ transfer' = Begun(call, kept[source], PutIntoInt(Len(kept[source])))

StartRead(name, flag) ==
  LET call == Called("read", name, "", flag)
  IN  /\ UNCHANGED files
      /\ \/ transfer' = NotOpened(call)
         \/ files[name] # NoFile /\ transfer' = Begun(call, files[name], PutIntoInt(Len(files[name])))

\* How many bytes this_run is to move, and those that are read from s.
ThisRun     == Smaller(transfer.total - transfer.done, ChunkSize)
NextPiece(s, at) == SubSeq(s, at + 1, Smaller(at + ThisRun, Len(s)))

MayGoOn == transfer.stage = "loop" /\ ~transfer.flagged /\ transfer.done < transfer.total

\* QFile::write takes all of the bytes, or fewer when it fails.
WriteOut(name, piece, n) == files' = [files EXCEPT ![name] = @ \o FirstBytes(piece, n)]

\* What write returns is not looked at.
WriteChunk ==
  /\ MayGoOn /\ transfer.kind = "write"
  /\ LET piece == NextPiece(transfer.data, transfer.done)
     IN  \E n \in 0 .. ThisRun :
           /\ WriteOut(transfer.dest, piece, n)
           /\ transfer' = [transfer EXCEPT !.done = @ + ThisRun, !.short = @ \/ n < ThisRun]

\* A bug to detect: as the others, it counts what it asked for.
CopyChunkUncounted ==
  /\ MayGoOn /\ transfer.kind = "copy"
  /\ LET piece == NextPiece(files[transfer.source], transfer.done)
     IN  \E n \in 0 .. Len(piece) :
           /\ WriteOut(transfer.dest, piece, n)
           /\ transfer' = [transfer EXCEPT !.done = @ + ThisRun, !.short = @ \/ n < Len(piece)]

\* The bytes that could be read are counted; if there were too few it ends.
CopyChunk ==
  /\ MayGoOn /\ transfer.kind = "copy"
  /\ LET piece == NextPiece(files[transfer.source], transfer.done)
     IN  \E n \in 0 .. Len(piece) :
           /\ WriteOut(transfer.dest, piece, n)
           /\ transfer' = [transfer EXCEPT !.done = @ + Len(piece), !.short = @ \/ n < Len(piece),
                                           !.stage = IF Len(piece) = ThisRun THEN @ ELSE "check"]

\* The bytes are counted whether they could be read or not.
ReadChunk ==
  /\ MayGoOn /\ transfer.kind = "read"
  /\ UNCHANGED files
  /\ transfer' = [transfer EXCEPT !.got = @ \o NextPiece(files[transfer.source], Len(@)),
                                  !.done = @ + ThisRun]

LeaveLoop ==
  /\ transfer.stage = "loop" /\ ~MayGoOn
  /\ transfer' = [transfer EXCEPT !.stage = "check"] /\ UNCHANGED files

\* A flag that is set after the last chunk does not count; one that is set after a chunk was
\* short is given as the reason.
EndTransfer ==
  /\ transfer.stage = "check" /\ UNCHANGED files
  /\ transfer' = IF transfer.done = transfer.total THEN [transfer EXCEPT !.stage = "returned"]
                 ELSE [transfer EXCEPT !.stage = "threw",
                                       !.reason = IF transfer.flagged THEN "cancelled" ELSE "failed"]

\* Another thread sets the flag; another program changes or deletes a file, but not the one
\* that is written, and what is deleted while it is open can still be read.
RaiseFlag == Running /\ transfer.flag /\ transfer' = [transfer EXCEPT !.flagged = TRUE] /\ UNCHANGED files

ChangeFile(name, content) ==
  /\ name # transfer.dest /\ (content = NoFile /\ name = transfer.source => ~Running)
  /\ files' = [files EXCEPT ![name] = content]
  /\ transfer' = [transfer EXCEPT !.touched = @ \/ name = transfer.source]

\* Calls share nothing but the files, whatever is in them: a behaviour is one call.
TransferInit == files \in [FileNames -> FileContents \cup {NoFile}] /\ transfer = NoTransfer

TransferNext ==
  /\ UNCHANGED port
  /\ \/ /\ transfer.stage = "idle"
        /\ \E name \in FileNames, flag \in Flags :
             \/ \E data \in FileContents : StartWrite(name, data, flag)
             \/ \E dest \in FileNames : StartCopy(name, dest, flag)
             \/ StartRead(name, flag)
     \/ WriteChunk \/ CopyChunk \/ ReadChunk \/ LeaveLoop \/ EndTransfer \/ RaiseFlag
     \/ \E name \in FileNames, content \in FileContents \cup {NoFile} : ChangeFile(name, content)

---------------------------------------------------------------------------
(* SerialPort *)

\* m_handle is 0 for no handle, -1 after a failed open, or a file descriptor; open: the
\* descriptors that the kernel has open; line: what has come and was not read; up: whether
\* there is another end; call, asked, got, count: of ReadBytes and WriteBytes; tempchar.
\* History: replaced, whether a handle that was not closed has been overwritten; taken, what
\* was read from the line, or put on it, by the last call.
NewPort ==
  [handle |-> 0, open |-> {}, line |-> <<>>, up |-> TRUE, call |-> "none", asked |-> 0,
   tempchar |-> Junk, got |-> <<>>, count |-> 0, replaced |-> FALSE, taken |-> <<>>]

Descriptors == 3 .. 4       \* two of them (a bound)

IsOpen  == port.handle # 0
Resting == port.call = "none"

\* Initialize: the handle is overwritten, also by the -1 of an open that fails, and kept if
\* the options cannot be set; else what has come until then is thrown away.
Initialize ==
  /\ Resting
  /\ LET before == [port EXCEPT !.replaced = @ \/ port.handle \in port.open]
     IN  \/ port' = [before EXCEPT !.handle = -1]
         \/ \E fd \in Descriptors \ port.open :
              LET opened == [before EXCEPT !.handle = fd, !.open = @ \cup {fd}]
              IN  port' \in {opened, [opened EXCEPT !.line = <<>>]}

\* A bug to detect: the handle is forgotten, not closed.
CloseForgotten == Resting /\ IsOpen /\ port' = [port EXCEPT !.handle = 0]

\* Close, and the destructor.  Closing -1 does nothing.
ClosePort == Resting /\ IsOpen /\ port' = [port EXCEPT !.open = @ \ {port.handle}, !.handle = 0]

\* ReadBytes stops at the number of bytes, or at the length of the buffer.
StartBytes(call, asked, room) ==
  /\ Resting
  /\ port' = [port EXCEPT !.call = call, !.asked = Smaller(asked, room), !.got = <<>>, !.count = 0,
                          !.tempchar = Junk, !.taken = <<>>]

\* The results of read and write are added up as they are, -1 too; a byte that was not read
\* is the one before it.
Moved(result, byte) ==
  [port EXCEPT !.asked = @ - 1, !.count = (@ + result) % Word, !.tempchar = byte,
               !.got = IF port.call = "read" THEN Append(@, byte) ELSE @,
               !.taken = IF result = 1 THEN Append(@, byte) ELSE @,
               !.line = IF result = 1 /\ port.call = "read" /\ port.handle \in port.open THEN Tail(@) ELSE @]

\* A bug to detect: tempchar is a variable of the loop, without a value for every byte.
ReadByteFresh ==
  /\ port.call = "read" /\ port.asked > 0
  /\ \/ port.handle \in port.open /\ port.line # <<>> /\ port' = Moved(1, Head(port.line))
     \/ port.handle \in port.open /\ port.line = <<>> /\ ~port.up /\ port' = Moved(0, Junk)

\* read blocks until there is a byte; at the end of the line it returns 0 or -1.  Handle 0 is
\* the standard input.
ReadByte ==
  /\ port.call = "read" /\ port.asked > 0
  /\ \/ port.handle \in port.open /\ port.line # <<>> /\ port' = Moved(1, Head(port.line))
     \/ /\ port.handle \in port.open /\ port.line = <<>> /\ ~port.up
        /\ port' \in {Moved(0, port.tempchar), Moved(-1, port.tempchar)}
     \/ port.handle = -1 /\ port' = Moved(-1, port.tempchar)
     \/ port.handle = 0 /\ port' \in {Moved(0, port.tempchar)} \cup {Moved(1, b) : b \in LineBytes}

WriteByte ==
  /\ port.call = "write" /\ port.asked > 0
  /\ \E b \in LineBytes :
       \/ port.handle # -1 /\ port.up /\ port' = Moved(1, b)
       \/ (port.handle \notin port.open \/ ~port.up) /\ port' = Moved(-1, b)

EndBytes == ~Resting /\ port.asked = 0 /\ port' = [port EXCEPT !.call = "none"]

\* The other end sends, hangs up, or comes back.
Line == \/ \E b \in LineBytes : port.up /\ Len(port.line) < MaxLine /\ port' = [port EXCEPT !.line = Append(@, b)]
        \/ port' = [port EXCEPT !.up = ~@]

PortInit == port = NewPort

PortNext ==
  /\ UNCHANGED <<files, transfer>>
  /\ \/ Initialize \/ ClosePort \/ ReadByte \/ WriteByte \/ EndBytes \/ Line
     \/ \E asked, room \in 0 .. MaxLine : StartBytes("read", asked, room)
     \/ \E len \in 0 .. MaxLine : StartBytes("write", len, len)

---------------------------------------------------------------------------
(* Properties *)

\* If its writes succeed and nobody changes the source, a transfer has at every moment moved
\* the first bytes of the data and no others; one that returns has moved them all, whatever
\* the flag says by then, as long as their number fits into an int, and a file is not copied
\* onto itself, which empties it.  A copy notices a source that shrinks under it: what it
\* returns from has as many bytes as it set out to move.
TransfersAreWhole ==
  LET t     == transfer
      moved == IF t.kind = "read" THEN t.got ELSE files[t.dest]
  IN  t.opened =>
        /\ ~t.short /\ ~t.touched /\ t.stage # "idle" => moved = FirstBytes(t.data, Len(moved)) /\ Len(moved) = t.done
        /\ t.stage = "returned" /\ ~t.short => IF t.kind = "read" /\ t.touched THEN Len(moved) <= t.total
                                               ELSE Len(moved) = t.total
        /\ t.stage = "returned" /\ ~t.short /\ ~t.touched /\ Len(t.data) < IntLimit => moved = t.data

\* A transfer whose files could be opened is given up only if it was cancelled, its source
\* has become shorter, or there is more of it than an int can hold.
GivenUpForAReason ==
  LET t == transfer
  IN  t.opened /\ t.stage = "threw" =>
        \/ t.reason = "cancelled" /\ t.flagged
        \/ t.kind = "copy" /\ t.touched
        \/ t.kind # "write" /\ Len(t.data) >= IntLimit

\* Every byte of got is the next one of taken or, where none was read, the one before again
\* (Junk before the first); at[i]: how many of taken the first i bytes are.
Follows(got, taken) ==
  \E at \in [0 .. Len(got) -> 0 .. Len(taken)] :
    /\ at[0] = 0 /\ at[Len(got)] = Len(taken)
    /\ \A i \in 1 .. Len(got) : /\ at[i] - at[i - 1] \in {0, 1}
                               /\ got[i] = IF at[i] = 0 THEN Junk ELSE taken[at[i]]

\* A handle that is a descriptor is one that is open, never one that was closed or is
\* somebody else's; no other is left open, unless a port that was open was initialized again.
\* Through errors and the end of the line, ReadBytes gives out all bytes that it reads, in
\* order, and no others but the one before again.  Nothing is said of the counts, of which
\* the header promises something else than the code returns.
PortIsHonest ==
  /\ port.handle \in port.open \cup {0, -1}
  /\ ~port.replaced => port.open \subseteq {port.handle}
  /\ port.got # <<>> => Follows(port.got, port.taken)

TransfersAreRight == TransfersAreWhole /\ GivenUpForAReason /\ PortIsHonest
=============================================================================
