------------------------------- MODULE GpsFile -------------------------------
(***************************************************************************)
(* The portable safe files of src/cryptopp/gpsutils.cpp: GPSFile_Export    *)
(* writes an encrypted header when it is destroyed, before any number of   *)
(* payloads, each with a header of its own; GPSFile_Import reads them one  *)
(* after the other and, if it is to validate them, compares at the end the *)
(* hash of all it has read with the one of the file's header.              *)
(*                                                                         *)
(* Of Cryptor (cryptopp_cryptor.cpp) this states what it promises,         *)
(* encryption taken for granted: a crypttext is a sequence of cells, one   *)
(* for every unit of plaintext and a last one, the trailer, for the tag    *)
(* and the nonce; it decrypts with the key it was encrypted with, as a     *)
(* whole, and in no other way.  A cell <<nonce, at>> stands for the bytes  *)
(* at that place of what was encrypted under the nonce.  The key           *)
(* derivation is one to one.                                               *)
(*                                                                         *)
(* The file is a sequence of cells: the version and the salt, two for the  *)
(* header, and the messages.  A hash is the sequence of what was added.  A *)
(* write may fail, and leaves a proper prefix of its message; a payload    *)
(* file may change while it is exported; the callbacks may cancel.         *)
(***************************************************************************)
EXTENDS Integers, SequencesExt

CONSTANTS KeyfileContents,  \* what is in the keyfiles that exist: a function of their name
          Payloads,     \* sequences of units
          UserData,     \* the user data of a payload
          MaxPayloads,  \* how many appends there are, of two messages each (a bound)
          AllCredentials,
          Owner         \* those the file is written with

---------------------------------------------------------------------------
(* Cryptor *)

NoKeyfile == ""

\* m_key and m_authData.  The key is made of the password or of the keyfile, and the
\* authenticated data of the password.
DerivedKey(creds) ==
  [key  |-> IF creds.type = "PasswordType" THEN <<"password", creds.password>>
            ELSE IF creds.keyfile = NoKeyfile THEN <<"keyfile", "salt alone">>
            ELSE <<"keyfile", KeyfileContents[creds.keyfile]>>,
   auth |-> creds.password]

\* A keyfile that is not there cannot be opened.
CanDerive(creds) ==
  creds.type = "PasswordType" \/ creds.keyfile \in {NoKeyfile} \cup DOMAIN KeyfileContents

\* The key and the data are compared with those of the Cryptor.
CheckCredentials(derived, creds) == CanDerive(creds) /\ DerivedKey(creds) = derived

\* EncryptData: the crypttext of plain under the nonce.
Crypttext(nonce, plain) == [i \in 1..Len(plain) + 1 |-> <<nonce, i>>]

\* The chunks in which data of this length is passed, and how much of it has been by the end
\* of chunk k.  A chunk size of 0 means all at once.
ChunkOf(length, chunk)     == IF chunk = 0 THEN length ELSE chunk
Passes(length, chunk)      ==
  IF length = 0 THEN 0 ELSE (length + ChunkOf(length, chunk) - 1) \div ChunkOf(length, chunk)
PassedBy(k, length, chunk) == Min({k * ChunkOf(length, chunk), length})

\* DecryptData, of cells of what was encrypted under the same key: the plaintexts by their
\* nonces.
Opens(window, encrypted) ==
  /\ window # <<>>
  /\ LET nonce == Last(window)[1]
     IN  nonce \in DOMAIN encrypted /\ window = Crypttext(nonce, encrypted[nonce])

---------------------------------------------------------------------------
(* The file *)

ASSUME GpsAssumption ==
  /\ MaxPayloads \in Nat /\ CanDerive(Owner) /\ UserData # {}
  /\ \A data \in Payloads : data \in Seq({data[i] : i \in DOMAIN data})

VARIABLES
  gps,      \* the export: phase ("writing", "finished", "gone"), file, hash, encrypted (the
            \* plaintexts of the messages); history: attempts, the payloads whose header was
            \* written, and failed
  import    \* the import: phase ("none", "open", "gone"), creds, validates, pos, hash,
            \* finalHash, payloadRead, length; history: seen, the payloads it was given,
            \* ended, disturbed

gpsVars == <<gps, import>>

\* What is not encrypted: the version and the salt, and the placeholder.
Blank == <<0, 0>>

FirstMessage == 3    \* cells before the first message
HeaderCells  == 2    \* a header is one unit, and its trailer

OwnersKey == DerivedKey(Owner)

NewImport == [phase |-> "none", creds |-> Owner, validates |-> FALSE, pos |-> 0, hash |-> <<>>,
              finalHash |-> <<>>, payloadRead |-> TRUE, length |-> 0,
              seen |-> <<>>, ended |-> FALSE, disturbed |-> FALSE]

\* GPSFile_Export: the salt, and a placeholder for the header.
GpsInit ==
  /\ gps = [phase |-> "writing", file |-> <<Blank, Blank, Blank>>, hash |-> <<>>, encrypted |-> <<>>,
            attempts |-> <<>>, failed |-> FALSE]
  /\ import = NewImport

Header(length, user) == [length |-> length, user |-> user]

\* What an append writes: of the messages for the header and the payload, the first n cells;
\* hashed: what it adds to the hash.
Written(header, payload, n, hashed, attempt, failed) ==
  LET nonce == Len(gps.encrypted)
      cells == Crypttext(nonce + 1, <<header>>) \o Crypttext(nonce + 2, payload)
  IN  /\ gps.phase = "writing" /\ nonce < 2 * MaxPayloads
      /\ gps' = [gps EXCEPT
           !.file = @ \o SubSeq(cells, 1, n), !.hash = @ \o hashed,
           !.encrypted = @ \o <<<<header>>, payload>>,
           !.attempts = IF n < HeaderCells THEN @ ELSE Append(@, attempt),
           !.failed = @ \/ failed]
      /\ UNCHANGED import

\* AppendPayload, _write_payload_header: each of the two is added to the hash, then written.
AppendPayload(data, user) ==
  LET header == Header(Len(data), user)
      all    == HeaderCells + Len(data) + 1
  IN  \E n \in 0..all :
        Written(header, data, n, IF n < HeaderCells THEN <<header>> ELSE <<header>> \o data,
                [user |-> user, data |-> data], n < all)

\* AppendPayloadFile reads the file twice, to hash and to encrypt it; k1 and k2: after how
\* many chunks of the two it is cancelled, if it is.  The last cell is not written then.
AppendPayloadFile(data, again, user, chunk, k1, k2) ==
  LET header   == Header(Len(data), user)
      attempt  == [user |-> user, data |-> again]
      Exported(n, hashed, failed) ==
        Written(header, again, HeaderCells + n, <<header>> \o hashed, attempt, failed)
  IN  \/ /\ k1 \in 1..Passes(Len(data), chunk)
         /\ Exported(0, SubSeq(data, 1, PassedBy(k1, Len(data), chunk)), TRUE)
      \/ /\ k1 = 0 /\ k2 \in 1..Passes(Len(again), chunk)
         /\ Exported(PassedBy(k2, Len(again), chunk), data, TRUE)
      \/ /\ k1 = 0 /\ k2 = 0
         /\ Exported(Len(again) + 1, data, again # data)

\* ~GPSFile_Export: the user data's size and the hash are written over the placeholder.  If
\* that fails, or the process ends before, the file has no header.
Finish ==
  /\ gps.phase = "writing"
  /\ \E n \in 0..HeaderCells :
       LET plain == <<[hash |-> gps.hash]>>
           cells == Crypttext(Len(gps.encrypted) + 1, plain)
       IN  gps' = [gps EXCEPT
             !.phase = IF n = HeaderCells THEN "finished" ELSE "gone",
             !.encrypted = Append(@, plain),
             !.file = <<Blank>> \o SubSeq(cells, 1, n) \o SubSeq(@, n + 2, Len(@))]
  /\ UNCHANGED import

---------------------------------------------------------------------------
(* The import *)

Window(pos, n) == SubSeq(gps.file, pos + 1, pos + n)

\* What DecryptData does with the next n cells: it throws unless they are a message.
Decrypts(pos, n) == pos + n <= Len(gps.file) /\ Opens(Window(pos, n), gps.encrypted)

PlainAt(pos) == gps.encrypted[gps.file[pos + 1][1]]

\* Of the two messages of an append the second is its payload.
IsPayload(pos) == gps.file[pos + 1][1] % 2 = 0

Throws == import' = [import EXCEPT !.phase = "gone"]

\* GPSFile_Import, once the file is written.
Import(creds, validates) ==
  LET opens == CheckCredentials(OwnersKey, creds) /\ Decrypts(1, HeaderCells)
  IN  /\ gps.phase # "writing" /\ import.phase = "none" /\ UNCHANGED gps
      /\ import' =
           IF ~opens THEN [NewImport EXCEPT !.phase = "gone", !.creds = creds]
           ELSE [NewImport EXCEPT
                  !.phase = "open", !.creds = creds, !.validates = validates,
                  !.pos = FirstMessage,
                  !.finalHash = IF validates THEN PlainAt(1)[1].hash ELSE <<>>]

\* HashOutput.
Hashed(i, data) == IF i.validates THEN i.hash \o data ELSE i.hash

\* The payload was got by the caller.
SeenWith(i, data) == [i.seen EXCEPT ![Len(i.seen)] = [@ EXCEPT !.data = data, !.got = TRUE]]

\* GetCurrentPayload, for a caller who wants the data or to hash it only.
PayloadGotten(i, wanted) ==
  LET data == PlainAt(i.pos)
  IN  [i EXCEPT
        !.pos = @ + i.length + 1, !.payloadRead = TRUE,
        !.hash = Hashed(i, data),
        !.seen = IF wanted THEN SeenWith(i, data) ELSE @]

MayGet(i) == Decrypts(i.pos, i.length + 1)

GetCurrentPayload ==
  /\ import.phase = "open" /\ ~import.payloadRead /\ UNCHANGED gps
  /\ IF MayGet(import) THEN import' = PayloadGotten(import, TRUE) ELSE Throws

\* Without a destination, and without a hash, the payload is passed over.
PassCurrentPayload ==
  /\ import.phase = "open" /\ ~import.payloadRead /\ UNCHANGED gps
  /\ IF import.validates
     THEN IF MayGet(import) THEN import' = PayloadGotten(import, FALSE) ELSE Throws
     ELSE import' = [import EXCEPT !.pos = @ + import.length + 1, !.payloadRead = TRUE]

\* Cancelled after k chunks, it leaves the position among them, and what it has hashed.
CancelGet(chunk, k) ==
  /\ import.phase = "open" /\ ~import.payloadRead /\ UNCHANGED gps
  /\ k \in 1..Passes(import.length, chunk)
  /\ MayGet(import)
  /\ LET n == PassedBy(k, import.length, chunk)
     IN  import' = [import EXCEPT
           !.pos = @ + n, !.disturbed = TRUE,
           !.hash = Hashed(import, SubSeq(PlainAt(import.pos), 1, n))]

\* A bug to detect: a payload that was not read is always passed over.
SkippedBlindly(i) == [i EXCEPT !.pos = @ + i.length + 1, !.payloadRead = TRUE]

\* The payload that was not read is read if it is to be validated, and skipped otherwise.
Skipped(i) ==
  IF i.validates THEN PayloadGotten(i, FALSE)
  ELSE [i EXCEPT !.pos = @ + i.length + 1, !.payloadRead = TRUE]

\* The next header, at the position of i; or the end, where the final hash restarts the hash.
\* What decrypts without being a header, the payload of an append, would be taken for one: the
\* model ends there.
Advanced(i) ==
  IF i.pos <= Len(gps.file) /\ Len(gps.file) - i.pos < HeaderCells
  THEN IF i.validates /\ i.hash # i.finalHash THEN [i EXCEPT !.phase = "gone"]
       ELSE [i EXCEPT !.hash = <<>>, !.ended = TRUE]
  ELSE IF ~Decrypts(i.pos, HeaderCells) THEN [i EXCEPT !.phase = "gone"]
  ELSE LET header == PlainAt(i.pos)[1]
       IN  IF IsPayload(i.pos) THEN [i EXCEPT !.phase = "confused"]
           ELSE [i EXCEPT
                  !.pos = @ + HeaderCells, !.payloadRead = FALSE, !.length = header.length,
                  !.hash = Hashed(i, <<header>>),
                  !.seen = Append(@, [user |-> header.user, length |-> header.length,
                                      got |-> FALSE, data |-> <<>>])]

NextPayload ==
  /\ import.phase = "open" /\ UNCHANGED gps
  /\ IF import.payloadRead THEN import' = Advanced(import)
     ELSE IF import.validates /\ ~MayGet(import) THEN Throws
     ELSE import' = Advanced(Skipped(import))

GpsNext ==
  \/ \E data \in Payloads, user \in UserData : AppendPayload(data, user)
  \/ \E data, again \in Payloads, chunk \in 0..1, k1, k2 \in 0..2 :
       AppendPayloadFile(data, again, CHOOSE u \in UserData : TRUE, chunk, k1, k2)
  \/ Finish
  \/ \E creds \in AllCredentials, validates \in BOOLEAN : Import(creds, validates)
  \/ GetCurrentPayload \/ PassCurrentPayload \/ NextPayload
  \/ \E chunk \in 0..1, k \in 1..2 : CancelGet(chunk, k)

---------------------------------------------------------------------------

Untroubled == ~gps.failed /\ ~import.disturbed

\* The payloads that were seen are the first that were appended, with their user data.
SeenAreAppended ==
  /\ Len(import.seen) <= Len(gps.attempts)
  /\ \A i \in 1..Len(import.seen) :
       LET s == import.seen[i]
           a == gps.attempts[i]
       IN  s.user = a.user /\ (s.got => s.data = a.data)

SawAll == SeenAreAppended /\ Len(import.seen) = Len(gps.attempts)

\* A file opens only once it is finished, and to its owner.
OwnersOpen == import.phase = "open" => /\ gps.phase = "finished"
                                       /\ CheckCredentials(OwnersKey, import.creds)

\* When a validating import says that there are no more payloads, then no append had failed,
\* or exported a file that was changing, and every payload was seen as it was appended.
ValidIsWhole == import.ended /\ import.validates => Untroubled /\ SawAll

\* If nothing failed and nothing was cancelled, every import sees the payloads in their
\* order, and all of them, and never throws before the end, whether it reads or skips each.
WholeIsImported ==
  Untroubled => /\ SeenAreAppended
                /\ import.ended => SawAll
                /\ import.phase # "confused"
                /\ import.phase = "gone" => \/ import.ended
                                            \/ gps.phase # "finished"
                                            \/ ~CheckCredentials(OwnersKey, import.creds)

\* What is imported is what was exported, whatever fails.
GpsFilesAreTrue == OwnersOpen /\ ValidIsWhole /\ WholeIsImported
=============================================================================
