---------------------------- MODULE FileProofs ------------------------------
(***************************************************************************)
(* Safe files, of any payloads: what is imported is what was exported.  As *)
(* long as nothing fails, the invariant GpsInv says how the file falls     *)
(* into messages and the hash into their units, and where an import stands *)
(* in both.  What fails may leave any part of a message, and more or less  *)
(* of it in the hash: of such a file SafeInv says how much an import that  *)
(* validates can have hashed at most, which is all only if nothing failed. *)
(*                                                                         *)
(* Files in chunks, and the serial port: what was moved is what was to be  *)
(* moved, and what is given out is what was read, whatever interferes.     *)
(***************************************************************************)
EXTENDS GpsFile, Transfers, SequenceTheorems, TLAPS

GpsSpec == GpsInit /\ [][GpsNext]_gpsVars

---------------------------------------------------------------------------
(* Safe files: the invariant *)

Units      == UNION {{data[i] : i \in DOMAIN data} : data \in Payloads}
Hashable   == Units \cup [length : Nat, user : UserData]
Cells      == Nat \X Nat
Plaintexts == Seq(Hashable \cup [hash : Seq(Hashable)])
Attempts   == [user : UserData, data : Payloads]

ExportTypeOK ==
  /\ DOMAIN gps = {"phase", "file", "hash", "encrypted", "attempts", "failed"}
  /\ gps.phase \in {"writing", "finished", "gone"} /\ gps.failed \in BOOLEAN
  /\ gps.file \in Seq(Cells) /\ gps.hash \in Seq(Hashable)
  /\ gps.encrypted \in Seq(Plaintexts) /\ gps.attempts \in Seq(Attempts)

FileIsBegun ==
  /\ Len(gps.file) >= FirstMessage
  /\ gps.phase # "finished" => gps.file[FirstMessage] = Blank

\* The messages of the appends.
Messages == 2 * Len(gps.attempts)

\* Message n is behind position p.
MessageAt(p, n) ==
  /\ p + Len(gps.encrypted[n]) + 1 <= Len(gps.file)
  /\ \A k \in 1 .. Len(gps.encrypted[n]) + 1 : gps.file[p + k] = <<n, k>>

\* The same, or the end of the file.
Starts(p, n) == IF n = Messages + 1 THEN p = Len(gps.file) ELSE MessageAt(p, n)

MessagesAreAttempts ==
  /\ Len(gps.encrypted) = Messages + (IF gps.phase = "writing" THEN 0 ELSE 1)
  /\ \A j \in 1 .. Len(gps.attempts) :
       /\ gps.encrypted[2 * j - 1] = <<Header(Len(gps.attempts[j].data), gps.attempts[j].user)>>
       /\ gps.encrypted[2 * j] = gps.attempts[j].data

MessagesFollow ==
  /\ \A p \in FirstMessage + 1 .. Len(gps.file) : gps.file[p][1] \in 1 .. Messages
  /\ Starts(FirstMessage, 1)
  /\ \A n \in 1 .. Messages, p \in FirstMessage .. Len(gps.file) :
       MessageAt(p, n) => Starts(p + Len(gps.encrypted[n]) + 1, n + 1)

\* A unit is hashed at its place in the file, less the trailers before it.
AllIsHashed ==
  /\ Len(gps.hash) = Len(gps.file) - FirstMessage - Messages
  /\ \A n \in 1 .. Messages, p \in FirstMessage .. Len(gps.file) :
       MessageAt(p, n) =>
         /\ 0 <= p - n - 2 /\ p - n - 2 + Len(gps.encrypted[n]) <= Len(gps.hash)
         /\ \A k \in 1 .. Len(gps.encrypted[n]) : gps.hash[p - n - 2 + k] = gps.encrypted[n][k]

FileIsHeaded ==
  gps.phase = "finished" => /\ MessageAt(1, Messages + 1)
                            /\ gps.encrypted[Messages + 1] = <<[hash |-> gps.hash]>>

\* Unless something has failed, the file is one message after the other.
LaidOut == MessagesAreAttempts /\ MessagesFollow /\ AllIsHashed /\ FileIsHeaded

ExportInv == ExportTypeOK /\ FileIsBegun /\ (~gps.failed => LaidOut)

---------------------------------------------------------------------------
(* The export *)

\* The elements of a sequence put together from two.
LEMMA BothParts ==
  ASSUME NEW S, NEW s \in Seq(S), NEW t \in Seq(S)
  PROVE  /\ s \o t \in Seq(S) /\ Len(s \o t) = Len(s) + Len(t)
         /\ \A i \in 1 .. Len(s) : (s \o t)[i] = s[i]
         /\ \A k \in 1 .. Len(t) : (s \o t)[Len(s) + k] = t[k]
<1>1. Len(s) \in Nat /\ Len(t) \in Nat
  BY LenProperties
<1>2. ASSUME NEW k \in 1 .. Len(t) PROVE (s \o t)[Len(s) + k] = t[k]
  BY <1>1, ConcatProperties
<1>3. ASSUME NEW i \in 1 .. Len(s) PROVE (s \o t)[i] = s[i]
  BY <1>1, ConcatProperties
<1> QED
  BY <1>2, <1>3, ConcatProperties

\* The cells of a message.
LEMMA CrypttextCells ==
  ASSUME NEW nonce \in Nat, NEW plain \in Plaintexts
  PROVE  /\ Crypttext(nonce, plain) \in Seq(Cells)
         /\ Len(plain) \in Nat /\ Len(Crypttext(nonce, plain)) = Len(plain) + 1
         /\ \A k \in 1 .. Len(plain) + 1 : Crypttext(nonce, plain)[k] = <<nonce, k>>
<1>1. Len(plain) \in Nat
  BY LenProperties DEF Plaintexts
<1>2. Crypttext(nonce, plain) = [k \in 1 .. Len(plain) + 1 |-> <<nonce, k>>]
  BY DEF Crypttext
<1>3. Len(plain) + 1 \in Nat
  BY <1>1
<1>4. [k \in 1 .. Len(plain) + 1 |-> <<nonce, k>>] \in [1 .. Len(plain) + 1 -> Cells]
  BY <1>1 DEF Cells
<1> QED
  BY <1>1, <1>2, <1>3, <1>4

\* What is passed to the Cryptor and to the hash.
LEMMA PayloadsArePlain ==
  ASSUME NEW data \in Payloads
  PROVE  data \in Seq(Hashable) /\ data \in Plaintexts /\ Len(data) \in Nat
<1>1. data \in Seq({data[i] : i \in DOMAIN data})
  BY GpsAssumption
<1>2. {data[i] : i \in DOMAIN data} \subseteq Units
  BY DEF Units
<1>3. {data[i] : i \in DOMAIN data} \subseteq Hashable
  BY <1>2 DEF Hashable
<1>4. data \in Seq(Hashable)
  BY <1>1, <1>3, SeqMonotonic
<1>5. Hashable \subseteq Hashable \cup [hash : Seq(Hashable)]
  OBVIOUS
<1>6. data \in Plaintexts
  BY <1>4, <1>5, SeqMonotonic DEF Plaintexts
<1> QED
  BY <1>4, <1>6, LenProperties

\* Nor is a header anything else.
LEMMA HeadersArePlain ==
  ASSUME NEW length \in Nat, NEW user \in UserData
  PROVE  /\ <<Header(length, user)>> \in Seq(Hashable) /\ <<Header(length, user)>> \in Plaintexts
         /\ Len(<<Header(length, user)>>) = 1
<1>1. Header(length, user) \in Hashable
  BY DEF Header, Hashable
<1> QED
  BY <1>1 DEF Plaintexts

\* What an append does, with the first n of its cells and some of its units hashed, to the export.
Appended(header, payload, n, hashed, attempt, failed) ==
  LET cells == Crypttext(Len(gps.encrypted) + 1, <<header>>) \o Crypttext(Len(gps.encrypted) + 2, payload)
  IN  gps' = [gps EXCEPT
           !.file = @ \o SubSeq(cells, 1, n), !.hash = @ \o hashed,
           !.encrypted = @ \o <<<<header>>, payload>>,
           !.attempts = IF n < HeaderCells THEN @ ELSE Append(@, attempt),
           !.failed = @ \/ failed]

\* The file grows by n cells, the first two of a message, the others of the next.
LEMMA AppendIsTyped ==
  ASSUME ExportTypeOK, FileIsBegun, gps.phase = "writing",
         NEW user \in UserData, NEW data \in Payloads, NEW length \in Nat,
         NEW n \in 0 .. HeaderCells + Len(data) + 1,
         NEW hashed \in Seq(Hashable), NEW attempt \in Attempts, NEW failed \in BOOLEAN,
         Appended(Header(length, user), data, n, hashed, attempt, failed)
  PROVE  /\ ExportTypeOK' /\ FileIsBegun'
         /\ gps'.phase = "writing" /\ (gps'.failed <=> gps.failed \/ failed)
         /\ gps'.encrypted = gps.encrypted \o <<<<Header(length, user)>>, data>>
         /\ Len(gps'.file) = Len(gps.file) + n
         /\ \A p \in 1 .. Len(gps.file) : gps'.file[p] = gps.file[p]
         /\ \A k \in 1 .. n : gps'.file[Len(gps.file) + k] =
              IF k <= 2 THEN <<Len(gps.encrypted) + 1, k>> ELSE <<Len(gps.encrypted) + 2, k - 2>>
<1> DEFINE header == Header(length, user)
           N      == Len(gps.encrypted)
           c1     == Crypttext(N + 1, <<header>>)
           c2     == Crypttext(N + 2, data)
           cells  == c1 \o c2
           some   == SubSeq(cells, 1, n)
<1>1. N \in Nat /\ Len(gps.file) \in Nat /\ Len(data) \in Nat /\ n \in Nat
  BY LenProperties, PayloadsArePlain DEF ExportTypeOK, HeaderCells
<1>2. /\ c1 \in Seq(Cells) /\ Len(c1) = 2 /\ \A k \in 1 .. 2 : c1[k] = <<N + 1, k>>
  <2>1. N + 1 \in Nat /\ <<header>> \in Plaintexts /\ Len(<<header>>) = 1
    BY <1>1, HeadersArePlain
  <2> HIDE DEF N, header
  <2>2. /\ c1 \in Seq(Cells) /\ Len(c1) = 1 + 1
        /\ \A k \in 1 .. 1 + 1 : c1[k] = <<N + 1, k>>
    BY <2>1, CrypttextCells
  <2> HIDE DEF c1
  <2> QED
    BY <2>2
<1>3. /\ c2 \in Seq(Cells) /\ Len(c2) = Len(data) + 1
      /\ \A k \in 1 .. Len(data) + 1 : c2[k] = <<N + 2, k>>
  <2>1. N + 2 \in Nat /\ data \in Plaintexts
    BY <1>1, PayloadsArePlain
  <2> HIDE DEF N
  <2> QED
    BY <2>1, CrypttextCells
<1>4. /\ cells \in Seq(Cells) /\ Len(cells) = Len(data) + 3
      /\ \A k \in 1 .. Len(data) + 3 : cells[k] = IF k <= 2 THEN <<N + 1, k>> ELSE <<N + 2, k - 2>>
  <2> HIDE DEF c1, c2
  <2>1. /\ cells \in Seq(Cells) /\ Len(cells) = Len(c1) + Len(c2)
        /\ \A k \in 1 .. Len(c1) + Len(c2) : cells[k] = IF k <= Len(c1) THEN c1[k] ELSE c2[k - Len(c1)]
    BY <1>2, <1>3, ConcatProperties
  <2> HIDE DEF cells, N
  <2>2. ASSUME NEW k \in 1 .. Len(data) + 3
        PROVE  cells[k] = IF k <= 2 THEN <<N + 1, k>> ELSE <<N + 2, k - 2>>
    <3>1. cells[k] = IF k <= 2 THEN c1[k] ELSE c2[k - 2]
      BY <1>1, <1>2, <1>3, <2>1
    <3>2. (k <= 2 => k \in 1 .. 2) /\ (~(k <= 2) => k - 2 \in 1 .. Len(data) + 1)
      BY <1>1
    <3> QED
      BY <1>2, <1>3, <3>1, <3>2
  <2> QED
    BY <1>1, <1>2, <1>3, <2>1, <2>2
<1>5. /\ some \in Seq(Cells) /\ Len(some) = n
      /\ \A k \in 1 .. n : some[k] = IF k <= 2 THEN <<N + 1, k>> ELSE <<N + 2, k - 2>>
  <2> HIDE DEF cells
  <2>1. \A k \in 1 .. n : k \in 1 .. Len(data) + 3 /\ cells[k] \in Cells
    BY <1>1, <1>4, ElementOfSeq DEF HeaderCells
  <2>2. /\ some \in Seq(Cells) /\ Len(some) = IF 1 <= n THEN n - 1 + 1 ELSE 0
        /\ \A k \in 1 .. n - 1 + 1 : some[k] = cells[1 + k - 1]
    BY <1>1, <2>1, SubSeqProperties
  <2> HIDE DEF some
  <2>3. Len(some) = n
    BY <1>1, <2>2
  <2>4. ASSUME NEW k \in 1 .. n PROVE some[k] = cells[k]
    <3>1. k \in 1 .. n - 1 + 1 /\ 1 + k - 1 = k
      BY <1>1
    <3> QED
      BY <2>2, <3>1
  <2>5. \A k \in 1 .. n : some[k] = IF k <= 2 THEN <<N + 1, k>> ELSE <<N + 2, k - 2>>
    BY <1>4, <2>1, <2>4
  <2> QED
    BY <2>2, <2>3, <2>5
<1> HIDE DEF some, N
<1>6. /\ DOMAIN gps' = DOMAIN gps /\ gps'.phase = "writing"
      /\ gps'.file = gps.file \o some /\ gps'.hash = gps.hash \o hashed
      /\ gps'.encrypted = gps.encrypted \o <<<<header>>, data>>
      /\ gps'.attempts = (IF n < HeaderCells THEN gps.attempts ELSE Append(gps.attempts, attempt))
      /\ gps'.failed = (gps.failed \/ failed)
  BY DEF ExportTypeOK, Appended, some, N
<1>7. /\ gps'.file \in Seq(Cells) /\ Len(gps'.file) = Len(gps.file) + n
      /\ \A p \in 1 .. Len(gps.file) : gps'.file[p] = gps.file[p]
      /\ \A k \in 1 .. n : gps'.file[Len(gps.file) + k] = some[k]
  <2>1. gps.file \in Seq(Cells)
    BY DEF ExportTypeOK
  <2>2. /\ gps.file \o some \in Seq(Cells) /\ Len(gps.file \o some) = Len(gps.file) + Len(some)
        /\ \A p \in 1 .. Len(gps.file) : (gps.file \o some)[p] = gps.file[p]
        /\ \A k \in 1 .. Len(some) : (gps.file \o some)[Len(gps.file) + k] = some[k]
    <3>1. some \in Seq(Cells)
      BY <1>5
    <3>2. gps.file \o some \in Seq(Cells)
      BY <3>1, <2>1, BothParts
    <3>3. Len(gps.file \o some) = Len(gps.file) + Len(some)
      BY <3>1, <2>1, BothParts
    <3>4. \A p \in 1 .. Len(gps.file) : (gps.file \o some)[p] = gps.file[p]
      BY <3>1, <2>1, BothParts
    <3>5. \A k \in 1 .. Len(some) : (gps.file \o some)[Len(gps.file) + k] = some[k]
      BY <3>1, <2>1, BothParts
    <3> QED
      BY <3>2, <3>3, <3>4, <3>5
  <2> QED
    BY <1>5, <1>6, <2>2
<1>8. gps'.hash \in Seq(Hashable)
  BY <1>6, ConcatProperties DEF ExportTypeOK
<1>9. gps'.encrypted \in Seq(Plaintexts)
  <2>1. <<<<header>>, data>> \in Seq(Plaintexts)
    BY HeadersArePlain, PayloadsArePlain
  <2> QED
    BY <1>6, <2>1, ConcatProperties DEF ExportTypeOK
<1>10. gps'.attempts \in Seq(Attempts)
  BY <1>6, AppendProperties DEF ExportTypeOK
<1>11. gps'.failed \in BOOLEAN /\ (gps'.failed <=> gps.failed \/ failed)
  BY <1>6, Zenon DEF ExportTypeOK
<1>12. ExportTypeOK'
  BY <1>6, <1>7, <1>8, <1>9, <1>10, <1>11 DEF ExportTypeOK
<1>13. FileIsBegun'
  BY <1>1, <1>6, <1>7 DEF FileIsBegun, FirstMessage
<1> QED
  BY <1>5, <1>6, <1>7, <1>11, <1>12, <1>13 DEF N

\* Nothing has failed: one more message for the header, one for the payload.
LEMMA AppendIsLaidOut ==
  ASSUME ExportInv, gps.phase = "writing", ~gps.failed,
         NEW user \in UserData, NEW data \in Payloads,
         Appended(Header(Len(data), user), data, HeaderCells + Len(data) + 1,
                  <<Header(Len(data), user)>> \o data, [user |-> user, data |-> data], FALSE)
  PROVE  LaidOut'
<1> DEFINE header == Header(Len(data), user)
           D      == Len(data)
           hashed == <<header>> \o data
           E(n)   == Len(gps.encrypted[n])
<1>1. PICK L, M : L = Len(gps.file) /\ M = Messages
  OBVIOUS
<1>2. LaidOut /\ ExportTypeOK /\ FileIsBegun
  BY DEF ExportInv
<1>3. /\ L \in Nat /\ L >= 3 /\ D \in Nat /\ M \in Nat /\ Len(gps.attempts) \in Nat
      /\ M = 2 * Len(gps.attempts) /\ Len(gps.hash) \in Nat /\ Len(gps.encrypted) = M
      /\ Len(gps.hash) = L - 3 - M
      /\ \A n \in 1 .. M : E(n) \in Nat
  <2>1. L \in Nat /\ D \in Nat /\ Len(gps.attempts) \in Nat /\ Len(gps.hash) \in Nat /\ L >= 3
    BY <1>1, <1>2, LenProperties, PayloadsArePlain DEF ExportTypeOK, FileIsBegun, FirstMessage
  <2>2. Len(gps.encrypted) = M /\ Len(gps.hash) = L - 3 - M
    BY <1>1, <1>2, <2>1 DEF LaidOut, MessagesAreAttempts, AllIsHashed, FirstMessage, Messages
  <2>3. ASSUME NEW n \in 1 .. M PROVE E(n) \in Nat
    <3>1. gps.encrypted[n] \in Plaintexts
      BY <1>2, <2>2, ElementOfSeq DEF ExportTypeOK
    <3> QED
      BY <3>1, LenProperties DEF Plaintexts
  <2> QED
    BY <1>1, <2>1, <2>2, <2>3 DEF Messages
<1>4. /\ hashed \in Seq(Hashable) /\ Len(hashed) = D + 1 /\ hashed[1] = header
      /\ \A k \in 1 .. D : hashed[k + 1] = data[k]
  <2>1. <<header>> \in Seq(Hashable) /\ Len(<<header>>) = 1 /\ <<header>>[1] = header /\ data \in Seq(Hashable)
    BY <1>3, HeadersArePlain, PayloadsArePlain
  <2> HIDE DEF header
  <2>2. /\ hashed \in Seq(Hashable) /\ Len(hashed) = 1 + D
        /\ \A i \in 1 .. 1 + D : hashed[i] = IF i <= 1 THEN <<header>>[i] ELSE data[i - 1]
    BY <2>1, ConcatProperties
  <2> HIDE DEF hashed, D
  <2>3. ASSUME NEW k \in 1 .. D PROVE hashed[k + 1] = data[k]
    <3>1. PICK i \in 1 .. 1 + D : i = k + 1 /\ ~(i <= 1) /\ i - 1 = k
      BY <1>3
    <3> QED
      BY <2>2, <3>1
  <2>4. hashed \in Seq(Hashable) /\ Len(hashed) = 1 + D /\ 1 \in 1 .. 1 + D
    BY <1>3, <2>2
  <2>5. hashed[1] = header
    BY <2>1, <2>2, <2>4
  <2> QED
    BY <1>3, <2>3, <2>4, <2>5
<1>5. [user |-> user, data |-> data] \in Attempts
  BY DEF Attempts
<1>6. /\ ExportTypeOK' /\ gps'.phase = "writing" /\ gps'.hash = gps.hash \o hashed
      /\ gps'.encrypted = gps.encrypted \o <<<<header>>, data>>
      /\ Len(gps'.file) = L + (D + 3)
      /\ \A p \in 1 .. L : gps'.file[p] = gps.file[p]
      /\ \A k \in 1 .. D + 3 : gps'.file[L + k] = IF k <= 2 THEN <<M + 1, k>> ELSE <<M + 2, k - 2>>
      /\ gps'.attempts = Append(gps.attempts, [user |-> user, data |-> data])
  <2>1. /\ HeaderCells + Len(data) + 1 = D + 3 /\ D + 3 \in 0 .. HeaderCells + Len(data) + 1
        /\ ~(D + 3 < HeaderCells)
    BY <1>3 DEF HeaderCells
  <2> DEFINE attempt == [user |-> user, data |-> data]
             cells   == D + 3
  <2>2. Appended(header, data, cells, hashed, attempt, FALSE) /\ attempt \in Attempts
    BY <1>5, <2>1
  <2>3. hashed \in Seq(Hashable) /\ Len(data) \in Nat /\ cells \in 0 .. HeaderCells + Len(data) + 1
    BY <1>3, <1>4, <2>1
  <2> HIDE DEF hashed, D, attempt, cells
  <2>4. ExportTypeOK' /\ gps'.phase = "writing"
    BY <1>2, <2>2, <2>3, AppendIsTyped
  <2>5. gps'.hash = gps.hash \o hashed
    BY <1>2, <2>2 DEF Appended, ExportTypeOK
  <2>6. gps'.encrypted = gps.encrypted \o <<<<header>>, data>> /\ Len(gps'.file) = Len(gps.file) + cells
    BY <1>2, <2>2, <2>3, AppendIsTyped
  <2>7. \A p \in 1 .. Len(gps.file) : gps'.file[p] = gps.file[p]
    BY <1>2, <2>2, <2>3, AppendIsTyped
  <2>8. \A k \in 1 .. cells : gps'.file[Len(gps.file) + k] =
             IF k <= 2 THEN <<Len(gps.encrypted) + 1, k>> ELSE <<Len(gps.encrypted) + 2, k - 2>>
    BY <1>2, <2>2, <2>3, AppendIsTyped
  <2>9. ~(cells < HeaderCells) => gps'.attempts = Append(gps.attempts, attempt)
    BY <1>2, <2>2 DEF Appended, ExportTypeOK
  <2> QED
    BY <1>1, <1>3, <2>1, <2>4, <2>6, <2>7, <2>8, <2>9, <2>5 DEF HeaderCells, attempt, cells
<1>7. /\ Len(gps'.encrypted) = M + 2 /\ \A n \in 1 .. M : gps'.encrypted[n] = gps.encrypted[n]
      /\ gps'.encrypted[M + 1] = <<header>> /\ gps'.encrypted[M + 2] = data
  <2> DEFINE two == <<<<header>>, data>>
  <2>1. two \in Seq(Plaintexts) /\ Len(two) = 2 /\ two[1] = <<header>> /\ two[2] = data
    BY <1>3, HeadersArePlain, PayloadsArePlain
  <2>2. gps.encrypted \in Seq(Plaintexts) /\ gps'.encrypted = gps.encrypted \o two
    BY <1>2, <1>6 DEF ExportTypeOK
  <2> HIDE DEF two, header
  <2>3. two \in Seq(Plaintexts) /\ gps.encrypted \in Seq(Plaintexts)
    BY <2>1, <2>2
  <2>4. Len(gps.encrypted \o two) = Len(gps.encrypted) + Len(two)
    BY <2>3, BothParts
  <2>5. \A n \in 1 .. Len(gps.encrypted) : (gps.encrypted \o two)[n] = gps.encrypted[n]
    BY <2>3, BothParts
  <2>6. \A k \in 1 .. Len(two) : (gps.encrypted \o two)[Len(gps.encrypted) + k] = two[k]
    BY <2>3, BothParts
  <2>7. 1 \in 1 .. Len(two) /\ 2 \in 1 .. Len(two)
    BY <2>1
  <2> QED
    BY <1>3, <2>1, <2>2, <2>4, <2>5, <2>6, <2>7
<1>8. /\ Len(gps'.attempts) = Len(gps.attempts) + 1
      /\ \A j \in 1 .. Len(gps.attempts) : gps'.attempts[j] = gps.attempts[j]
      /\ gps'.attempts[Len(gps.attempts) + 1] = [user |-> user, data |-> data]
  <2>1. gps.attempts \in Seq(Attempts)
    BY <1>2 DEF ExportTypeOK
  <2> QED
    BY <1>5, <1>6, <2>1, AppendProperties
<1>9. /\ Len(gps'.hash) = Len(gps.hash) + D + 1
      /\ \A i \in 1 .. Len(gps.hash) : gps'.hash[i] = gps.hash[i]
      /\ \A k \in 1 .. D + 1 : gps'.hash[Len(gps.hash) + k] = hashed[k]
  <2>1. /\ gps.hash \in Seq(Hashable) /\ gps'.hash = gps.hash \o hashed
        /\ hashed \in Seq(Hashable) /\ Len(hashed) = D + 1
    BY <1>2, <1>4, <1>6 DEF ExportTypeOK
  <2>2. Len(gps.hash) \in Nat /\ D \in Nat
    BY <1>3
  <2> HIDE DEF hashed, D
  <2>3. Len(gps.hash \o hashed) = Len(gps.hash) + Len(hashed)
    BY <2>1, BothParts
  <2>4. \A i \in 1 .. Len(gps.hash) : (gps.hash \o hashed)[i] = gps.hash[i]
    BY <2>1, BothParts
  <2>5. \A k \in 1 .. Len(hashed) : (gps.hash \o hashed)[Len(gps.hash) + k] = hashed[k]
    BY <2>1, BothParts
  <2>6. Len(gps'.hash) = Len(gps.hash) + D + 1
    <3>1. PICK H \in Nat : H = Len(gps.hash)
      BY <2>2
    <3>2. Len(gps'.hash) = H + (D + 1)
      BY <2>1, <2>3, <3>1
    <3>3. H + (D + 1) = H + D + 1
      BY <2>2
    <3> QED
      BY <3>1, <3>2, <3>3, Zenon
  <2>7. \A i \in 1 .. Len(gps.hash) : gps'.hash[i] = gps.hash[i]
    BY <2>1, <2>4
  <2>8. \A k \in 1 .. D + 1 : gps'.hash[Len(gps.hash) + k] = hashed[k]
    BY <2>1, <2>5
  <2> QED
    BY <2>6, <2>7, <2>8
<1>10. Messages' = M + 2
  BY <1>1, <1>3, <1>8 DEF Messages
<1>11. L \in Nat /\ L >= 3 /\ D \in Nat /\ M \in Nat
  BY <1>3
<1>12. \A p \in 1 .. L : gps'.file[p] = gps.file[p]
  BY <1>6
<1>13. \A k \in 1 .. D + 3 : gps'.file[L + k] = IF k <= 2 THEN <<M + 1, k>> ELSE <<M + 2, k - 2>>
  BY <1>6
<1>14. Len(gps'.file) = L + (D + 3)
  BY <1>6
<1>15. \A n \in 1 .. M : gps'.encrypted[n] = gps.encrypted[n] /\ E(n) \in Nat
  BY <1>3, <1>7
<1> HIDE DEF D, hashed
<1>16. MessagesAreAttempts'
  <2>1. Len(gps'.encrypted) = Messages' + (IF gps'.phase = "writing" THEN 0 ELSE 1)
    BY <1>3, <1>6, <1>7, <1>10
  <2>2. ASSUME NEW j \in 1 .. Len(gps'.attempts)
        PROVE  /\ gps'.encrypted[2 * j - 1] = <<Header(Len(gps'.attempts[j].data), gps'.attempts[j].user)>>
               /\ gps'.encrypted[2 * j] = gps'.attempts[j].data
    <3>1. CASE j \in 1 .. Len(gps.attempts)
      <4>1. 2 * j - 1 \in 1 .. M /\ 2 * j \in 1 .. M
        BY <1>3, <3>1
      <4>2. /\ gps.encrypted[2 * j - 1] = <<Header(Len(gps.attempts[j].data), gps.attempts[j].user)>>
            /\ gps.encrypted[2 * j] = gps.attempts[j].data
        BY <1>2, <3>1 DEF LaidOut, MessagesAreAttempts
      <4> QED
        BY <1>7, <1>8, <3>1, <4>1, <4>2
    <3>2. CASE j = Len(gps.attempts) + 1
      <4>1. 2 * j - 1 = M + 1 /\ 2 * j = M + 2
        BY <1>3, <3>2
      <4>2. gps'.attempts[j] = [user |-> user, data |-> data]
        BY <1>8, <3>2
      <4> QED
        BY <1>7, <4>1, <4>2
    <3>3. j \in 1 .. Len(gps.attempts) \/ j = Len(gps.attempts) + 1
      <4>1. PICK A \in Nat : A = Len(gps.attempts)
        BY <1>3
      <4>2. j \in 1 .. A + 1
        BY <1>8, <4>1
      <4> QED
        BY <4>1, <4>2
    <3> QED
      BY <3>1, <3>2, <3>3
  <2> QED
    BY <2>1, <2>2 DEF MessagesAreAttempts
<1>17. \A p \in FirstMessage + 1 .. L : gps.file[p][1] \in 1 .. M
  BY <1>1, <1>2 DEF LaidOut, MessagesFollow
<1>18. ASSUME NEW n \in 1 .. M, NEW p \in FirstMessage .. L + (D + 3), MessageAt(p, n)'
       PROVE  p + E(n) + 1 <= L /\ MessageAt(p, n)
  <2>1. /\ E(n) \in Nat /\ p + E(n) + 1 <= L + (D + 3) /\ p \in Nat
        /\ \A k \in 1 .. E(n) + 1 : gps'.file[p + k] = <<n, k>>
    <3>1. E(n) \in Nat /\ gps'.encrypted[n] = gps.encrypted[n] /\ p \in Nat
      BY <1>11, <1>15 DEF FirstMessage
    <3>2. p + Len(gps'.encrypted[n]) + 1 <= Len(gps'.file)
      BY <1>18 DEF MessageAt
    <3>3. \A k \in 1 .. Len(gps'.encrypted[n]) + 1 : gps'.file[p + k] = <<n, k>>
      BY <1>18 DEF MessageAt
    <3> QED
      BY <1>14, <3>1, <3>2, <3>3
  <2>2. p + E(n) + 1 <= L
    <3> SUFFICES ASSUME ~(p + E(n) + 1 <= L) PROVE FALSE
      OBVIOUS
    <3>1. PICK e \in Nat : e = p + E(n) + 1 /\ e <= L + (D + 3) /\ ~(e <= L)
      <4>1. E(n) \in Nat /\ p \in Nat
        BY <2>1
      <4>2. p + E(n) + 1 \in Nat
        BY <4>1
      <4>3. p + E(n) + 1 <= L + (D + 3)
        BY <2>1
      <4> QED
        BY <4>2, <4>3
    <3>2. PICK k \in 1 .. D + 3 : e = L + k
      <4>1. e - L \in 1 .. D + 3 /\ e = L + (e - L)
        BY <1>11, <3>1
      <4> QED
        BY <4>1
    <3>3. gps'.file[L + k][1] \in {M + 1, M + 2}
      <4>1. gps'.file[L + k] = IF k <= 2 THEN <<M + 1, k>> ELSE <<M + 2, k - 2>>
        BY <1>13
      <4> QED
        BY <4>1
    <3>4. gps'.file[p + (E(n) + 1)] = <<n, E(n) + 1>>
      <4>1. PICK z \in 1 .. E(n) + 1 : z = E(n) + 1
        BY <2>1
      <4> QED
        BY <2>1, <4>1
    <3>5. p + (E(n) + 1) = L + k
      <4>1. p + (E(n) + 1) = e
        BY <2>1, <3>1
      <4> QED
        BY <3>2, <4>1
    <3> QED
      <4>1. gps'.file[L + k] = <<n, E(n) + 1>>
        BY <3>4, <3>5
      <4>2. n \in {M + 1, M + 2}
        BY <3>3, <4>1
      <4> QED
        BY <1>11, <4>2
  <2>3. ASSUME NEW k \in 1 .. E(n) + 1 PROVE gps.file[p + k] = <<n, k>>
    <3>1. p + k \in 1 .. L
      BY <1>11, <2>1, <2>2
    <3> QED
      BY <1>12, <2>1, <3>1
  <2> QED
    BY <1>1, <2>2, <2>3 DEF MessageAt
<1>19. ASSUME NEW n \in 1 .. M, NEW p \in FirstMessage .. L, MessageAt(p, n)
       PROVE  MessageAt(p, n)'
  <2>1. E(n) \in Nat /\ p + E(n) + 1 <= L /\ \A k \in 1 .. E(n) + 1 : gps.file[p + k] = <<n, k>>
    BY <1>1, <1>3, <1>19 DEF MessageAt
  <2>2. ASSUME NEW k \in 1 .. E(n) + 1 PROVE gps'.file[p + k] = <<n, k>>
    <3>1. p + k \in 1 .. L
      BY <1>11, <2>1 DEF FirstMessage
    <3> QED
      BY <1>12, <2>1, <3>1
  <2>3. Len(gps'.encrypted[n]) = E(n) /\ p \in Nat
    BY <1>11, <1>15 DEF FirstMessage
  <2>4. p + Len(gps'.encrypted[n]) + 1 <= Len(gps'.file)
    BY <1>11, <1>14, <2>1, <2>3
  <2> QED
    BY <2>2, <2>3, <2>4 DEF MessageAt
<1>20. MessageAt(L, M + 1)' /\ MessageAt(L + 2, M + 2)'
  <2>1. ASSUME NEW k \in 1 .. 2 PROVE gps'.file[L + k] = <<M + 1, k>>
    <3>1. PICK i \in 1 .. D + 3 : i = k /\ i <= 2
      BY <1>11
    <3> QED
      BY <1>13, <3>1
  <2>2. ASSUME NEW k \in 1 .. D + 1 PROVE gps'.file[L + 2 + k] = <<M + 2, k>>
    <3>1. k + 2 \in 1 .. D + 3 /\ ~(k + 2 <= 2) /\ k + 2 - 2 = k /\ L + (k + 2) = L + 2 + k
      BY <1>11
    <3>2. PICK i \in 1 .. D + 3 : i = k + 2
      BY <3>1
    <3>3. gps'.file[L + i] = <<M + 2, i - 2>>
      BY <1>13, <3>1, <3>2
    <3> QED
      BY <3>1, <3>2, <3>3
  <2>3. Len(gps'.encrypted[M + 1]) = 1 /\ Len(gps'.encrypted[M + 2]) = D
    BY <1>7 DEF D
  <2>4. MessageAt(L, M + 1)'
    <3>1. L + Len(gps'.encrypted[M + 1]) + 1 <= Len(gps'.file)
      BY <1>11, <1>14, <2>3
    <3>2. \A k \in 1 .. Len(gps'.encrypted[M + 1]) + 1 : gps'.file[L + k] = <<M + 1, k>>
      BY <2>1, <2>3
    <3> QED
      BY <3>1, <3>2 DEF MessageAt
  <2>5. MessageAt(L + 2, M + 2)'
    <3>1. L + 2 + Len(gps'.encrypted[M + 2]) + 1 <= Len(gps'.file)
      BY <1>11, <1>14, <2>3
    <3>2. \A k \in 1 .. Len(gps'.encrypted[M + 2]) + 1 : gps'.file[L + 2 + k] = <<M + 2, k>>
      BY <2>2, <2>3
    <3> QED
      BY <3>1, <3>2 DEF MessageAt
  <2> QED
    BY <2>4, <2>5
<1>21. Len(gps'.encrypted[M + 1]) = 1 /\ Len(gps'.encrypted[M + 2]) = D
  BY <1>7 DEF D
<1>22. ASSUME NEW n \in {M + 1, M + 2}, NEW p \in FirstMessage .. L + (D + 3), MessageAt(p, n)'
       PROVE  p = IF n = M + 1 THEN L ELSE L + 2
  <2>1. p \in Nat /\ p >= 3 /\ n \in Nat
    BY <1>11 DEF FirstMessage
  <2>2. gps'.file[p + 1] = <<n, 1>> /\ p + 1 <= Len(gps'.file)
    <3>1. Len(gps'.encrypted[n]) \in Nat
      BY <1>11, <1>21
    <3>2. PICK k \in 1 .. Len(gps'.encrypted[n]) + 1 : k = 1
      BY <3>1
    <3>3. gps'.file[p + k] = <<n, k>>
      BY <1>22 DEF MessageAt
    <3>4. p + Len(gps'.encrypted[n]) + 1 <= Len(gps'.file)
      BY <1>22 DEF MessageAt
    <3> QED
      BY <1>11, <1>14, <2>1, <3>1, <3>2, <3>3, <3>4
  <2>3. ~(p + 1 <= L)
    <3> SUFFICES ASSUME p + 1 <= L PROVE FALSE
      OBVIOUS
    <3>1. p + 1 \in FirstMessage + 1 .. L /\ p + 1 \in 1 .. L
      BY <1>11, <2>1 DEF FirstMessage
    <3>2. gps.file[p + 1][1] \in 1 .. M /\ gps.file[p + 1] = <<n, 1>>
      BY <1>17, <1>12, <2>2, <3>1
    <3>3. n \in 1 .. M
      BY <3>2
    <3> QED
      BY <1>11, <3>3
  <2>4. PICK k \in 1 .. D + 3 : p + 1 = L + k
    <3>1. p + 1 - L \in 1 .. D + 3 /\ p + 1 = L + (p + 1 - L)
      BY <1>11, <1>14, <2>1, <2>2, <2>3
    <3> QED
      BY <3>1
  <2>5. (IF k <= 2 THEN <<M + 1, k>> ELSE <<M + 2, k - 2>>) = <<n, 1>>
    BY <1>13, <2>2, <2>4
  <2>6. CASE k <= 2
    <3>1. M + 1 = n /\ k = 1
      BY <2>5, <2>6
    <3> QED
      BY <1>11, <2>1, <2>4, <3>1
  <2>7. CASE ~(k <= 2)
    <3>1. M + 2 = n /\ k - 2 = 1
      BY <2>5, <2>7
    <3> QED
      BY <1>11, <2>1, <2>4, <3>1
  <2> QED
    BY <2>6, <2>7
<1>23. MessagesFollow'
  <2>1. ASSUME NEW p \in FirstMessage + 1 .. Len(gps'.file) PROVE gps'.file[p][1] \in 1 .. Messages'
    <3>1. p \in Nat /\ p >= 4 /\ p <= L + (D + 3)
      BY <1>11, <1>14 DEF FirstMessage
    <3>2. CASE p <= L
      <4>1. p \in FirstMessage + 1 .. L /\ p \in 1 .. L
        BY <1>11, <3>1, <3>2 DEF FirstMessage
      <4>2. gps'.file[p][1] \in 1 .. M
        BY <1>17, <1>12, <4>1
      <4> QED
        BY <1>10, <1>11, <4>2
    <3>3. CASE ~(p <= L)
      <4>1. PICK k \in 1 .. D + 3 : p = L + k
        <5>1. p - L \in 1 .. D + 3 /\ p = L + (p - L)
          BY <1>11, <3>1, <3>3
        <5> QED
          BY <5>1
      <4>2. gps'.file[p] = IF k <= 2 THEN <<M + 1, k>> ELSE <<M + 2, k - 2>>
        BY <1>13, <4>1
      <4>3. gps'.file[p][1] \in {M + 1, M + 2}
        BY <4>2
      <4> QED
        BY <1>10, <1>11, <4>3
    <3> QED
      BY <3>2, <3>3
  <2>2. Starts(FirstMessage, 1)'
    <3>1. Starts(FirstMessage, 1)
      BY <1>2 DEF LaidOut, MessagesFollow
    <3>2. CASE M = 0
      <4>1. L = FirstMessage
        BY <1>1, <3>1, <3>2 DEF Starts
      <4>2. MessageAt(L, 1)'
        BY <1>20, <3>2
      <4>3. MessageAt(FirstMessage, 1)'
        BY <4>1, <4>2 DEF FirstMessage
      <4> QED
        BY <1>10, <3>2, <4>3 DEF Starts
    <3>3. CASE M # 0
      <4>1. 1 # M + 1 /\ 1 \in 1 .. M /\ FirstMessage \in FirstMessage .. L /\ 1 # M + 2 + 1
        BY <1>11, <3>3 DEF FirstMessage
      <4>2. MessageAt(FirstMessage, 1)
        BY <1>1, <3>1, <4>1 DEF Starts
      <4>3. MessageAt(FirstMessage, 1)'
        BY <1>19, <4>1, <4>2
      <4> QED
        BY <1>10, <4>1, <4>3 DEF Starts
    <3> QED
      BY <3>2, <3>3
  <2>3. ASSUME NEW n \in 1 .. Messages', NEW p \in FirstMessage .. Len(gps'.file), MessageAt(p, n)'
        PROVE  Starts(p + Len(gps.encrypted[n]) + 1, n + 1)'
    <3>1. n \in 1 .. M + 2 /\ p \in FirstMessage .. L + (D + 3) /\ p \in Nat /\ p >= 3 /\ n \in Nat
      BY <1>10, <1>11, <1>14 DEF FirstMessage
    <3>2. CASE n \in 1 .. M
      <4>1. p + E(n) + 1 <= L /\ MessageAt(p, n)
        BY <1>18, <2>3, <3>1, <3>2
      <4>2. E(n) \in Nat /\ gps'.encrypted[n] = gps.encrypted[n]
        BY <1>15, <3>2
      <4>3. PICK q \in FirstMessage .. L : q = p + E(n) + 1
        BY <1>11, <3>1, <4>1, <4>2 DEF FirstMessage
      <4>4. p \in FirstMessage .. L
        BY <1>11, <3>1, <4>1, <4>2 DEF FirstMessage
      <4>5. Starts(q, n + 1)
        BY <1>1, <1>2, <3>2, <4>1, <4>3, <4>4 DEF LaidOut, MessagesFollow
      <4>6. MessageAt(q, n + 1)'
        <5>1. CASE n = M
          <6>1. q = L
            BY <1>1, <4>5, <5>1 DEF Starts
          <6> QED
            BY <1>20, <5>1, <6>1
        <5>2. CASE n # M
          <6>1. n + 1 # M + 1 /\ n + 1 \in 1 .. M
            BY <1>11, <3>1, <3>2, <5>2
          <6>2. MessageAt(q, n + 1)
            BY <1>1, <4>5, <6>1 DEF Starts
          <6> QED
            BY <1>19, <6>1, <6>2
        <5> QED
          BY <5>1, <5>2
      <4>7. n + 1 # M + 2 + 1
        BY <1>11, <3>1, <3>2
      <4> QED
        BY <1>10, <4>2, <4>3, <4>6, <4>7 DEF Starts
    <3>3. CASE n = M + 1
      <4>1. p = L
        BY <1>22, <2>3, <3>1, <3>3
      <4>2. Len(gps'.encrypted[n]) = 1
        BY <1>21, <3>3
      <4>3. p + Len(gps'.encrypted[n]) + 1 = L + 2 /\ n + 1 = M + 2 /\ n + 1 # M + 2 + 1
        BY <1>11, <3>3, <4>1, <4>2
      <4> QED
        BY <1>10, <1>20, <4>3 DEF Starts
    <3>4. CASE n = M + 2
      <4>1. p = L + 2
        <5>1. n # M + 1
          BY <1>11, <3>4
        <5> QED
          BY <1>22, <2>3, <3>1, <3>4, <5>1
      <4>2. Len(gps'.encrypted[n]) = D
        BY <1>21, <3>4
      <4>3. p + Len(gps'.encrypted[n]) + 1 = L + (D + 3) /\ n + 1 = M + 2 + 1
        BY <1>11, <3>4, <4>1, <4>2
      <4> QED
        BY <1>10, <1>14, <4>3 DEF Starts
    <3> QED
      BY <1>11, <3>1, <3>2, <3>3, <3>4
  <2> QED
    BY <2>1, <2>2, <2>3 DEF MessagesFollow
<1>24. AllIsHashed'
  <2>1. PICK H \in Nat : H = Len(gps.hash)
    BY <1>3
  <2>2. /\ H = L - 3 - M /\ Len(gps'.hash) = H + D + 1
        /\ \A i \in 1 .. H : gps'.hash[i] = gps.hash[i]
        /\ \A k \in 1 .. D + 1 : gps'.hash[H + k] = hashed[k]
    BY <1>3, <1>9, <2>1
  <2>3. Len(gps'.hash) = Len(gps'.file) - FirstMessage - Messages'
    BY <1>10, <1>11, <1>14, <2>2 DEF FirstMessage
  <2>4. ASSUME NEW n \in 1 .. Messages', NEW p \in FirstMessage .. Len(gps'.file), MessageAt(p, n)'
        PROVE  /\ 0 <= p - n - 2 /\ p - n - 2 + Len(gps'.encrypted[n]) <= Len(gps'.hash)
               /\ \A k \in 1 .. Len(gps'.encrypted[n]) : gps'.hash[p - n - 2 + k] = gps'.encrypted[n][k]
    <3>1. n \in 1 .. M + 2 /\ p \in FirstMessage .. L + (D + 3) /\ p \in Nat /\ p >= 3 /\ n \in Nat
      BY <1>10, <1>11, <1>14 DEF FirstMessage
    <3>2. CASE n \in 1 .. M
      <4>1. p + E(n) + 1 <= L /\ MessageAt(p, n)
        BY <1>18, <2>4, <3>1, <3>2
      <4>2. E(n) \in Nat /\ gps'.encrypted[n] = gps.encrypted[n]
        BY <1>15, <3>2
      <4>3. p \in FirstMessage .. L
        BY <1>11, <3>1, <4>1, <4>2 DEF FirstMessage
      <4>4. /\ 0 <= p - n - 2 /\ p - n - 2 + E(n) <= H
            /\ \A k \in 1 .. E(n) : gps.hash[p - n - 2 + k] = gps.encrypted[n][k]
        BY <1>1, <1>2, <2>1, <3>2, <4>1, <4>3 DEF LaidOut, AllIsHashed
      <4>5. ASSUME NEW k \in 1 .. E(n) PROVE gps'.hash[p - n - 2 + k] = gps'.encrypted[n][k]
        <5>1. PICK i \in 1 .. H : i = p - n - 2 + k
          <6>1. PICK b \in Nat, e \in Nat : b = p - n - 2 /\ e = E(n) /\ b + e <= H
            <7>1. p - n - 2 \in Nat
              BY <3>1, <4>4
            <7> QED
              BY <4>2, <4>4, <7>1
          <6>2. b + k \in 1 .. H
            BY <2>1, <6>1
          <6> QED
            BY <6>1, <6>2
        <5> QED
          BY <2>2, <4>2, <4>4, <5>1
      <4> QED
        BY <1>11, <2>1, <2>2, <3>1, <4>2, <4>4, <4>5
    <3>3. CASE n = M + 1
      <4>1. p = L
        BY <1>22, <2>4, <3>1, <3>3
      <4>2. p - n - 2 = H
        BY <1>11, <2>1, <2>2, <3>3, <4>1
      <4>3. gps'.hash[H + 1] = gps'.encrypted[n][1]
        <5>1. PICK k \in 1 .. D + 1 : k = 1
          BY <1>11
        <5>2. gps'.hash[H + k] = header /\ gps'.encrypted[n] = <<header>>
          BY <1>4, <1>7, <2>2, <3>3, <5>1
        <5> QED
          BY <5>1, <5>2
      <4> QED
        <5>1. Len(gps'.encrypted[n]) = 1
          BY <1>21, <3>3
        <5>2. 0 <= p - n - 2 /\ p - n - 2 + 1 <= Len(gps'.hash)
          BY <1>11, <2>1, <2>2, <4>2
        <5>3. ASSUME NEW k \in 1 .. 1 PROVE gps'.hash[p - n - 2 + k] = gps'.encrypted[n][k]
          <6>1. k = 1
            OBVIOUS
          <6> QED
            BY <4>2, <4>3, <6>1
        <5> QED
          BY <5>1, <5>2, <5>3
    <3>4. CASE n = M + 2
      <4>1. p = L + 2
        <5>1. n # M + 1
          BY <1>11, <3>4
        <5> QED
          BY <1>22, <2>4, <3>1, <3>4, <5>1
      <4>2. p - n - 2 = H + 1
        BY <1>11, <2>1, <2>2, <3>4, <4>1
      <4>3. ASSUME NEW k \in 1 .. D PROVE gps'.hash[H + 1 + k] = gps'.encrypted[n][k]
        <5>1. PICK i \in 1 .. D + 1 : i = k + 1 /\ H + i = H + 1 + k
          BY <1>11, <2>1
        <5>2. hashed[i] = data[k] /\ gps'.encrypted[n] = data
          BY <1>4, <1>7, <3>4, <5>1
        <5> QED
          BY <2>2, <5>1, <5>2
      <4> QED
        BY <1>11, <1>21, <2>1, <2>2, <3>4, <4>2, <4>3
    <3> QED
      BY <1>11, <3>1, <3>2, <3>3, <3>4
  <2> QED
    BY <2>3, <2>4 DEF AllIsHashed
<1>25. FileIsHeaded'
  BY <1>6 DEF FileIsHeaded
<1> QED
  BY <1>16, <1>23, <1>24, <1>25 DEF LaidOut

\* The header over the placeholder, of which n cells are written.
FinishedBy(n) ==
  LET L == Len(gps.file)
      N == Len(gps.encrypted)
  IN  /\ DOMAIN gps' = DOMAIN gps /\ gps'.phase = (IF n = HeaderCells THEN "finished" ELSE "gone")
      /\ gps'.hash = gps.hash /\ gps'.attempts = gps.attempts /\ gps'.failed = gps.failed
      /\ gps'.encrypted \in Seq(Plaintexts) /\ Len(gps'.encrypted) = N + 1
      /\ \A m \in 1 .. N : gps'.encrypted[m] = gps.encrypted[m]
      /\ gps'.encrypted[N + 1] = <<[hash |-> gps.hash]>>
      /\ gps'.file \in Seq(Cells) /\ Len(gps'.file) = L
      /\ \A p \in 4 .. L : gps'.file[p] = gps.file[p]
      /\ n # 2 => gps'.file[3] = gps.file[3]
      /\ n = 2 => gps'.file[2] = <<N + 1, 1>> /\ gps'.file[3] = <<N + 1, 2>>

\* That is what the destructor does.
LEMMA FinishWrites ==
  ASSUME ExportTypeOK, FileIsBegun, Finish
  PROVE  \E n \in 0 .. HeaderCells : FinishedBy(n)
<1>1. PICK L, N : L = Len(gps.file) /\ N = Len(gps.encrypted)
  OBVIOUS
<1>2. ExportTypeOK /\ FileIsBegun /\ gps.phase = "writing"
  BY DEF Finish
<1>3. L \in Nat /\ L >= 3 /\ N \in Nat
  BY <1>1, <1>2, LenProperties DEF ExportTypeOK, FileIsBegun, FirstMessage
<1> DEFINE plain == <<[hash |-> gps.hash]>>
           cells == Crypttext(N + 1, plain)
<1>4. plain \in Plaintexts /\ Len(plain) = 1
  <2>1. [hash |-> gps.hash] \in [hash : Seq(Hashable)]
    BY <1>2 DEF ExportTypeOK
  <2> QED
    BY <2>1 DEF Plaintexts
<1>5. cells \in Seq(Cells) /\ Len(cells) = 2 /\ cells[1] = <<N + 1, 1>> /\ cells[2] = <<N + 1, 2>>
  <2>1. N + 1 \in Nat
    BY <1>3
  <2> HIDE DEF plain
  <2>2. /\ cells \in Seq(Cells) /\ Len(cells) = Len(plain) + 1
        /\ \A k \in 1 .. Len(plain) + 1 : cells[k] = <<N + 1, k>>
    BY <1>4, <2>1, CrypttextCells
  <2> HIDE DEF cells
  <2> QED
    BY <1>4, <2>2
<1>6. PICK n \in 0 .. HeaderCells :
        gps' = [gps EXCEPT
             !.phase = IF n = HeaderCells THEN "finished" ELSE "gone",
             !.encrypted = Append(@, plain),
             !.file = <<Blank>> \o SubSeq(cells, 1, n) \o SubSeq(@, n + 2, Len(@))]
  BY <1>1 DEF Finish
<1> HIDE DEF plain, cells
<1>7. /\ DOMAIN gps' = DOMAIN gps /\ gps'.phase = (IF n = HeaderCells THEN "finished" ELSE "gone")
      /\ gps'.encrypted = Append(gps.encrypted, plain)
      /\ gps'.file = <<Blank>> \o SubSeq(cells, 1, n) \o SubSeq(gps.file, n + 2, L)
      /\ gps'.hash = gps.hash /\ gps'.attempts = gps.attempts /\ gps'.failed = gps.failed
  BY <1>1, <1>2, <1>6 DEF ExportTypeOK
<1>8. /\ gps'.encrypted \in Seq(Plaintexts) /\ Len(gps'.encrypted) = N + 1
      /\ \A m \in 1 .. N : gps'.encrypted[m] = gps.encrypted[m]
      /\ gps'.encrypted[N + 1] = plain
  BY <1>1, <1>2, <1>4, <1>7, AppendProperties DEF ExportTypeOK
<1>9. /\ gps'.file \in Seq(Cells) /\ Len(gps'.file) = L
      /\ \A p \in 1 .. L : gps'.file[p] = IF p = 1 THEN Blank ELSE IF p <= n + 1 THEN cells[p - 1] ELSE gps.file[p]
  <2>1. n \in Nat /\ n <= 2
    BY DEF HeaderCells
  <2>2. gps.file \in Seq(Cells) /\ Blank \in Cells
    BY <1>2 DEF ExportTypeOK, Blank, Cells
  <2> DEFINE b == <<Blank>>
             f == SubSeq(cells, 1, n)
             t == SubSeq(gps.file, n + 2, L)
  <2>3. b \in Seq(Cells) /\ Len(b) = 1 /\ b[1] = Blank
    BY <2>2
  <2>4. f \in Seq(Cells) /\ Len(f) = n /\ \A k \in 1 .. n : f[k] = cells[k]
    <3>1. \A k \in 1 .. n : k \in 1 .. 2 /\ cells[k] \in Cells
      BY <1>5, <2>1, ElementOfSeq
    <3>2. /\ f \in Seq(Cells) /\ Len(f) = IF 1 <= n THEN n - 1 + 1 ELSE 0
          /\ \A k \in 1 .. n - 1 + 1 : f[k] = cells[1 + k - 1]
      BY <2>1, <3>1, SubSeqProperties
    <3> HIDE DEF f
    <3>3. Len(f) = n
      BY <2>1, <3>2
    <3>4. ASSUME NEW k \in 1 .. n PROVE f[k] = cells[k]
      <4>1. k \in 1 .. n - 1 + 1 /\ 1 + k - 1 = k
        BY <2>1
      <4> QED
        BY <3>2, <4>1
    <3> QED
      BY <3>2, <3>3, <3>4
  <2>5. t \in Seq(Cells) /\ Len(t) = L - n - 1 /\ \A k \in 1 .. L - n - 1 : t[k] = gps.file[n + 1 + k]
    <3>1. \A k \in n + 2 .. L : gps.file[k] \in Cells
      BY <1>1, <1>3, <2>1, <2>2, ElementOfSeq
    <3>2. n + 2 \in Int /\ L \in Int
      BY <1>3, <2>1
    <3>3. /\ t \in Seq(Cells) /\ Len(t) = IF n + 2 <= L THEN L - (n + 2) + 1 ELSE 0
          /\ \A k \in 1 .. L - (n + 2) + 1 : t[k] = gps.file[n + 2 + k - 1]
      BY <3>1, <3>2, SubSeqProperties
    <3> HIDE DEF t
    <3>4. Len(t) = L - n - 1
      BY <1>3, <2>1, <3>3
    <3>5. ASSUME NEW k \in 1 .. L - n - 1 PROVE t[k] = gps.file[n + 1 + k]
      <4>1. k \in 1 .. L - (n + 2) + 1 /\ n + 2 + k - 1 = n + 1 + k
        BY <1>3, <2>1
      <4> QED
        BY <3>3, <4>1
    <3> QED
      BY <3>3, <3>4, <3>5
  <2> HIDE DEF b, f, t
  <2>6. gps'.file = b \o f \o t
    BY <1>7 DEF b, f, t
  <2>7. /\ b \o f \in Seq(Cells) /\ Len(b \o f) = Len(b) + Len(f)
        /\ \A k \in 1 .. Len(b) + Len(f) : (b \o f)[k] = IF k <= Len(b) THEN b[k] ELSE f[k - Len(b)]
    BY <2>3, <2>4, ConcatProperties
  <2> DEFINE bf == b \o f
  <2> HIDE DEF bf
  <2>8. bf \in Seq(Cells) /\ Len(bf) = n + 1 /\ \A k \in 1 .. n + 1 : bf[k] = IF k = 1 THEN Blank ELSE cells[k - 1]
    <3>1. bf \in Seq(Cells) /\ Len(bf) = n + 1
      BY <2>1, <2>3, <2>4, <2>7 DEF bf
    <3>2. ASSUME NEW k \in 1 .. n + 1 PROVE bf[k] = IF k = 1 THEN Blank ELSE cells[k - 1]
      <4>1. bf[k] = IF k <= 1 THEN b[k] ELSE f[k - 1]
        BY <2>1, <2>3, <2>4, <2>7 DEF bf
      <4>2. (k <= 1 => k = 1) /\ (~(k <= 1) => k # 1 /\ k - 1 \in 1 .. n)
        BY <2>1
      <4> QED
        BY <2>3, <2>4, <4>1, <4>2
    <3> QED
      BY <3>1, <3>2
  <2>9. /\ bf \o t \in Seq(Cells) /\ Len(bf \o t) = Len(bf) + Len(t)
        /\ \A p \in 1 .. Len(bf) + Len(t) : (bf \o t)[p] = IF p <= Len(bf) THEN bf[p] ELSE t[p - Len(bf)]
    BY <2>5, <2>8, ConcatProperties
  <2>10. gps'.file = bf \o t
    BY <2>6 DEF bf
  <2>11. Len(bf) + Len(t) = L
    BY <1>3, <2>1, <2>5, <2>8
  <2>12. ASSUME NEW p \in 1 .. L
         PROVE  gps'.file[p] = IF p = 1 THEN Blank ELSE IF p <= n + 1 THEN cells[p - 1] ELSE gps.file[p]
    <3>1. gps'.file[p] = IF p <= n + 1 THEN bf[p] ELSE t[p - (n + 1)]
      BY <2>8, <2>9, <2>10, <2>11
    <3>2. CASE p <= n + 1
      <4>1. p \in 1 .. n + 1
        BY <1>3, <2>1, <3>2
      <4> QED
        BY <2>8, <3>1, <3>2, <4>1
    <3>3. CASE ~(p <= n + 1)
      <4>1. p - (n + 1) \in 1 .. L - n - 1 /\ n + 1 + (p - (n + 1)) = p /\ p # 1
        BY <1>3, <2>1, <3>3
      <4> QED
        BY <2>5, <3>1, <3>3, <4>1
    <3> QED
      BY <3>2, <3>3
  <2> QED
    BY <2>9, <2>10, <2>11, <2>12
<1>10. /\ \A p \in 4 .. L : gps'.file[p] = gps.file[p]
       /\ n # 2 => gps'.file[3] = gps.file[3]
       /\ n = 2 => gps'.file[2] = <<N + 1, 1>> /\ gps'.file[3] = <<N + 1, 2>>
  <2>1. n \in Nat /\ n <= 2
    BY DEF HeaderCells
  <2>2. ASSUME NEW p \in 4 .. L PROVE gps'.file[p] = gps.file[p]
    <3>1. p \in 1 .. L /\ p # 1 /\ ~(p <= n + 1)
      BY <1>3, <2>1
    <3> QED
      BY <1>9, <3>1
  <2>3. 3 \in 1 .. L /\ 2 \in 1 .. L
    BY <1>3
  <2>4. gps'.file[3] = IF 3 <= n + 1 THEN cells[3 - 1] ELSE gps.file[3]
    BY <1>9, <2>3
  <2>5. gps'.file[2] = IF 2 <= n + 1 THEN cells[2 - 1] ELSE gps.file[2]
    BY <1>9, <2>3
  <2>6. n # 2 => gps'.file[3] = gps.file[3]
    BY <2>1, <2>4
  <2>7. n = 2 => gps'.file[2] = <<N + 1, 1>> /\ gps'.file[3] = <<N + 1, 2>>
    BY <1>5, <2>4, <2>5
  <2> QED
    BY <2>2, <2>6, <2>7
<1>11. FinishedBy(n)
  BY <1>1, <1>7, <1>8, <1>9, <1>10 DEF FinishedBy, plain
<1> QED
  BY <1>11

\* The header takes the place of the placeholder, and no message moves.
LEMMA FinishIsLaidOut ==
  ASSUME ExportInv, Finish
  PROVE  ExportInv'
<1>1. PICK L, N : L = Len(gps.file) /\ N = Len(gps.encrypted)
  OBVIOUS
<1>2. ExportTypeOK /\ FileIsBegun /\ gps.phase = "writing"
  BY DEF ExportInv, Finish
<1>3. L \in Nat /\ L >= 3 /\ N \in Nat
  BY <1>1, <1>2, LenProperties DEF ExportTypeOK, FileIsBegun, FirstMessage
<1> DEFINE plain == <<[hash |-> gps.hash]>>
<1>4. Len(plain) = 1
  OBVIOUS
<1> HIDE DEF plain
<1>5. PICK n \in 0 .. HeaderCells : FinishedBy(n)
  BY <1>2, FinishWrites
<1>6. /\ DOMAIN gps' = DOMAIN gps /\ gps'.phase = (IF n = HeaderCells THEN "finished" ELSE "gone")
      /\ gps'.hash = gps.hash /\ gps'.attempts = gps.attempts /\ gps'.failed = gps.failed
      /\ gps'.encrypted \in Seq(Plaintexts) /\ Len(gps'.encrypted) = N + 1
      /\ \A m \in 1 .. N : gps'.encrypted[m] = gps.encrypted[m]
      /\ gps'.encrypted[N + 1] = plain
      /\ gps'.file \in Seq(Cells) /\ Len(gps'.file) = L
  BY <1>1, <1>5 DEF FinishedBy, plain
<1>7. /\ \A p \in 4 .. L : gps'.file[p] = gps.file[p]
      /\ n # 2 => gps'.file[3] = gps.file[3]
      /\ n = 2 => gps'.file[2] = <<N + 1, 1>> /\ gps'.file[3] = <<N + 1, 2>>
  BY <1>1, <1>5 DEF FinishedBy
<1>8. ExportTypeOK'
  BY <1>2, <1>6 DEF ExportTypeOK
<1>9. FileIsBegun'
  BY <1>1, <1>2, <1>3, <1>6, <1>7 DEF FileIsBegun, HeaderCells, FirstMessage
<1>10. ASSUME ~gps.failed PROVE LaidOut'
  <2>1. LaidOut /\ N = Messages /\ Messages' = Messages
    BY <1>1, <1>2, <1>6, <1>10 DEF ExportInv, LaidOut, MessagesAreAttempts, Messages
  <2>2. \A m \in 1 .. N : gps'.encrypted[m] = gps.encrypted[m] /\ Len(gps.encrypted[m]) \in Nat
    <3>1. ASSUME NEW m \in 1 .. N PROVE Len(gps.encrypted[m]) \in Nat
      <4>1. gps.encrypted[m] \in Plaintexts
        BY <1>1, <1>2, ElementOfSeq DEF ExportTypeOK
      <4> QED
        BY <4>1, LenProperties DEF Plaintexts
    <3> QED
      BY <1>6, <3>1
  <2>3. MessagesAreAttempts'
    <3>1. Len(gps'.encrypted) = Messages' + (IF gps'.phase = "writing" THEN 0 ELSE 1)
      BY <1>6, <2>1
    <3>2. ASSUME NEW j \in 1 .. Len(gps'.attempts)
          PROVE  /\ gps'.encrypted[2 * j - 1] = <<Header(Len(gps'.attempts[j].data), gps'.attempts[j].user)>>
                 /\ gps'.encrypted[2 * j] = gps'.attempts[j].data
      <4>1. N = 2 * Len(gps.attempts) /\ Len(gps.attempts) \in Nat /\ j \in 1 .. Len(gps.attempts)
        BY <1>2, <1>6, <2>1, LenProperties DEF Messages, ExportTypeOK
      <4>2. 2 * j - 1 \in 1 .. N /\ 2 * j \in 1 .. N
        BY <4>1
      <4>3. /\ gps.encrypted[2 * j - 1] = <<Header(Len(gps.attempts[j].data), gps.attempts[j].user)>>
            /\ gps.encrypted[2 * j] = gps.attempts[j].data
        BY <2>1, <4>1 DEF LaidOut, MessagesAreAttempts
      <4> QED
        BY <1>6, <2>2, <4>2, <4>3
    <3> QED
      BY <3>1, <3>2 DEF MessagesAreAttempts
  <2>4. ASSUME NEW m \in 1 .. N, NEW p \in FirstMessage .. L PROVE MessageAt(p, m)' <=> MessageAt(p, m)
    <3>1. Len(gps.encrypted[m]) \in Nat /\ gps'.encrypted[m] = gps.encrypted[m] /\ p \in Nat /\ p >= 3
      BY <1>3, <2>2 DEF FirstMessage
    <3>2. ASSUME p + Len(gps.encrypted[m]) + 1 <= L, NEW k \in 1 .. Len(gps.encrypted[m]) + 1
          PROVE  gps'.file[p + k] = gps.file[p + k]
      <4>1. p + k \in 4 .. L
        BY <1>3, <3>1, <3>2
      <4> QED
        BY <1>7, <4>1
    <3> QED
      BY <1>1, <1>6, <3>1, <3>2 DEF MessageAt
  <2>5. MessagesFollow'
    <3>1. ASSUME NEW p \in FirstMessage + 1 .. Len(gps'.file) PROVE gps'.file[p][1] \in 1 .. Messages'
      BY <1>1, <1>6, <1>7, <2>1 DEF LaidOut, MessagesFollow, FirstMessage
    <3>2. ASSUME NEW m \in 1 .. N + 1, NEW p \in FirstMessage .. L, Starts(p, m) PROVE Starts(p, m)'
      BY <1>1, <1>3, <1>6, <2>1, <2>4, <3>2 DEF Starts
    <3>3. Starts(FirstMessage, 1)'
      <4>1. 1 \in 1 .. N + 1 /\ FirstMessage \in FirstMessage .. L
        BY <1>3 DEF FirstMessage
      <4> QED
        BY <2>1, <3>2, <4>1 DEF LaidOut, MessagesFollow
    <3>4. ASSUME NEW m \in 1 .. Messages', NEW p \in FirstMessage .. Len(gps'.file), MessageAt(p, m)'
          PROVE  Starts(p + Len(gps.encrypted[m]) + 1, m + 1)'
      <4>1. m \in 1 .. N /\ p \in FirstMessage .. L /\ p \in Nat
        BY <1>3, <1>6, <2>1 DEF FirstMessage
      <4>2. MessageAt(p, m) /\ Len(gps.encrypted[m]) \in Nat /\ gps'.encrypted[m] = gps.encrypted[m]
        BY <2>2, <2>4, <3>4, <4>1
      <4>3. p + Len(gps.encrypted[m]) + 1 <= L
        BY <1>1, <4>2 DEF MessageAt
      <4>4. PICK q \in FirstMessage .. L : q = p + Len(gps.encrypted[m]) + 1
        BY <1>3, <4>1, <4>2, <4>3 DEF FirstMessage
      <4>5. Starts(q, m + 1)
        BY <1>1, <2>1, <4>1, <4>2, <4>4 DEF LaidOut, MessagesFollow
      <4>6. m + 1 \in 1 .. N + 1
        BY <1>3, <4>1
      <4>7. Starts(q, m + 1)'
        BY <3>2, <4>5, <4>6
      <4> QED
        BY <4>2, <4>4, <4>7
    <3> QED
      BY <3>1, <3>3, <3>4 DEF MessagesFollow
  <2>6. AllIsHashed'
    <3>1. Len(gps'.hash) = Len(gps'.file) - FirstMessage - Messages'
      BY <1>1, <1>6, <2>1 DEF LaidOut, AllIsHashed
    <3>2. ASSUME NEW m \in 1 .. Messages', NEW p \in FirstMessage .. Len(gps'.file), MessageAt(p, m)'
          PROVE  /\ 0 <= p - m - 2 /\ p - m - 2 + Len(gps'.encrypted[m]) <= Len(gps'.hash)
                 /\ \A k \in 1 .. Len(gps'.encrypted[m]) : gps'.hash[p - m - 2 + k] = gps'.encrypted[m][k]
      <4>1. m \in 1 .. N /\ p \in FirstMessage .. L
        BY <1>6, <2>1
      <4>2. MessageAt(p, m) /\ gps'.encrypted[m] = gps.encrypted[m]
        BY <2>2, <2>4, <3>2, <4>1
      <4>3. gps'.hash = gps.hash
        BY <1>6
      <4> QED
        BY <1>1, <2>1, <4>1, <4>2, <4>3 DEF LaidOut, AllIsHashed
    <3> QED
      BY <3>1, <3>2 DEF AllIsHashed
  <2>7. FileIsHeaded'
    <3> SUFFICES ASSUME gps'.phase = "finished"
                 PROVE  MessageAt(1, Messages + 1)' /\ gps'.encrypted[Messages' + 1] = <<[hash |-> gps'.hash]>>
      BY DEF FileIsHeaded
    <3>1. n = 2
      BY <1>6 DEF HeaderCells
    <3>2. gps'.encrypted[N + 1] = <<[hash |-> gps'.hash]>> /\ Len(gps'.encrypted[N + 1]) = 1
      BY <1>4, <1>6 DEF plain
    <3>3. \A k \in 1 .. 2 : gps'.file[1 + k] = <<N + 1, k>>
      <4>1. ASSUME NEW k \in 1 .. 2 PROVE gps'.file[1 + k] = <<N + 1, k>>
        <5>1. CASE k = 1
          BY <1>7, <3>1, <5>1
        <5>2. CASE k = 2
          BY <1>7, <3>1, <5>2
        <5> QED
          BY <5>1, <5>2
      <4> QED
        BY <4>1
    <3>4. MessageAt(1, Messages + 1)'
      BY <1>3, <1>6, <2>1, <3>2, <3>3 DEF MessageAt
    <3> QED
      BY <2>1, <3>2, <3>4
  <2> QED
    BY <2>3, <2>5, <2>6, <2>7 DEF LaidOut
<1> QED
  BY <1>6, <1>8, <1>9, <1>10 DEF ExportInv

\* By the end of a chunk no more has been passed than there is.
LEMMA NoMoreThanThere ==
  ASSUME NEW k \in Nat, NEW length \in Nat, NEW chunk \in 0 .. 1
  PROVE  PassedBy(k, length, chunk) \in 0 .. length
<1>1. k * ChunkOf(length, chunk) \in Nat
  <2>1. CASE chunk = 0
    BY <2>1 DEF ChunkOf
  <2>2. CASE chunk = 1
    BY <2>2 DEF ChunkOf
  <2> QED
    BY <2>1, <2>2
<1>2. PICK n \in Nat : n = k * ChunkOf(length, chunk)
  BY <1>1
<1>3. PassedBy(k, length, chunk) = CHOOSE x \in {n, length} : \A y \in {n, length} : x <= y
  BY <1>2 DEF PassedBy, Min
<1>4. \E x \in {n, length} : \A y \in {n, length} : x <= y
  OBVIOUS
<1>5. /\ PassedBy(k, length, chunk) \in {n, length}
      /\ \A y \in {n, length} : PassedBy(k, length, chunk) <= y
  BY <1>3, <1>4
<1> QED
  BY <1>5

\* An append that has failed, wherever it has.
LEMMA FailedAppend ==
  ASSUME ExportInv, NEW user \in UserData, NEW data \in Payloads, NEW length \in Nat,
         NEW n \in 0 .. HeaderCells + Len(data) + 1, NEW hashed \in Seq(Hashable),
         NEW attempt \in Attempts,
         Written(Header(length, user), data, n, hashed, attempt, TRUE)
  PROVE  ExportInv'
<1>1. /\ ExportTypeOK /\ FileIsBegun /\ gps.phase = "writing"
      /\ Appended(Header(length, user), data, n, hashed, attempt, TRUE)
  BY DEF ExportInv, Written, Appended
<1> DEFINE failed == TRUE
<1>2. failed \in BOOLEAN /\ failed /\ Appended(Header(length, user), data, n, hashed, attempt, failed)
  BY <1>1
<1> HIDE DEF failed
<1>3. ExportTypeOK'
  BY <1>1, <1>2, AppendIsTyped
<1>4. FileIsBegun'
  BY <1>1, <1>2, AppendIsTyped
<1>5. gps'.failed
  BY <1>1, <1>2, AppendIsTyped
<1> QED
  BY <1>3, <1>4, <1>5 DEF ExportInv

\* An append that has not.
LEMMA WholeAppend ==
  ASSUME ExportInv, NEW user \in UserData, NEW data \in Payloads,
         Written(Header(Len(data), user), data, HeaderCells + Len(data) + 1,
                 <<Header(Len(data), user)>> \o data, [user |-> user, data |-> data], FALSE)
  PROVE  ExportInv'
<1>1. /\ ExportTypeOK /\ FileIsBegun /\ gps.phase = "writing"
      /\ Appended(Header(Len(data), user), data, HeaderCells + Len(data) + 1,
                  <<Header(Len(data), user)>> \o data, [user |-> user, data |-> data], FALSE)
  BY DEF ExportInv, Written, Appended
<1> DEFINE header  == Header(Len(data), user)
           n       == HeaderCells + Len(data) + 1
           hashed  == <<header>> \o data
           attempt == [user |-> user, data |-> data]
           failed  == FALSE
<1>2. /\ failed \in BOOLEAN /\ ~failed /\ Len(data) \in Nat
      /\ n \in 0 .. HeaderCells + Len(data) + 1 /\ attempt \in Attempts
  BY PayloadsArePlain DEF HeaderCells, Attempts
<1>3. hashed \in Seq(Hashable)
  BY <1>2, PayloadsArePlain, HeadersArePlain, ConcatProperties
<1>4. Appended(Header(Len(data), user), data, n, hashed, attempt, failed)
  BY <1>1
<1>5. ~gps.failed => LaidOut'
  BY <1>1, AppendIsLaidOut
<1> HIDE DEF header, n, hashed, attempt, failed
<1>6. ExportTypeOK'
  BY <1>1, <1>2, <1>3, <1>4, AppendIsTyped
<1>7. FileIsBegun'
  BY <1>1, <1>2, <1>3, <1>4, AppendIsTyped
<1>8. gps'.failed = (gps.failed \/ failed)
  BY <1>1, <1>4 DEF Appended, ExportTypeOK
<1>9. gps.failed => gps'.failed
  BY <1>8, Zenon
<1> QED
  BY <1>2, <1>5, <1>6, <1>7, <1>9 DEF ExportInv

\* Every step keeps the invariant of the export.
LEMMA ExportStep ==
  ASSUME ExportInv, [GpsNext]_gpsVars
  PROVE  ExportInv'
<1>1. ASSUME NEW data \in Payloads, NEW user \in UserData, AppendPayload(data, user)
      PROVE  ExportInv'
  <2> DEFINE header == Header(Len(data), user)
             attempt == [user |-> user, data |-> data]
             all == HeaderCells + Len(data) + 1
             Hashed1(n) == IF n < HeaderCells THEN <<header>> ELSE <<header>> \o data
  <2>1. PICK n \in 0 .. all : Written(header, data, n, Hashed1(n), attempt, n < all)
    BY <1>1 DEF AppendPayload
  <2>2. /\ Len(data) \in Nat /\ attempt \in Attempts /\ <<header>> \in Seq(Hashable)
        /\ <<header>> \o data \in Seq(Hashable)
    BY PayloadsArePlain, HeadersArePlain, ConcatProperties DEF Attempts
  <2>3. Hashed1(n) \in Seq(Hashable)
    BY <2>2
  <2>4. CASE n < all
    <3>1. Written(header, data, n, Hashed1(n), attempt, TRUE)
      BY <2>1, <2>4
    <3> DEFINE h == Hashed1(n)
               a == attempt
    <3>2. h \in Seq(Hashable) /\ a \in Attempts /\ Written(Header(Len(data), user), data, n, h, a, TRUE)
      BY <2>2, <2>3, <3>1
    <3> HIDE DEF h, a
    <3> QED
      BY <2>2, <3>2, FailedAppend
  <2>5. CASE ~(n < all)
    <3>1. n = all /\ ~(n < HeaderCells)
      BY <2>2, <2>5 DEF HeaderCells
    <3>2. Written(header, data, all, <<header>> \o data, attempt, FALSE)
      <4>1. (n < all) = FALSE
        BY <2>2, <2>5, <3>1 DEF HeaderCells
      <4>2. Hashed1(n) = <<header>> \o data
        BY <3>1
      <4> QED
        BY <2>1, <3>1, <4>1, <4>2, Zenon
    <3> QED
      BY <3>2, WholeAppend
  <2> QED
    BY <2>4, <2>5
<1>2. ASSUME NEW data \in Payloads, NEW again \in Payloads, NEW chunk \in 0 .. 1,
             NEW k1 \in 0 .. 2, NEW k2 \in 0 .. 2, NEW user \in UserData,
             AppendPayloadFile(data, again, user, chunk, k1, k2)
      PROVE  ExportInv'
  <2> DEFINE header == Header(Len(data), user)
             attempt == [user |-> user, data |-> again]
  <2>1. /\ Len(data) \in Nat /\ Len(again) \in Nat /\ attempt \in Attempts
        /\ <<header>> \in Seq(Hashable) /\ data \in Seq(Hashable)
    BY PayloadsArePlain, HeadersArePlain DEF Attempts
  <2>2. ASSUME NEW n \in 0 .. Len(again) + 1, NEW hashed \in Seq(Hashable),
               Written(header, again, HeaderCells + n, <<header>> \o hashed, attempt, TRUE)
        PROVE  ExportInv'
    <3> DEFINE h == <<header>> \o hashed
               a == attempt
               m == HeaderCells + n
    <3>1. h \in Seq(Hashable) /\ a \in Attempts /\ Written(Header(Len(data), user), again, m, h, a, TRUE)
      BY <2>1, <2>2, ConcatProperties
    <3>2. m \in 0 .. HeaderCells + Len(again) + 1
      BY <2>1 DEF HeaderCells
    <3> HIDE DEF h, a, m
    <3> QED
      BY <2>1, <3>1, <3>2, FailedAppend
  <2>3. CASE Written(header, again, HeaderCells + 0,
                     <<header>> \o SubSeq(data, 1, PassedBy(k1, Len(data), chunk)), attempt, TRUE)
    <3>1. k1 \in Nat
      OBVIOUS
    <3>2. PassedBy(k1, Len(data), chunk) \in 0 .. Len(data)
      BY <2>1, <3>1, NoMoreThanThere
    <3>3. \A i \in 1 .. PassedBy(k1, Len(data), chunk) : data[i] \in Hashable
      BY <2>1, <3>2, ElementOfSeq
    <3>4. SubSeq(data, 1, PassedBy(k1, Len(data), chunk)) \in Seq(Hashable)
      BY <2>1, <3>2, <3>3, SubSeqProperties
    <3>5. 0 \in 0 .. Len(again) + 1
      BY <2>1
    <3> QED
      BY <2>2, <2>3, <3>4, <3>5
  <2>4. CASE Written(header, again, HeaderCells + PassedBy(k2, Len(again), chunk), <<header>> \o data, attempt, TRUE)
    <3>1. k2 \in Nat
      OBVIOUS
    <3>2. PassedBy(k2, Len(again), chunk) \in 0 .. Len(again)
      BY <2>1, <3>1, NoMoreThanThere
    <3>3. PassedBy(k2, Len(again), chunk) \in 0 .. Len(again) + 1
      BY <2>1, <3>2
    <3> QED
      BY <2>1, <2>2, <2>4, <3>3
  <2>5. CASE Written(header, again, HeaderCells + (Len(again) + 1), <<header>> \o data, attempt, again # data)
    <3>1. CASE again # data
      <4>1. Len(again) + 1 \in 0 .. Len(again) + 1
        BY <2>1
      <4>2. Written(header, again, HeaderCells + (Len(again) + 1), <<header>> \o data, attempt, TRUE)
        BY <2>5, <3>1
      <4> QED
        BY <2>1, <2>2, <4>1, <4>2
    <3>2. CASE again = data
      <4>1. HeaderCells + (Len(again) + 1) = HeaderCells + Len(data) + 1
        BY <2>1, <3>2 DEF HeaderCells
      <4>2. Written(header, data, HeaderCells + Len(data) + 1, <<header>> \o data,
                    [user |-> user, data |-> data], FALSE)
        BY <2>5, <3>2, <4>1
      <4> QED
        BY <4>2, WholeAppend
    <3> QED
      BY <3>1, <3>2
  <2> QED
    BY <1>2, <2>3, <2>4, <2>5 DEF AppendPayloadFile
<1>3. ASSUME UNCHANGED gps PROVE ExportInv'
  <2>1. ExportTypeOK'
    BY <1>3 DEF ExportInv, ExportTypeOK
  <2>2. FileIsBegun'
    BY <1>3 DEF ExportInv, FileIsBegun
  <2>3. ~gps.failed => LaidOut'
    <3> SUFFICES ASSUME LaidOut PROVE LaidOut'
      BY DEF ExportInv
    <3>1. MessagesAreAttempts'
      BY <1>3 DEF LaidOut, MessagesAreAttempts, Messages
    <3>2. MessagesFollow'
      <4>1. \A p \in FirstMessage + 1 .. Len(gps'.file) : gps'.file[p][1] \in 1 .. Messages'
        BY <1>3 DEF LaidOut, MessagesFollow, Messages
      <4>2. Starts(FirstMessage, 1)'
        BY <1>3 DEF LaidOut, MessagesFollow, Starts, MessageAt, Messages
      <4>3. ASSUME NEW n \in 1 .. Messages', NEW p \in FirstMessage .. Len(gps'.file), MessageAt(p, n)'
            PROVE  Starts(p + Len(gps.encrypted[n]) + 1, n + 1)'
        <5>1. MessageAt(p, n) /\ n \in 1 .. Messages /\ p \in FirstMessage .. Len(gps.file)
          BY <1>3, <4>3 DEF MessageAt, Messages
        <5>2. Starts(p + Len(gps.encrypted[n]) + 1, n + 1)
          BY <5>1 DEF LaidOut, MessagesFollow
        <5> QED
          BY <1>3, <5>2 DEF Starts, MessageAt, Messages
      <4> QED
        BY <4>1, <4>2, <4>3 DEF MessagesFollow
    <3>3. AllIsHashed'
      BY <1>3 DEF LaidOut, AllIsHashed, MessageAt, Messages
    <3>4. FileIsHeaded'
      BY <1>3 DEF LaidOut, FileIsHeaded, MessageAt, Messages
    <3> QED
      BY <3>1, <3>2, <3>3, <3>4 DEF LaidOut
  <2> QED
    BY <1>3, <2>1, <2>2, <2>3 DEF ExportInv
<1>4. (CHOOSE u \in UserData : TRUE) \in UserData
  BY GpsAssumption
<1>5. CASE \E data \in Payloads, user \in UserData : AppendPayload(data, user)
  BY <1>1, <1>5
<1>6. CASE \E data, again \in Payloads, chunk \in 0..1, k1, k2 \in 0..2 :
             AppendPayloadFile(data, again, CHOOSE u \in UserData : TRUE, chunk, k1, k2)
  BY <1>2, <1>4, <1>6
<1>7. CASE Finish
  BY <1>7, FinishIsLaidOut
<1>8. CASE \/ \E creds \in AllCredentials, validates \in BOOLEAN : Import(creds, validates)
           \/ GetCurrentPayload \/ PassCurrentPayload \/ NextPayload
           \/ \E chunk \in 0..1, k \in 1..2 : CancelGet(chunk, k)
  BY <1>3, <1>8 DEF Import, GetCurrentPayload, PassCurrentPayload, NextPayload, CancelGet
<1>9. CASE UNCHANGED gpsVars
  BY <1>3, <1>9 DEF gpsVars
<1> QED
  BY <1>5, <1>6, <1>7, <1>8, <1>9 DEF GpsNext

---------------------------------------------------------------------------
(* The import *)

Views == [user : UserData, length : Nat, got : BOOLEAN, data : Payloads \cup {<<>>}]

\* What the reader i expects next: the message with this number.
Expected(i) == 2 * Len(i.seen) + (IF i.payloadRead THEN 1 ELSE 0)

IsImport(i) ==
  /\ DOMAIN i = {"phase", "creds", "validates", "pos", "hash", "finalHash", "payloadRead", "length",
                 "seen", "ended", "disturbed"}
  /\ i.validates \in BOOLEAN /\ i.payloadRead \in BOOLEAN /\ i.ended \in BOOLEAN
  /\ i.seen \in Seq(Views)

SeenBy(i) ==
  /\ Len(i.seen) <= Len(gps.attempts)
  /\ \A k \in 1 .. Len(i.seen) :
       /\ i.seen[k].user = gps.attempts[k].user
       /\ i.seen[k].got => i.seen[k].data = gps.attempts[k].data

\* The reader is where the next message starts, and has hashed all that is before it.
Reads(i) ==
  /\ i.phase = "open" /\ IsImport(i) /\ SeenBy(i)
  /\ i.pos \in FirstMessage .. Len(gps.file) /\ Starts(i.pos, Expected(i))
  /\ ~i.payloadRead => Len(i.seen) > 0 /\ i.length = Len(gps.encrypted[Expected(i)])
  /\ i.ended => i.payloadRead /\ Expected(i) = Messages + 1
  /\ i.validates => i.finalHash = gps.hash
  /\ i.validates /\ ~i.ended => i.hash = SubSeq(gps.hash, 1, i.pos - Expected(i) - 2)

\* A message that is in the file can be decrypted.
LEMMA MessagesDecrypt ==
  ASSUME ExportTypeOK, NEW n \in 1 .. Len(gps.encrypted), NEW p \in Nat, MessageAt(p, n)
  PROVE  Decrypts(p, Len(gps.encrypted[n]) + 1) /\ PlainAt(p) = gps.encrypted[n]
<1>1. PICK w \in Nat : w = Len(gps.encrypted[n]) + 1 /\ w > 0
  <2>1. gps.encrypted[n] \in Plaintexts
    BY ElementOfSeq DEF ExportTypeOK
  <2>2. Len(gps.encrypted[n]) \in Nat
    BY <2>1, LenProperties DEF Plaintexts
  <2> QED
    BY <2>2
<1>2. p + w <= Len(gps.file) /\ \A k \in 1 .. w : gps.file[p + k] = <<n, k>>
  <2>1. p + Len(gps.encrypted[n]) + 1 <= Len(gps.file)
    BY DEF MessageAt
  <2>2. Len(gps.encrypted[n]) \in Int
    <3>1. gps.encrypted[n] \in Plaintexts
      BY ElementOfSeq DEF ExportTypeOK
    <3> QED
      BY <3>1, LenProperties DEF Plaintexts
  <2>3. p + w = p + Len(gps.encrypted[n]) + 1
    BY <1>1, <2>2
  <2>4. \A k \in 1 .. w : gps.file[p + k] = <<n, k>>
    BY <1>1 DEF MessageAt
  <2> QED
    BY <2>1, <2>3, <2>4
<1>3. PICK L \in Nat : L = Len(gps.file)
  BY LenProperties DEF ExportTypeOK
<1>4. \A k \in p + 1 .. p + w : gps.file[k] \in Cells
  <2>1. gps.file \in Seq(Cells)
    BY DEF ExportTypeOK
  <2>2. \A k \in p + 1 .. p + w : k \in 1 .. Len(gps.file)
    BY <1>2, <1>3
  <2> QED
    BY <2>1, <2>2, ElementOfSeq
<1> DEFINE window == Window(p, w)
<1>5. /\ window \in Seq(Cells) /\ Len(window) = w
      /\ \A k \in 1 .. w : window[k] = <<n, k>>
  <2>1. /\ window \in Seq(Cells) /\ Len(window) = IF p + 1 <= p + w THEN p + w - (p + 1) + 1 ELSE 0
        /\ \A k \in 1 .. p + w - (p + 1) + 1 : window[k] = gps.file[p + 1 + k - 1]
    <3>1. p + 1 \in Int /\ p + w \in Int
      BY <1>1
    <3> QED
      BY <1>4, <3>1, SubSeqProperties DEF Window
  <2> HIDE DEF window
  <2>2. Len(window) = w
    BY <1>1, <2>1
  <2>3. ASSUME NEW k \in 1 .. w PROVE window[k] = <<n, k>>
    <3>1. k \in 1 .. p + w - (p + 1) + 1 /\ p + 1 + k - 1 = p + k
      BY <1>1
    <3> QED
      BY <1>2, <2>1, <3>1
  <2> QED
    BY <2>1, <2>2, <2>3
<1>6. /\ Crypttext(n, gps.encrypted[n]) \in Seq(Cells) /\ Len(Crypttext(n, gps.encrypted[n])) = w
      /\ \A k \in 1 .. w : Crypttext(n, gps.encrypted[n])[k] = <<n, k>>
  <2>1. n \in Nat /\ gps.encrypted[n] \in Plaintexts
    BY ElementOfSeq DEF ExportTypeOK
  <2> QED
    BY <1>1, <2>1, CrypttextCells
<1> HIDE DEF window
<1>7. window = Crypttext(n, gps.encrypted[n])
  BY <1>5, <1>6, SeqEqual
<1>8. window # <<>> /\ Last(window)[1] = n
  <2>1. window[w] = <<n, w>>
    BY <1>1, <1>5
  <2> QED
    BY <1>1, <1>5, <2>1 DEF Last
<1>9. n \in DOMAIN gps.encrypted
  BY LenProperties DEF ExportTypeOK
<1>10. Opens(Window(p, w), gps.encrypted)
  BY <1>7, <1>8, <1>9 DEF Opens, window
<1>11. gps.file[p + 1] = <<n, 1>>
  BY <1>1, <1>2
<1> QED
  BY <1>1, <1>2, <1>10, <1>11 DEF Decrypts, PlainAt

\* Behind a message is the next one, and its units are the next in the hash.
LEMMA OverAMessage ==
  ASSUME ExportTypeOK, LaidOut, NEW n \in 1 .. Messages, NEW p \in FirstMessage .. Len(gps.file),
         MessageAt(p, n), NEW q, q = p + Len(gps.encrypted[n]) + 1
  PROVE  /\ Len(gps.encrypted[n]) \in Nat /\ n \in 1 .. Len(gps.encrypted) /\ p \in Nat
         /\ q \in FirstMessage .. Len(gps.file) /\ Starts(q, n + 1)
         /\ SubSeq(gps.hash, 1, p - n - 2) \o gps.encrypted[n] = SubSeq(gps.hash, 1, q - (n + 1) - 2)
<1>1. n \in 1 .. Len(gps.encrypted) /\ p \in Nat /\ p >= 3 /\ n \in Nat
  <2>1. Messages \in Nat /\ Len(gps.encrypted) \in Nat
    BY LenProperties DEF ExportTypeOK, Messages
  <2> QED
    BY <2>1 DEF LaidOut, MessagesAreAttempts, FirstMessage
<1>2. PICK E \in Nat : E = Len(gps.encrypted[n])
  <2>1. gps.encrypted[n] \in Plaintexts
    BY <1>1, ElementOfSeq DEF ExportTypeOK
  <2> QED
    BY <2>1, LenProperties DEF Plaintexts
<1>3. PICK H \in Nat, L \in Nat : H = Len(gps.hash) /\ L = Len(gps.file)
  BY LenProperties DEF ExportTypeOK
<1>4. p + E + 1 <= L
  BY <1>2, <1>3 DEF MessageAt
<1>5. /\ 0 <= p - n - 2 /\ p - n - 2 + E <= H
      /\ \A k \in 1 .. E : gps.hash[p - n - 2 + k] = gps.encrypted[n][k]
  BY <1>2, <1>3 DEF LaidOut, AllIsHashed
<1>6. PICK b \in Nat : b = p - n - 2
  BY <1>1, <1>5
<1>7. Starts(p + E + 1, n + 1)
  BY <1>2 DEF LaidOut, MessagesFollow
<1>8. SubSeq(gps.hash, 1, b) \o gps.encrypted[n] = SubSeq(gps.hash, 1, b + E)
  <2> DEFINE S == Hashable \cup [hash : Seq(Hashable)]
             s == SubSeq(gps.hash, 1, b)
             e == gps.encrypted[n]
             t == SubSeq(gps.hash, 1, b + E)
  <2>1. b + E <= H
    BY <1>5, <1>6
  <2>2. \A k \in 1 .. H : gps.hash[k] \in S
    BY <1>3, ElementOfSeq DEF ExportTypeOK
  <2>3. e \in Seq(S) /\ Len(e) = E
    <3>1. gps.encrypted[n] \in Plaintexts
      BY <1>1, ElementOfSeq DEF ExportTypeOK
    <3> QED
      BY <1>2, <3>1 DEF Plaintexts
  <2> HIDE DEF S
  <2>4. /\ s \in Seq(S) /\ Len(s) = (IF 1 <= b THEN b - 1 + 1 ELSE 0)
        /\ \A k \in 1 .. b - 1 + 1 : s[k] = gps.hash[1 + k - 1]
    <3>1. \A k \in 1 .. b : gps.hash[k] \in S
      BY <1>3, <2>1, <2>2
    <3> QED
      BY <3>1, SubSeqProperties
  <2>5. /\ t \in Seq(S) /\ Len(t) = (IF 1 <= b + E THEN b + E - 1 + 1 ELSE 0)
        /\ \A k \in 1 .. b + E - 1 + 1 : t[k] = gps.hash[1 + k - 1]
    <3>1. \A k \in 1 .. b + E : gps.hash[k] \in S
      BY <1>3, <2>1, <2>2
    <3>2. b + E \in Int
      OBVIOUS
    <3> QED
      BY <3>1, <3>2, SubSeqProperties
  <2> HIDE DEF s, e, t
  <2>6. s \in Seq(S) /\ Len(s) = b /\ \A k \in 1 .. b : s[k] = gps.hash[k]
    <3>1. ASSUME NEW k \in 1 .. b PROVE s[k] = gps.hash[k]
      <4>1. k \in 1 .. b - 1 + 1 /\ 1 + k - 1 = k
        OBVIOUS
      <4> QED
        BY <2>4, <4>1
    <3> QED
      BY <2>4, <3>1
  <2>7. t \in Seq(S) /\ Len(t) = b + E /\ \A k \in 1 .. b + E : t[k] = gps.hash[k]
    <3>1. ASSUME NEW k \in 1 .. b + E PROVE t[k] = gps.hash[k]
      <4>1. k \in 1 .. b + E - 1 + 1 /\ 1 + k - 1 = k
        OBVIOUS
      <4> QED
        BY <2>5, <4>1
    <3> QED
      BY <2>5, <3>1
  <2>8. /\ s \o e \in Seq(S) /\ Len(s \o e) = b + E
        /\ \A i \in 1 .. b : (s \o e)[i] = s[i]
        /\ \A k \in 1 .. E : (s \o e)[b + k] = e[k]
    <3>1. s \in Seq(S) /\ e \in Seq(S)
      BY <2>3, <2>6
    <3>2. s \o e \in Seq(S) /\ Len(s \o e) = Len(s) + Len(e)
      BY <3>1, BothParts
    <3>3. \A i \in 1 .. Len(s) : (s \o e)[i] = s[i]
      BY <3>1, BothParts
    <3>4. \A k \in 1 .. Len(e) : (s \o e)[Len(s) + k] = e[k]
      BY <3>1, BothParts
    <3> QED
      BY <2>3, <2>6, <3>2, <3>3, <3>4
  <2>9. ASSUME NEW i \in 1 .. b + E PROVE (s \o e)[i] = t[i]
    <3>1. CASE i <= b
      <4>1. i \in 1 .. b
        BY <3>1
      <4> QED
        BY <2>6, <2>7, <2>8, <4>1
    <3>2. CASE ~(i <= b)
      <4>1. PICK k \in 1 .. E : i = b + k
        <5>1. i - b \in 1 .. E /\ i = b + (i - b)
          BY <3>2
        <5> QED
          BY <5>1
      <4>2. gps.hash[b + k] = e[k]
        BY <1>5, <1>6 DEF e
      <4> QED
        BY <2>7, <2>8, <4>1, <4>2
    <3> QED
      BY <3>1, <3>2
  <2>10. s \o e = t
    <3> DEFINE se == s \o e
    <3>1. se \in Seq(S) /\ t \in Seq(S) /\ Len(se) = Len(t) /\ \A i \in 1 .. Len(se) : se[i] = t[i]
      BY <2>7, <2>8, <2>9
    <3> HIDE DEF se
    <3>2. se = t
      BY <3>1, SeqEqual
    <3> QED
      BY <3>2 DEF se
  <2> QED
    BY <2>10 DEF s, e, t
<1>9. q = p + E + 1
  BY <1>2
<1>10. q - (n + 1) - 2 = b + E
  BY <1>1, <1>6, <1>9
<1>11. q \in FirstMessage .. Len(gps.file)
  BY <1>1, <1>3, <1>4, <1>9 DEF FirstMessage
<1> QED
  BY <1>1, <1>2, <1>6, <1>7, <1>8, <1>10, <1>11, <1>9

\* The numbers of a reader.
LEMMA ReaderTypes ==
  ASSUME ExportTypeOK, LaidOut, NEW i, Reads(i)
  PROVE  /\ Len(i.seen) \in Nat /\ Messages \in Nat /\ Len(gps.attempts) \in Nat
         /\ Messages = 2 * Len(gps.attempts) /\ Messages <= Len(gps.encrypted)
         /\ Expected(i) = (IF i.payloadRead THEN 2 * Len(i.seen) + 1 ELSE 2 * Len(i.seen))
         /\ Expected(i) \in 1 .. Messages + 1 /\ (~i.payloadRead => Expected(i) \in 1 .. Messages)
<1>1. Len(i.seen) \in Nat /\ Len(gps.attempts) \in Nat /\ Len(gps.encrypted) \in Nat
  BY LenProperties DEF ExportTypeOK, Reads, IsImport
<1>2. Messages = 2 * Len(gps.attempts) /\ Len(i.seen) <= Len(gps.attempts)
  BY DEF Messages, Reads, SeenBy
<1>3. Expected(i) = (IF i.payloadRead THEN 2 * Len(i.seen) + 1 ELSE 2 * Len(i.seen))
  <2>1. CASE i.payloadRead
    BY <1>1, <2>1 DEF Expected
  <2>2. CASE ~i.payloadRead
    BY <1>1, <2>2 DEF Expected
  <2> QED
    BY <2>1, <2>2
<1>4. Messages <= Len(gps.encrypted)
  <2>1. Messages \in Nat
    BY <1>1, <1>2
  <2>2. Len(gps.encrypted) \in {Messages, Messages + 1}
    <3>1. CASE gps.phase = "writing"
      BY <2>1, <3>1 DEF LaidOut, MessagesAreAttempts
    <3>2. CASE gps.phase # "writing"
      BY <2>1, <3>2 DEF LaidOut, MessagesAreAttempts
    <3> QED
      BY <3>1, <3>2
  <2> QED
    BY <2>1, <2>2
<1>5. ~i.payloadRead => Len(i.seen) > 0
  BY DEF Reads
<1> QED
  BY <1>1, <1>2, <1>3, <1>4, <1>5

\* A payload that is expected can be gotten, and the reader goes on behind it.
LEMMA GottenIsRead ==
  ASSUME ExportTypeOK, LaidOut, NEW i, Reads(i), ~i.payloadRead, NEW wanted \in BOOLEAN
  PROVE  /\ MayGet(i) /\ Reads(PayloadGotten(i, wanted)) /\ PayloadGotten(i, wanted).payloadRead
         /\ PayloadGotten(i, wanted).creds = i.creds /\ PayloadGotten(i, wanted).disturbed = i.disturbed
<1> DEFINE n == Expected(i)
           s == Len(i.seen)
           g == PayloadGotten(i, wanted)
<1>1. /\ s \in Nat /\ s > 0 /\ n = 2 * s /\ n \in 1 .. Messages /\ s \in 1 .. Len(i.seen)
      /\ Messages = 2 * Len(gps.attempts) /\ Messages <= Len(gps.encrypted)
      /\ s \in 1 .. Len(gps.attempts) /\ Len(gps.attempts) \in Nat /\ n # Messages + 1
  <2>1. s > 0 /\ s <= Len(gps.attempts)
    BY DEF Reads, SeenBy
  <2> QED
    BY <2>1, ReaderTypes
<1>2. /\ i.pos \in FirstMessage .. Len(gps.file) /\ MessageAt(i.pos, n)
      /\ i.length = Len(gps.encrypted[n]) /\ ~i.ended /\ IsImport(i) /\ SeenBy(i) /\ i.phase = "open"
  BY <1>1 DEF Reads, Starts
<1> HIDE DEF n, s
<1>3. PICK q : q = i.pos + i.length + 1
  OBVIOUS
<1>4. /\ i.length \in Nat /\ n \in 1 .. Len(gps.encrypted) /\ i.pos \in Nat
      /\ q \in FirstMessage .. Len(gps.file) /\ Starts(q, n + 1)
      /\ SubSeq(gps.hash, 1, i.pos - n - 2) \o gps.encrypted[n] = SubSeq(gps.hash, 1, q - (n + 1) - 2)
  BY <1>3, <1>1, <1>2, OverAMessage
<1>5. Decrypts(i.pos, i.length + 1) /\ PlainAt(i.pos) = gps.encrypted[n]
  BY <1>2, <1>4, MessagesDecrypt
<1>6. gps.encrypted[n] = gps.attempts[s].data /\ gps.attempts[s].data \in Payloads
  <2>1. gps.attempts[s] \in Attempts
    BY <1>1, ElementOfSeq DEF ExportTypeOK
  <2>2. gps.encrypted[2 * s] = gps.attempts[s].data
    BY <1>1 DEF LaidOut, MessagesAreAttempts
  <2> QED
    BY <1>1, <2>1, <2>2 DEF Attempts
<1>7. /\ DOMAIN g = DOMAIN i /\ g.pos = i.pos + i.length + 1 /\ g.payloadRead = TRUE
      /\ g.hash = Hashed(i, gps.encrypted[n])
      /\ g.seen = IF wanted THEN SeenWith(i, gps.encrypted[n]) ELSE i.seen
      /\ g.phase = i.phase /\ g.creds = i.creds /\ g.validates = i.validates /\ g.finalHash = i.finalHash
      /\ g.length = i.length /\ g.ended = i.ended /\ g.disturbed = i.disturbed
  <2> DEFINE newSeen == IF wanted THEN SeenWith(i, gps.encrypted[n]) ELSE i.seen
  <2>1. g = [i EXCEPT !.pos = @ + i.length + 1, !.payloadRead = TRUE, !.hash = Hashed(i, gps.encrypted[n]),
                      !.seen = newSeen]
    BY <1>5 DEF PayloadGotten
  <2> HIDE DEF newSeen, g
  <2>2. /\ DOMAIN g = DOMAIN i /\ g.pos = i.pos + i.length + 1 /\ g.payloadRead = TRUE
        /\ g.hash = Hashed(i, gps.encrypted[n]) /\ g.seen = newSeen
        /\ g.phase = i.phase /\ g.creds = i.creds /\ g.validates = i.validates /\ g.finalHash = i.finalHash
        /\ g.length = i.length /\ g.ended = i.ended /\ g.disturbed = i.disturbed
    BY <1>2, <2>1 DEF IsImport
  <2> QED
    BY <2>2 DEF newSeen
<1> HIDE DEF g
<1>8. /\ g.seen \in Seq(Views) /\ Len(g.seen) = s
      /\ \A k \in 1 .. s : g.seen[k].user = i.seen[k].user
      /\ \A k \in 1 .. s : g.seen[k].got => \/ i.seen[k].got /\ g.seen[k].data = i.seen[k].data
                                            \/ k = s /\ g.seen[k].data = gps.encrypted[n]
  <2>1. i.seen \in Seq(Views) /\ Len(i.seen) = s /\ s \in 1 .. Len(i.seen)
    BY <1>1, <1>2 DEF IsImport, s
  <2>2. i.seen[s] \in Views
    BY <2>1, ElementOfSeq
  <2> DEFINE v == [i.seen[s] EXCEPT !.data = gps.encrypted[n], !.got = TRUE]
             e == [i.seen EXCEPT ![s] = v]
  <2>3. v \in Views /\ v.user = i.seen[s].user /\ v.data = gps.encrypted[n]
    BY <1>6, <2>2 DEF Views
  <2> HIDE DEF v
  <2>4. /\ e \in Seq(Views) /\ Len(e) = Len(i.seen)
        /\ \A j \in 1 .. Len(i.seen) : e[j] = IF j = s THEN v ELSE i.seen[j]
    BY <2>1, <2>3, ExceptSeq
  <2>5. g.seen = IF wanted THEN e ELSE i.seen
    <3>1. SeenWith(i, gps.encrypted[n]) = e
      BY DEF v, s, SeenWith
    <3> QED
      BY <1>7, <3>1, Zenon
  <2> HIDE DEF e
  <2>6. CASE wanted
    <3>1. g.seen = e
      BY <2>5, <2>6
    <3>2. ASSUME NEW k \in 1 .. s
          PROVE  /\ g.seen[k].user = i.seen[k].user
                 /\ g.seen[k].got => \/ i.seen[k].got /\ g.seen[k].data = i.seen[k].data
                                     \/ k = s /\ g.seen[k].data = gps.encrypted[n]
      <4>1. g.seen[k] = IF k = s THEN v ELSE i.seen[k]
        BY <2>1, <2>4, <3>1
      <4>2. CASE k = s
        BY <2>3, <4>1, <4>2
      <4>3. CASE k # s
        <5>1. g.seen[k] = i.seen[k]
          BY <4>1, <4>3
        <5>2. g.seen[k].user = i.seen[k].user /\ (g.seen[k].got => i.seen[k].got /\ g.seen[k].data = i.seen[k].data)
          BY <5>1, Zenon
        <5> QED
          BY <5>2
      <4> QED
        BY <4>2, <4>3
    <3> QED
      BY <2>1, <2>4, <3>1, <3>2
  <2>7. CASE ~wanted
    <3>1. g.seen = i.seen
      BY <2>5, <2>7
    <3> QED
      <4>1. g.seen \in Seq(Views) /\ Len(g.seen) = s
        BY <2>1, <3>1
      <4>2. ASSUME NEW k \in 1 .. s
            PROVE  /\ g.seen[k].user = i.seen[k].user
                   /\ g.seen[k].got => \/ i.seen[k].got /\ g.seen[k].data = i.seen[k].data
                                       \/ k = s /\ g.seen[k].data = gps.encrypted[n]
        <5>1. g.seen[k].user = i.seen[k].user /\ (g.seen[k].got => i.seen[k].got /\ g.seen[k].data = i.seen[k].data)
          BY <3>1, Zenon
        <5> QED
          BY <5>1
      <4> QED
        BY <4>1, <4>2
  <2> QED
    BY <2>6, <2>7
<1>9. IsImport(g)
  BY <1>2, <1>7, <1>8 DEF IsImport
<1>10. SeenBy(g)
  <2>1. Len(g.seen) <= Len(gps.attempts)
    BY <1>1, <1>8
  <2>2. ASSUME NEW k \in 1 .. s
        PROVE  g.seen[k].user = gps.attempts[k].user /\ (g.seen[k].got => g.seen[k].data = gps.attempts[k].data)
    <3>1. i.seen[k].user = gps.attempts[k].user /\ (i.seen[k].got => i.seen[k].data = gps.attempts[k].data)
      BY <1>2 DEF SeenBy, s
    <3> QED
      BY <1>6, <1>8, <3>1
  <2> QED
    BY <1>8, <2>1, <2>2 DEF SeenBy
<1>11. Expected(g) = n + 1
  <2>1. Expected(g) = 2 * s + 1
    BY <1>7, <1>8 DEF Expected
  <2> QED
    BY <1>1, <2>1
<1>12. g.validates => g.hash = SubSeq(gps.hash, 1, g.pos - Expected(g) - 2) /\ g.finalHash = gps.hash
  <2> SUFFICES ASSUME i.validates
               PROVE  g.hash = SubSeq(gps.hash, 1, g.pos - Expected(g) - 2) /\ g.finalHash = gps.hash
    BY <1>7
  <2>1. i.hash = SubSeq(gps.hash, 1, i.pos - n - 2) /\ i.finalHash = gps.hash
    BY <1>2 DEF Reads, n
  <2>2. g.hash = i.hash \o gps.encrypted[n]
    BY <1>7 DEF Hashed
  <2> QED
    <3>1. g.pos = q /\ Expected(g) = n + 1
      BY <1>3, <1>7, <1>11
    <3>2. g.hash = SubSeq(gps.hash, 1, g.pos - Expected(g) - 2)
      BY <1>4, <2>1, <2>2, <3>1, Zenon
    <3> QED
      BY <1>7, <2>1, <3>2
<1>13. Reads(g)
  BY <1>3, <1>2, <1>4, <1>7, <1>9, <1>10, <1>11, <1>12 DEF Reads
<1> QED
  BY <1>5, <1>7, <1>13 DEF MayGet, g

\* So does one that skips it.
LEMMA SkippedIsRead ==
  ASSUME ExportTypeOK, LaidOut, NEW i, Reads(i), ~i.payloadRead
  PROVE  /\ Reads(Skipped(i)) /\ Skipped(i).payloadRead
         /\ Skipped(i).creds = i.creds /\ Skipped(i).disturbed = i.disturbed
<1>1. CASE i.validates
  <2> DEFINE wanted == FALSE
  <2>1. wanted \in BOOLEAN /\ Skipped(i) = PayloadGotten(i, wanted)
    BY <1>1 DEF Skipped
  <2> HIDE DEF wanted
  <2> QED
    BY <2>1, GottenIsRead
<1>2. CASE ~i.validates
  <2> DEFINE n == Expected(i)
             g == [i EXCEPT !.pos = @ + i.length + 1, !.payloadRead = TRUE]
  <2>1. /\ n \in 1 .. Messages /\ n = 2 * Len(i.seen) /\ Len(i.seen) \in Nat /\ n # Messages + 1
    BY ReaderTypes
  <2>2. /\ i.pos \in FirstMessage .. Len(gps.file) /\ MessageAt(i.pos, n)
        /\ i.length = Len(gps.encrypted[n]) /\ ~i.ended /\ IsImport(i) /\ SeenBy(i) /\ i.phase = "open"
    BY <2>1 DEF Reads, Starts
  <2> HIDE DEF n
  <2>3. i.pos + i.length + 1 \in FirstMessage .. Len(gps.file) /\ Starts(i.pos + i.length + 1, n + 1)
    BY <2>1, <2>2, OverAMessage
  <2>4. /\ DOMAIN g = DOMAIN i /\ g.pos = i.pos + i.length + 1 /\ g.payloadRead = TRUE
        /\ g.hash = i.hash /\ g.seen = i.seen
        /\ g.phase = i.phase /\ g.creds = i.creds /\ g.validates = i.validates /\ g.finalHash = i.finalHash
        /\ g.length = i.length /\ g.ended = i.ended /\ g.disturbed = i.disturbed
    BY <2>2 DEF IsImport
  <2> HIDE DEF g
  <2>5. IsImport(g) /\ SeenBy(g)
    BY <2>2, <2>4 DEF IsImport, SeenBy
  <2>6. Expected(g) = n + 1
    BY <2>1, <2>4 DEF Expected
  <2>7. Reads(g)
    BY <1>2, <2>2, <2>3, <2>4, <2>5, <2>6 DEF Reads
  <2>8. Skipped(i) = g
    BY <1>2 DEF Skipped, g
  <2> QED
    BY <2>4, <2>7, <2>8
<1> QED
  BY <1>1, <1>2

\* A reader that expects a header finds it, or it has seen all.
LEMMA AdvancedIsRead ==
  ASSUME ExportTypeOK, LaidOut, NEW i, Reads(i), i.payloadRead, NEW a, a = Advanced(i)
  PROVE  /\ IsImport(a) /\ SeenBy(a) /\ a.creds = i.creds /\ a.disturbed = i.disturbed
         /\ a.ended => Len(a.seen) = Len(gps.attempts)
         /\ \/ a.phase = "open" /\ Reads(a)
            \/ a.phase = "gone" /\ a.ended
<1> DEFINE n == Expected(i)
           s == Len(i.seen)
<1>1. /\ s \in Nat /\ n = 2 * s + 1 /\ Messages = 2 * Len(gps.attempts) /\ Messages <= Len(gps.encrypted)
      /\ Len(gps.attempts) \in Nat /\ n \in 1 .. Messages + 1 /\ Messages \in Nat
  BY ReaderTypes
<1>2. PICK L \in Nat, p \in Nat : L = Len(gps.file) /\ p = i.pos /\ p \in FirstMessage .. L
  BY LenProperties DEF ExportTypeOK, Reads, FirstMessage
<1>3. IsImport(i) /\ SeenBy(i) /\ i.phase = "open" /\ Starts(p, n)
  BY <1>2 DEF Reads
<1>4. CASE n = Messages + 1
  <2>1. p = L /\ s = Len(gps.attempts)
    BY <1>1, <1>2, <1>3, <1>4 DEF Starts
  <2>2. i.pos <= Len(gps.file) /\ Len(gps.file) - i.pos < HeaderCells
    BY <1>2, <2>1 DEF HeaderCells
  <2>3. CASE i.validates /\ i.hash # i.finalHash
    <3>1. a = [i EXCEPT !.phase = "gone"]
      BY <2>2, <2>3 DEF Advanced
    <3>2. /\ DOMAIN a = DOMAIN i /\ a.phase = "gone" /\ a.seen = i.seen /\ a.ended = i.ended
          /\ a.validates = i.validates /\ a.payloadRead = i.payloadRead
          /\ a.creds = i.creds /\ a.disturbed = i.disturbed
      BY <1>3, <3>1 DEF IsImport
    <3>3. i.ended
      <4> SUFFICES ASSUME ~i.ended PROVE FALSE
        OBVIOUS
      <4>1. i.hash = SubSeq(gps.hash, 1, i.pos - n - 2) /\ i.finalHash = gps.hash
        BY <2>3 DEF Reads
      <4>2. i.pos - n - 2 = Len(gps.hash) /\ Len(gps.hash) \in Nat
        <5>1. Len(gps.hash) = Len(gps.file) - FirstMessage - Messages
          BY DEF LaidOut, AllIsHashed
        <5> QED
          <6>1. PICK H \in Nat : H = Len(gps.hash)
            BY LenProperties DEF ExportTypeOK
          <6>2. H = p - 3 - Messages
            BY <1>2, <2>1, <5>1, <6>1 DEF FirstMessage
          <6>3. p - n - 2 = H
            BY <1>1, <1>4, <6>2
          <6> QED
            BY <1>2, <6>1, <6>3
      <4>3. SubSeq(gps.hash, 1, Len(gps.hash)) = gps.hash
        BY DEF ExportTypeOK
      <4> QED
        BY <2>3, <4>1, <4>2, <4>3
    <3> QED
      BY <1>3, <2>1, <3>2, <3>3 DEF IsImport, SeenBy
  <2>4. CASE ~(i.validates /\ i.hash # i.finalHash)
    <3>1. a = [i EXCEPT !.hash = <<>>, !.ended = TRUE]
      BY <2>2, <2>4 DEF Advanced
    <3>2. /\ DOMAIN a = DOMAIN i /\ a.phase = "open" /\ a.seen = i.seen /\ a.ended = TRUE
          /\ a.validates = i.validates /\ a.payloadRead = i.payloadRead /\ a.pos = i.pos
          /\ a.length = i.length /\ a.finalHash = i.finalHash
          /\ a.creds = i.creds /\ a.disturbed = i.disturbed
      BY <1>3, <3>1 DEF IsImport
    <3>3. IsImport(a)
      BY <1>3, <3>2 DEF IsImport
    <3>4. SeenBy(a)
      BY <1>3, <3>2 DEF SeenBy
    <3>5. Expected(a) = Expected(i)
      BY <3>2 DEF Expected
    <3>6. IsImport(a) /\ SeenBy(a) /\ Expected(a) = Expected(i)
      BY <3>3, <3>4, <3>5
    <3>7. Reads(a)
      BY <1>4, <3>2, <3>6 DEF Reads
    <3> QED
      BY <2>1, <3>2, <3>6, <3>7
  <2> QED
    BY <2>3, <2>4
<1>5. CASE n # Messages + 1
  <2>1. /\ n \in 1 .. Messages /\ n \in 1 .. Len(gps.encrypted) /\ MessageAt(p, n)
        /\ s + 1 \in 1 .. Len(gps.attempts) /\ ~i.ended
    <3>1. n \in 1 .. Messages /\ s + 1 \in 1 .. Len(gps.attempts)
      BY <1>1, <1>5
    <3>2. MessageAt(p, n) /\ ~i.ended
      BY <1>3, <1>5 DEF Starts, Reads
    <3>3. n \in 1 .. Len(gps.encrypted)
      BY <1>1, <3>1, LenProperties DEF ExportTypeOK
    <3> QED
      BY <3>1, <3>2, <3>3
  <2>2. PICK att \in Attempts : att = gps.attempts[s + 1]
    BY <2>1, ElementOfSeq DEF ExportTypeOK
  <2>3. gps.encrypted[n] = <<Header(Len(att.data), att.user)>> /\ gps.encrypted[n + 1] = att.data
    <3>1. 2 * (s + 1) - 1 = n /\ 2 * (s + 1) = n + 1
      BY <1>1
    <3> QED
      BY <2>1, <2>2, <3>1 DEF LaidOut, MessagesAreAttempts
  <2>4. Len(gps.encrypted[n]) = 1
    BY <2>3
  <2>5. PICK q : q = p + 1 + 1
    OBVIOUS
  <2>6. /\ q \in FirstMessage .. Len(gps.file) /\ Starts(q, n + 1)
        /\ SubSeq(gps.hash, 1, p - n - 2) \o gps.encrypted[n] = SubSeq(gps.hash, 1, q - (n + 1) - 2)
    BY <1>2, <2>5, <2>1, <2>4, OverAMessage
  <2>7. Decrypts(p, 1 + 1) /\ PlainAt(p) = gps.encrypted[n]
    BY <1>2, <2>1, <2>4, MessagesDecrypt
  <2> DEFINE header == Header(Len(att.data), att.user)
             view   == [user |-> header.user, length |-> header.length, got |-> FALSE, data |-> <<>>]
  <2>8. /\ "length" \in DOMAIN header /\ header.length = Len(att.data) /\ header.user = att.user
        /\ att.user \in UserData /\ Len(att.data) \in Nat
    BY PayloadsArePlain DEF Header, Attempts
  <2>9. PlainAt(i.pos)[1] = header
    BY <1>2, <2>3, <2>7
  <2>10. ~(Len(gps.file) - i.pos < HeaderCells) /\ Decrypts(i.pos, HeaderCells)
    <3>1. p + 1 + 1 <= L /\ 1 + 1 = HeaderCells
      BY <1>2, <2>5, <2>6 DEF HeaderCells
    <3>2. ~(L - p < HeaderCells)
      BY <1>2, <3>1
    <3> QED
      BY <1>2, <2>7, <3>1, <3>2
  <2>19. ~IsPayload(i.pos)
    <3>1. gps.file[p + 1] = <<n, 1>>
      BY <2>1, <2>4 DEF MessageAt
    <3>2. n % 2 = 1
      <4>1. PICK k \in Nat : n = 2 * k + 1
        BY <1>1
      <4> QED
        BY <4>1
    <3>3. IsPayload(p) <=> n % 2 = 0
      BY <3>1 DEF IsPayload
    <3> QED
      BY <1>2, <3>2, <3>3
  <2> HIDE DEF header
  <2>11. a = [i EXCEPT
                  !.pos = @ + HeaderCells, !.payloadRead = FALSE, !.length = header.length,
                  !.hash = Hashed(i, <<header>>), !.seen = Append(@, view)]
    BY <2>9, <2>10, <2>19 DEF Advanced
  <2> HIDE DEF view
  <2>12. /\ DOMAIN a = DOMAIN i /\ a.pos = q /\ a.payloadRead = FALSE /\ a.length = Len(att.data)
         /\ a.hash = Hashed(i, <<header>>) /\ a.seen = Append(i.seen, view) /\ a.phase = "open"
         /\ a.creds = i.creds /\ a.validates = i.validates /\ a.finalHash = i.finalHash
         /\ a.ended = i.ended /\ a.disturbed = i.disturbed
    <3>1. p + HeaderCells = q
      BY <1>2, <2>5 DEF HeaderCells
    <3> QED
      BY <1>2, <1>3, <2>8, <2>11, <3>1 DEF IsImport
  <2>13. /\ a.seen \in Seq(Views) /\ Len(a.seen) = s + 1
         /\ \A k \in 1 .. s : a.seen[k] = i.seen[k]
         /\ a.seen[s + 1] = view
    <3>1. view \in Views /\ i.seen \in Seq(Views)
      BY <1>3, <2>8 DEF view, Views, IsImport
    <3> QED
      BY <2>12, <3>1, AppendProperties
  <2>14. IsImport(a)
    BY <1>3, <2>12, <2>13 DEF IsImport
  <2>15. SeenBy(a)
    <3>1. Len(a.seen) <= Len(gps.attempts)
      BY <1>1, <2>1, <2>13
    <3>2. ASSUME NEW k \in 1 .. s + 1
          PROVE  a.seen[k].user = gps.attempts[k].user /\ (a.seen[k].got => a.seen[k].data = gps.attempts[k].data)
      <4>1. CASE k \in 1 .. s
        BY <1>3, <2>13, <4>1 DEF SeenBy
      <4>2. CASE k = s + 1
        BY <2>2, <2>8, <2>13, <4>2 DEF view
      <4> QED
        BY <1>1, <4>1, <4>2
    <3> QED
      BY <2>13, <3>1, <3>2 DEF SeenBy
  <2>16. Expected(a) = n + 1 /\ Len(a.seen) > 0
    <3>1. Expected(a) = 2 * (s + 1) + 0
      BY <2>12, <2>13 DEF Expected
    <3> QED
      BY <1>1, <2>13, <3>1
  <2>17. a.validates => a.hash = SubSeq(gps.hash, 1, a.pos - Expected(a) - 2) /\ a.finalHash = gps.hash
    <3> SUFFICES ASSUME i.validates
                 PROVE  a.hash = SubSeq(gps.hash, 1, a.pos - Expected(a) - 2) /\ a.finalHash = gps.hash
      BY <2>12
    <3>1. i.hash = SubSeq(gps.hash, 1, p - n - 2) /\ i.finalHash = gps.hash
      BY <1>2, <2>1 DEF Reads
    <3>2. a.hash = i.hash \o gps.encrypted[n]
      BY <2>3, <2>12 DEF Hashed, header
    <3> QED
      <4>1. a.pos = q /\ Expected(a) = n + 1
        BY <2>12, <2>16
      <4>2. a.hash = SubSeq(gps.hash, 1, a.pos - Expected(a) - 2)
        BY <2>6, <3>1, <3>2, <4>1, Zenon
      <4> QED
        BY <2>12, <3>1, <4>2
  <2>18. Reads(a)
    BY <2>1, <2>3, <2>6, <2>12, <2>14, <2>15, <2>16, <2>17 DEF Reads
  <2> QED
    BY <2>1, <2>12, <2>14, <2>15, <2>18
<1> QED
  BY <1>4, <1>5

Fields == {"phase", "creds", "validates", "pos", "hash", "finalHash", "payloadRead", "length", "seen", "ended",
           "disturbed"}

\* What an untroubled import has seen, and how it has come to its end.
Honest ==
  /\ SeenBy(import) /\ (import.ended => Len(import.seen) = Len(gps.attempts))
  /\ import.phase # "confused"
  /\ import.phase = "gone" => \/ import.ended \/ gps.phase # "finished"
                              \/ ~CheckCredentials(OwnersKey, import.creds)
  /\ import.phase = "open" => Reads(import)

ImportInv ==
  /\ DOMAIN import = Fields
  /\ gps.phase = "writing" => import.phase = "none"
  /\ import.phase = "none" => import = NewImport
  /\ OwnersOpen
  /\ Untroubled => Honest

GpsInv == ExportInv /\ ImportInv

\* A step of an open import, in whatever it ends, keeps its credentials.
LEMMA OpenStep ==
  ASSUME GpsInv, UNCHANGED gps, import.phase = "open", NEW a, import' = a,
         DOMAIN a = Fields, a.creds = import.creds, a.phase \in {"open", "gone", "confused"},
         Untroubled' => Untroubled, Untroubled' => Honest'
  PROVE  ImportInv'
<1>1. gps.phase = "finished" /\ CheckCredentials(OwnersKey, import.creds)
  BY DEF GpsInv, ImportInv, OwnersOpen
<1>2. OwnersOpen'
  BY <1>1 DEF OwnersOpen
<1> QED
  BY <1>1, <1>2 DEF ImportInv

\* An untroubled import that is open is a reader.
LEMMA OpenReads ==
  ASSUME GpsInv, import.phase = "open", Untroubled
  PROVE  ExportTypeOK /\ LaidOut /\ Reads(import)
BY DEF GpsInv, ExportInv, ImportInv, Honest, Untroubled

\* With the same file, a reader is the same.
LEMMA ReadsOn ==
  ASSUME UNCHANGED gps, NEW a, import' = a, Reads(a)
  PROVE  Reads(import)' /\ SeenBy(import)' /\ IsImport(a)
<1>1. SeenBy(a) /\ IsImport(a)
  BY DEF Reads
<1>2. SeenBy(import)'
  BY <1>1 DEF SeenBy
<1>3. IsImport(import)'
  BY <1>1 DEF IsImport
<1>4. Starts(a.pos, Expected(a)) /\ a.pos \in FirstMessage .. Len(gps.file) /\ a.phase = "open"
  BY DEF Reads
<1>5. Starts(import.pos, Expected(import))'
  BY <1>4 DEF Starts, MessageAt, Messages, Expected
<1>6. ~a.payloadRead => Len(a.seen) > 0 /\ a.length = Len(gps.encrypted[Expected(a)])
  BY DEF Reads
<1>7. a.ended => a.payloadRead /\ Expected(a) = Messages + 1
  BY DEF Reads
<1>8. /\ a.validates => a.finalHash = gps.hash
      /\ a.validates /\ ~a.ended => a.hash = SubSeq(gps.hash, 1, a.pos - Expected(a) - 2)
  BY DEF Reads
<1>9. Expected(import)' = Expected(a) /\ Messages' = Messages
  BY DEF Expected, Messages
<1> QED
  BY <1>1, <1>2, <1>3, <1>4, <1>5, <1>6, <1>7, <1>8, <1>9 DEF Reads

\* Nothing is opened but a whole header, by the owner.
LEMMA ImportOpens ==
  ASSUME GpsInv, NEW creds \in AllCredentials, NEW validates \in BOOLEAN, Import(creds, validates)
  PROVE  GpsInv'
<1>1. ExportTypeOK /\ FileIsBegun /\ (~gps.failed => LaidOut) /\ gps.phase # "writing" /\ UNCHANGED gps
  BY DEF GpsInv, ExportInv, Import
<1>2. ExportInv'
  BY <1>1, ExportStep DEF GpsInv, GpsNext
<1> DEFINE opens == CheckCredentials(OwnersKey, creds) /\ Decrypts(1, HeaderCells)
<1>3. PICK L \in Nat, N \in Nat : L = Len(gps.file) /\ N = Len(gps.encrypted)
  BY <1>1, LenProperties DEF ExportTypeOK
<1>4. Decrypts(1, HeaderCells) => gps.phase = "finished"
  <2> SUFFICES ASSUME Decrypts(1, HeaderCells), gps.phase # "finished" PROVE FALSE
    OBVIOUS
  <2>1. gps.file[3] = <<0, 0>>
    BY <1>1 DEF FileIsBegun, Blank, FirstMessage
  <2> DEFINE w == SubSeq(gps.file, 2, 3)
  <2>2. Window(1, HeaderCells) = w
    BY DEF Window, HeaderCells
  <2>3. Len(w) = 2 /\ w[2] = gps.file[3]
    <3>1. \A k \in 2 .. 3 : gps.file[k] \in Cells
      BY <1>1, <1>3, ElementOfSeq DEF ExportTypeOK, FileIsBegun, FirstMessage
    <3>2. /\ Len(w) = IF 2 <= 3 THEN 3 - 2 + 1 ELSE 0
          /\ \A k \in 1 .. 3 - 2 + 1 : w[k] = gps.file[2 + k - 1]
      BY <3>1, SubSeqProperties
    <3> HIDE DEF w
    <3>3. w[2] = gps.file[2 + 2 - 1]
      BY <3>2
    <3> QED
      BY <3>2, <3>3
  <2> HIDE DEF w
  <2>4. Last(w)[1] = 0
    BY <2>1, <2>3 DEF Last
  <2>5. 0 \in DOMAIN gps.encrypted
    BY <2>2, <2>4 DEF Decrypts, Opens
  <2> QED
    BY <1>1, <2>5, LenProperties DEF ExportTypeOK
<1>5. CASE ~opens
  <2>1. import' = [NewImport EXCEPT !.phase = "gone", !.creds = creds]
    BY <1>5 DEF Import
  <2>2. /\ DOMAIN import' = Fields /\ import'.phase = "gone" /\ import'.creds = creds
        /\ import'.ended = FALSE /\ import'.seen = <<>> /\ import'.disturbed = FALSE
    BY <2>1 DEF NewImport, Fields
  <2>3. ASSUME ~gps.failed, gps.phase = "finished", CheckCredentials(OwnersKey, creds) PROVE FALSE
    <3>1. /\ MessageAt(1, Messages + 1) /\ Messages + 1 \in 1 .. Len(gps.encrypted)
          /\ gps.encrypted[Messages + 1] = <<[hash |-> gps.hash]>>
      <4>1. Len(gps.encrypted) = Messages + 1 /\ Messages \in Nat
        BY <1>1, <2>3, LenProperties DEF LaidOut, MessagesAreAttempts, Messages, ExportTypeOK
      <4> QED
        BY <1>1, <2>3, <4>1 DEF LaidOut, FileIsHeaded
    <3>2. Decrypts(1, 1 + 1)
      <4>1. Decrypts(1, Len(gps.encrypted[Messages + 1]) + 1)
        BY <1>1, <3>1, MessagesDecrypt
      <4> QED
        BY <3>1, <4>1
    <3> QED
      BY <1>5, <2>3, <3>2 DEF HeaderCells
  <2>4. Untroubled' => Honest'
    <3>1. SeenBy(import)'
      BY <1>1, <2>2, LenProperties DEF SeenBy, ExportTypeOK
    <3>2. Untroubled' => ~gps.failed
      BY <1>1 DEF Untroubled
    <3> QED
      BY <1>1, <2>2, <2>3, <3>1, <3>2 DEF Honest
  <2>5. OwnersOpen'
    BY <2>2 DEF OwnersOpen
  <2> QED
    BY <1>1, <1>2, <2>2, <2>4, <2>5 DEF GpsInv, ImportInv
<1>6. CASE opens
  <2>1. import' = [NewImport EXCEPT
                  !.phase = "open", !.creds = creds, !.validates = validates,
                  !.pos = FirstMessage,
                  !.finalHash = IF validates THEN PlainAt(1)[1].hash ELSE <<>>]
    BY <1>6 DEF Import
  <2>2. /\ DOMAIN import' = Fields /\ import'.phase = "open" /\ import'.creds = creds
        /\ import'.validates = validates /\ import'.pos = FirstMessage /\ import'.hash = <<>>
        /\ import'.finalHash = (IF validates THEN PlainAt(1)[1].hash ELSE <<>>)
        /\ import'.payloadRead = TRUE /\ import'.length = 0
        /\ import'.ended = FALSE /\ import'.seen = <<>> /\ import'.disturbed = FALSE
    BY <2>1 DEF NewImport, Fields
  <2>3. gps.phase = "finished"
    BY <1>4, <1>6
  <2>4. OwnersOpen'
    BY <1>1, <1>6, <2>2, <2>3 DEF OwnersOpen
  <2>5. ASSUME ~gps.failed PROVE Reads(import)' /\ SeenBy(import)'
    <3> DEFINE a == import'
    <3>1. LaidOut /\ Messages \in Nat /\ Len(gps.encrypted) = Messages + 1 /\ MessageAt(1, Messages + 1)
          /\ gps.encrypted[Messages + 1] = <<[hash |-> gps.hash]>>
      <4>1. LaidOut /\ gps.phase = "finished"
        BY <1>1, <2>3, <2>5
      <4>2. Messages \in Nat
        BY <1>1, LenProperties DEF Messages, ExportTypeOK
      <4>3. Len(gps.encrypted) = Messages + 1 /\ Messages \in Nat /\ LaidOut
        BY <4>1, <4>2 DEF LaidOut, MessagesAreAttempts
      <4> QED
        BY <2>3, <4>3 DEF LaidOut, FileIsHeaded
    <3>2. PlainAt(1)[1].hash = gps.hash
      <4>1. Messages + 1 \in 1 .. Len(gps.encrypted)
        BY <3>1
      <4>2. PlainAt(1) = gps.encrypted[Messages + 1]
        BY <1>1, <3>1, <4>1, MessagesDecrypt
      <4> QED
        BY <3>1, <4>2
    <3>3. IsImport(import)'
      <4>1. <<>> \in Seq(Views)
        BY EmptySeq
      <4> QED
        BY <2>2, <4>1 DEF IsImport, Fields
    <3>4. SeenBy(import)'
      BY <1>1, <2>2, LenProperties DEF SeenBy, ExportTypeOK
    <3>5. Expected(import)' = 1
      BY <2>2 DEF Expected
    <3>6. Starts(FirstMessage, 1) /\ FirstMessage \in FirstMessage .. Len(gps.file)
      BY <1>1, <1>3, <3>1 DEF LaidOut, MessagesFollow, FileIsBegun, FirstMessage
    <3>7. Starts(import.pos, Expected(import))' /\ import'.pos \in FirstMessage .. Len(gps'.file)
      BY <1>1, <2>2, <3>5, <3>6 DEF Starts, MessageAt, Messages
    <3>8. SubSeq(gps.hash, 1, 0) = <<>>
      BY SubSeqEmpty
    <3>9. FirstMessage - 1 - 2 = 0
      BY DEF FirstMessage
    <3>10. import'.validates => /\ import'.finalHash = gps'.hash
                                /\ import'.hash = SubSeq(gps'.hash, 1, import'.pos - Expected(import)' - 2)
      BY <1>1, <2>2, <3>2, <3>5, <3>8, <3>9
    <3> QED
      BY <2>2, <3>3, <3>4, <3>7, <3>10 DEF Reads
  <2>6. Untroubled' => Honest'
    <3>1. Untroubled' => ~gps.failed
      BY <1>1 DEF Untroubled
    <3> QED
      BY <2>2, <2>5, <3>1 DEF Honest
  <2> QED
    BY <1>1, <1>2, <2>2, <2>3, <2>4, <2>6 DEF GpsInv, ImportInv
<1> QED
  BY <1>5, <1>6

\* What reading does, whatever it reads, but for the place and the payloads.
LEMMA ReadingKeeps ==
  ASSUME NEW i, DOMAIN i = Fields, i.phase = "open", NEW wanted
  PROVE  /\ DOMAIN PayloadGotten(i, wanted) = Fields /\ PayloadGotten(i, wanted).phase = "open"
         /\ PayloadGotten(i, wanted).creds = i.creds /\ PayloadGotten(i, wanted).disturbed = i.disturbed
         /\ DOMAIN Skipped(i) = Fields /\ Skipped(i).phase = "open"
         /\ Skipped(i).creds = i.creds /\ Skipped(i).disturbed = i.disturbed
         /\ DOMAIN Advanced(i) = Fields /\ Advanced(i).phase \in {"open", "gone", "confused"}
         /\ Advanced(i).creds = i.creds /\ Advanced(i).disturbed = i.disturbed
<1>1. ASSUME NEW w
      PROVE  /\ DOMAIN PayloadGotten(i, w) = Fields /\ PayloadGotten(i, w).phase = "open"
             /\ PayloadGotten(i, w).creds = i.creds /\ PayloadGotten(i, w).disturbed = i.disturbed
  BY DEF PayloadGotten, Fields
<1>2. /\ DOMAIN Skipped(i) = Fields /\ Skipped(i).phase = "open"
      /\ Skipped(i).creds = i.creds /\ Skipped(i).disturbed = i.disturbed
  <2>1. CASE i.validates
    BY <1>1, <2>1 DEF Skipped
  <2>2. CASE ~i.validates
    BY <2>2 DEF Skipped, Fields
  <2> QED
    BY <2>1, <2>2
<1>3. /\ DOMAIN Advanced(i) = Fields /\ Advanced(i).phase \in {"open", "gone", "confused"}
      /\ Advanced(i).creds = i.creds /\ Advanced(i).disturbed = i.disturbed
  <2> DEFINE a1 == [i EXCEPT !.phase = "gone"]
             a2 == [i EXCEPT !.hash = <<>>, !.ended = TRUE]
             a3 == [i EXCEPT !.phase = "confused"]
             header == PlainAt(i.pos)[1]
             a4 == [i EXCEPT
                  !.pos = @ + HeaderCells, !.payloadRead = FALSE, !.length = header.length,
                  !.hash = Hashed(i, <<header>>),
                  !.seen = Append(@, [user |-> header.user, length |-> header.length,
                                      got |-> FALSE, data |-> <<>>])]
  <2>1. \/ Advanced(i) = a1 \/ Advanced(i) = a2 \/ Advanced(i) = a3 \/ Advanced(i) = a4
    BY Zenon DEF Advanced
  <2>2. /\ DOMAIN a1 = Fields /\ a1.phase = "gone" /\ a1.creds = i.creds /\ a1.disturbed = i.disturbed
        /\ DOMAIN a2 = Fields /\ a2.phase = "open" /\ a2.creds = i.creds /\ a2.disturbed = i.disturbed
        /\ DOMAIN a3 = Fields /\ a3.phase = "confused" /\ a3.creds = i.creds /\ a3.disturbed = i.disturbed
    BY DEF Fields
  <2>3. DOMAIN a4 = Fields /\ a4.phase = "open" /\ a4.creds = i.creds /\ a4.disturbed = i.disturbed
    BY DEF Fields
  <2> HIDE DEF a1, a2, a3, a4
  <2> QED
    BY <2>1, <2>2, <2>3
<1> QED
  BY <1>1, <1>2, <1>3

\* The calls of an open import.
LEMMA ReadStep ==
  ASSUME GpsInv, \/ GetCurrentPayload \/ PassCurrentPayload \/ NextPayload
                 \/ \E chunk \in 0..1, k \in 1..2 : CancelGet(chunk, k)
  PROVE  GpsInv'
<1>1. UNCHANGED gps /\ import.phase = "open"
  BY DEF GetCurrentPayload, PassCurrentPayload, NextPayload, CancelGet
<1>2. ExportInv'
  BY ExportStep DEF GpsInv, GpsNext
<1>3. DOMAIN import = Fields
  BY DEF GpsInv, ImportInv
<1>4. PICK a : a = import'
  OBVIOUS
<1>5. ASSUME DOMAIN a = Fields, a.creds = import.creds, a.phase \in {"open", "gone", "confused"},
             a.disturbed = import.disturbed,
             Untroubled => \/ Reads(a)
                           \/ /\ SeenBy(a) /\ a.phase = "gone" /\ a.ended
                              /\ Len(a.seen) = Len(gps.attempts)
      PROVE  GpsInv'
  <2>1. Untroubled' => Untroubled
    BY <1>1, <1>4, <1>5 DEF Untroubled
  <2>2. ASSUME Reads(a) PROVE Honest'
    <3>1. Reads(import)' /\ SeenBy(import)'
      BY <1>1, <1>4, <2>2, ReadsOn
    <3>2. a.ended => Len(a.seen) = Len(gps.attempts)
      <4> SUFFICES ASSUME a.ended PROVE Len(a.seen) = Len(gps.attempts)
        OBVIOUS
      <4>1. 2 * Len(a.seen) + 1 = 2 * Len(gps.attempts) + 1
        BY <2>2 DEF Reads, Expected, Messages
      <4>2. Len(a.seen) \in Nat /\ Len(gps.attempts) \in Nat
        BY <2>2, LenProperties DEF Reads, IsImport, GpsInv, ExportInv, ExportTypeOK
      <4> QED
        BY <4>1, <4>2
    <3>3. a.phase = "open"
      BY <2>2 DEF Reads
    <3> QED
      BY <1>1, <1>4, <3>1, <3>2, <3>3 DEF Honest
  <2>3. ASSUME SeenBy(a), a.phase = "gone", a.ended, Len(a.seen) = Len(gps.attempts) PROVE Honest'
    BY <1>1, <1>4, <2>3 DEF Honest, SeenBy
  <2>4. Untroubled' => Honest'
    BY <1>5, <2>1, <2>2, <2>3
  <2>5. ImportInv'
    BY <1>1, <1>4, <1>5, <2>1, <2>4, OpenStep
  <2> QED
    BY <1>2, <2>5 DEF GpsInv
<1>6. ASSUME import' = [import EXCEPT !.phase = "gone"], ~Untroubled PROVE GpsInv'
  BY <1>3, <1>4, <1>5, <1>6 DEF Fields
<1>7. CASE GetCurrentPayload
  <2>1. ~import.payloadRead
    BY <1>7 DEF GetCurrentPayload
  <2> DEFINE wanted == TRUE
  <2>2. Untroubled => MayGet(import) /\ Reads(PayloadGotten(import, wanted))
    <3>1. wanted \in BOOLEAN
      OBVIOUS
    <3> HIDE DEF wanted
    <3> QED
      BY <1>1, <2>1, <3>1, OpenReads, GottenIsRead
  <2>3. CASE MayGet(import)
    <3>1. a = PayloadGotten(import, wanted)
      BY <1>4, <1>7, <2>3 DEF GetCurrentPayload
    <3> HIDE DEF wanted
    <3> QED
      BY <1>1, <1>3, <1>5, <2>2, <3>1, ReadingKeeps
  <2>4. CASE ~MayGet(import)
    BY <1>6, <1>7, <2>2, <2>4 DEF GetCurrentPayload, Throws
  <2> QED
    BY <2>3, <2>4
<1>8. CASE PassCurrentPayload
  <2>1. ~import.payloadRead
    BY <1>8 DEF PassCurrentPayload
  <2>2. Untroubled => Reads(Skipped(import)) /\ (import.validates => MayGet(import))
    <3> DEFINE wanted == FALSE
    <3>1. wanted \in BOOLEAN
      OBVIOUS
    <3> HIDE DEF wanted
    <3> QED
      BY <1>1, <2>1, <3>1, OpenReads, GottenIsRead, SkippedIsRead
  <2>3. CASE import.validates /\ ~MayGet(import)
    BY <1>6, <1>8, <2>2, <2>3 DEF PassCurrentPayload, Throws
  <2>4. CASE ~(import.validates /\ ~MayGet(import))
    <3>1. a = Skipped(import)
      BY <1>4, <1>8, <2>4 DEF PassCurrentPayload, Skipped
    <3> QED
      BY <1>1, <1>3, <1>5, <2>2, <3>1, ReadingKeeps
  <2> QED
    BY <2>3, <2>4
<1>9. CASE NextPayload
  <2>1. ASSUME NEW i, DOMAIN i = Fields, i.phase = "open", i.creds = import.creds,
               i.disturbed = import.disturbed, Untroubled => Reads(i) /\ i.payloadRead, a = Advanced(i)
        PROVE  GpsInv'
    <3>1. /\ DOMAIN a = Fields /\ a.creds = import.creds /\ a.phase \in {"open", "gone", "confused"}
          /\ a.disturbed = import.disturbed
      BY <2>1, ReadingKeeps
    <3>2. ASSUME Untroubled
          PROVE  \/ Reads(a)
                 \/ SeenBy(a) /\ a.phase = "gone" /\ a.ended /\ Len(a.seen) = Len(gps.attempts)
      <4>1. ExportTypeOK /\ LaidOut
        BY <1>1, <3>2, OpenReads
      <4> QED
        BY <2>1, <3>2, <4>1, AdvancedIsRead
    <3> QED
      BY <1>5, <3>1, <3>2
  <2>2. CASE import.payloadRead
    <3>1. a = Advanced(import)
      BY <1>4, <1>9, <2>2 DEF NextPayload
    <3> QED
      BY <1>1, <1>3, <2>1, <2>2, <3>1, OpenReads
  <2>3. CASE ~import.payloadRead
    <3>1. Untroubled => /\ Reads(Skipped(import)) /\ Skipped(import).payloadRead
                        /\ MayGet(import)
      <4> DEFINE wanted == FALSE
      <4>1. wanted \in BOOLEAN
        OBVIOUS
      <4> HIDE DEF wanted
      <4> QED
        BY <1>1, <2>3, <4>1, OpenReads, GottenIsRead, SkippedIsRead
    <3>2. CASE import.validates /\ ~MayGet(import)
      BY <1>6, <1>9, <2>3, <3>1, <3>2 DEF NextPayload, Throws
    <3>3. CASE ~(import.validates /\ ~MayGet(import))
      <4>1. a = Advanced(Skipped(import))
        BY <1>4, <1>9, <2>3, <3>3 DEF NextPayload
      <4>2. /\ DOMAIN Skipped(import) = Fields /\ Skipped(import).phase = "open"
            /\ Skipped(import).creds = import.creds /\ Skipped(import).disturbed = import.disturbed
        BY <1>1, <1>3, ReadingKeeps
      <4> QED
        BY <2>1, <3>1, <4>1, <4>2
    <3> QED
      BY <3>2, <3>3
  <2> QED
    BY <2>2, <2>3
<1>10. CASE \E chunk \in 0..1, k \in 1..2 : CancelGet(chunk, k)
  <2>1. PICK chunk \in 0..1, k \in 1..2 : CancelGet(chunk, k)
    BY <1>10
  <2>2. import' = [import EXCEPT
           !.pos = @ + PassedBy(k, import.length, chunk), !.disturbed = TRUE,
           !.hash = Hashed(import, SubSeq(PlainAt(import.pos), 1, PassedBy(k, import.length, chunk)))]
    BY <2>1 DEF CancelGet
  <2>3. DOMAIN a = Fields /\ a.creds = import.creds /\ a.phase = "open" /\ a.disturbed = TRUE
    BY <1>1, <1>3, <1>4, <2>2 DEF Fields
  <2>4. ~Untroubled'
    BY <1>4, <2>3 DEF Untroubled
  <2> QED
    BY <1>1, <1>2, <1>4, <2>3, <2>4, OpenStep DEF GpsInv
<1> QED
  BY <1>7, <1>8, <1>9, <1>10

\* The invariant is kept by every step, and holds at first.
LEMMA GpsInductive ==
  ASSUME GpsInv, [GpsNext]_gpsVars
  PROVE  GpsInv'
<1>1. ExportInv'
  BY ExportStep DEF GpsInv
<1>2. ASSUME gps.phase = "writing", UNCHANGED import PROVE GpsInv'
  <2>1. import = NewImport /\ import' = NewImport
    BY <1>2 DEF GpsInv, ImportInv
  <2>2. /\ DOMAIN import' = Fields /\ import'.phase = "none" /\ import'.seen = <<>>
        /\ import'.ended = FALSE
    BY <2>1 DEF NewImport, Fields
  <2>3. SeenBy(import)'
    BY <1>1, <2>2, LenProperties DEF SeenBy, ExportInv, ExportTypeOK
  <2>4. Honest'
    BY <2>2, <2>3 DEF Honest
  <2> QED
    BY <1>1, <2>1, <2>2, <2>4 DEF GpsInv, ImportInv, OwnersOpen
<1>3. CASE \/ \E data \in Payloads, user \in UserData : AppendPayload(data, user)
           \/ \E data, again \in Payloads, chunk \in 0..1, k1, k2 \in 0..2 :
                AppendPayloadFile(data, again, CHOOSE u \in UserData : TRUE, chunk, k1, k2)
           \/ Finish
  <2>1. ASSUME NEW data, NEW user, AppendPayload(data, user) PROVE gps.phase = "writing" /\ UNCHANGED import
    BY <2>1 DEF AppendPayload, Written
  <2>2. ASSUME NEW data, NEW again, NEW user, NEW chunk, NEW k1, NEW k2,
               AppendPayloadFile(data, again, user, chunk, k1, k2)
        PROVE  gps.phase = "writing" /\ UNCHANGED import
    BY <2>2 DEF AppendPayloadFile, Written
  <2>3. Finish => gps.phase = "writing" /\ UNCHANGED import
    BY DEF Finish
  <2> QED
    BY <1>2, <1>3, <2>1, <2>2, <2>3
<1>4. CASE \E creds \in AllCredentials, validates \in BOOLEAN : Import(creds, validates)
  BY <1>4, ImportOpens
<1>5. CASE \/ GetCurrentPayload \/ PassCurrentPayload \/ NextPayload
           \/ \E chunk \in 0..1, k \in 1..2 : CancelGet(chunk, k)
  BY <1>5, ReadStep
<1>6. CASE UNCHANGED gpsVars
  <2>1. UNCHANGED gps /\ UNCHANGED import
    BY <1>6 DEF gpsVars
  <2>2. Reads(import) => Reads(import)'
    <3>1. PICK a : a = import /\ a = import'
      BY <2>1
    <3> QED
      BY <2>1, <3>1, ReadsOn
  <2>3. Honest => Honest'
    <3>1. SeenBy(import) => SeenBy(import)'
      BY <2>1 DEF SeenBy
    <3> QED
      BY <2>1, <2>2, <3>1 DEF Honest
  <2>4. ImportInv'
    BY <2>1, <2>3 DEF GpsInv, ImportInv, OwnersOpen, Untroubled
  <2> QED
    BY <1>1, <2>4 DEF GpsInv
<1> QED
  BY <1>3, <1>4, <1>5, <1>6 DEF GpsNext

\* GPSFile_Export has only begun the file.
LEMMA GpsInitially ==
  ASSUME GpsInit
  PROVE  GpsInv
<1>1. gps = [phase |-> "writing", file |-> <<Blank, Blank, Blank>>, hash |-> <<>>, encrypted |-> <<>>,
            attempts |-> <<>>, failed |-> FALSE]
  BY DEF GpsInit
<1>2. /\ DOMAIN gps = {"phase", "file", "hash", "encrypted", "attempts", "failed"}
      /\ gps.phase = "writing" /\ gps.file = <<Blank, Blank, Blank>> /\ gps.hash = <<>>
      /\ gps.encrypted = <<>> /\ gps.attempts = <<>> /\ gps.failed = FALSE
  BY <1>1
<1>3. Blank \in Cells
  BY DEF Blank, Cells
<1>4. /\ <<Blank, Blank, Blank>> \in Seq(Cells) /\ Len(<<Blank, Blank, Blank>>) = 3
      /\ <<Blank, Blank, Blank>>[3] = Blank
  BY <1>3
<1>5. ExportTypeOK
  <2>1. <<>> \in Seq(Hashable) /\ <<>> \in Seq(Plaintexts) /\ <<>> \in Seq(Attempts)
    BY EmptySeq
  <2> QED
    BY <1>2, <1>4, <2>1 DEF ExportTypeOK
<1>6. FileIsBegun
  BY <1>2, <1>4 DEF FileIsBegun, FirstMessage
<1>7. Len(gps.file) = 3 /\ Len(gps.hash) = 0 /\ Len(gps.encrypted) = 0 /\ Len(gps.attempts) = 0
  BY <1>2, <1>4
<1>8. Messages = 0
  BY <1>7 DEF Messages
<1>9. MessagesAreAttempts
  BY <1>2, <1>7, <1>8 DEF MessagesAreAttempts
<1>10. MessagesFollow
  BY <1>7, <1>8 DEF MessagesFollow, Starts, FirstMessage
<1>11. AllIsHashed
  BY <1>7, <1>8 DEF AllIsHashed, FirstMessage
<1>12. FileIsHeaded
  BY <1>2 DEF FileIsHeaded
<1>13. ExportInv
  BY <1>5, <1>6, <1>9, <1>10, <1>11, <1>12 DEF ExportInv, LaidOut
<1>14. /\ import = NewImport /\ DOMAIN import = Fields /\ import.phase = "none" /\ import.seen = <<>>
       /\ import.ended = FALSE
  BY DEF GpsInit, NewImport, Fields
<1>15. Honest
  BY <1>7, <1>14 DEF Honest, SeenBy
<1> QED
  BY <1>13, <1>14, <1>15 DEF GpsInv, ImportInv, OwnersOpen

\* It says what an untroubled import sees.
LEMMA GpsIsHonest ==
  ASSUME GpsInv
  PROVE  OwnersOpen /\ WholeIsImported
<1> SUFFICES ASSUME Untroubled PROVE WholeIsImported
  BY DEF GpsInv, ImportInv, WholeIsImported
<1>1. Honest
  BY DEF GpsInv, ImportInv
<1>2. SeenAreAppended
  BY <1>1 DEF Honest, SeenBy, SeenAreAppended
<1> QED
  BY <1>1, <1>2 DEF Honest, WholeIsImported, SawAll

---------------------------------------------------------------------------
(* Safe files, when something fails: the invariant *)

\* Append j has written the messages 2 * j - 1, its header, and 2 * j.
LengthOf(j) == gps.encrypted[2 * j - 1][1].length
Plain(j)    == gps.encrypted[2 * j]

\* The cells of the file behind its header.
MessageCells == FirstMessage + 1 .. Len(gps.file)

\* The payload of append j was written to its end, and is as long as its header says.
IsThere(j) ==
  /\ \E p \in MessageCells : gps.file[p] = <<2 * j, Len(Plain(j)) + 1>>
  /\ LengthOf(j) = Len(Plain(j))

\* The units of the payload are in the hash h behind the header's, m[j] being what was hashed by
\* the end of append j.
HashedIn(h, m, j) == \A i \in 1 .. Len(Plain(j)) : h[m[j - 1] + 1 + i] = Plain(j)[i]

\* There have been A appends.
AppendsAre(A) ==
  /\ Len(gps.encrypted) = 2 * A + (IF gps.phase = "writing" THEN 0 ELSE 1)
  /\ \A j \in 1 .. A : \E length \in Nat, user \in UserData : gps.encrypted[2 * j - 1] = <<Header(length, user)>>

\* A cell follows the one before it in its message, or starts a later one; a payload starts
\* behind its header.
CellsFollow(A) ==
  /\ \A p \in MessageCells : gps.file[p][1] \in 1 .. 2 * A
  /\ \A p \in MessageCells : p < Len(gps.file) =>
       \/ gps.file[p + 1] = <<gps.file[p][1], gps.file[p][2] + 1>>
       \/ gps.file[p][1] < gps.file[p + 1][1]
  /\ \A p \in MessageCells, j \in 1 .. A :
       gps.file[p] = <<2 * j, 1>> => p - 1 \in MessageCells /\ gps.file[p - 1] = <<2 * j - 1, 2>>

\* What was hashed.  An append hashes its header at least, and more if it was to write a
\* payload of which no cell is there.
Marks(A, m) ==
  /\ m \in [0 .. A -> Nat] /\ m[0] = 0 /\ m[A] = Len(gps.hash)
  /\ \A i, j \in 0 .. A : i < j => m[i] + 1 <= m[j]
  /\ \A j \in 1 .. A : IsThere(j) => m[j] = m[j - 1] + 1 + Len(Plain(j))
  /\ \A j \in 1 .. A, p \in MessageCells :
       /\ gps.file[p] = <<2 * j - 1, 2>> /\ LengthOf(j) >= 1
       /\ p < Len(gps.file) => gps.file[p + 1][1] # 2 * j
       => m[j] >= m[j - 1] + 2

\* Who finds all payloads there and in the hash finds that nothing failed.
FailuresTell(A, m) == (\A j \in 1 .. A : IsThere(j) /\ HashedIn(gps.hash, m, j)) => ~gps.failed

\* A header is whole, or the file is not finished.
HeaderTells(A) ==
  gps.phase = "finished" => /\ gps.file[2] = <<2 * A + 1, 1>> /\ gps.file[3] = <<2 * A + 1, 2>>
                            /\ gps.encrypted[2 * A + 1] = <<[hash |-> gps.hash]>>

Marked(A, m) == AppendsAre(A) /\ CellsFollow(A) /\ Marks(A, m) /\ FailuresTell(A, m) /\ HeaderTells(A)

\* What is known of the messages of an append.
LEMMA AppendTypes ==
  ASSUME ExportTypeOK, NEW A \in Nat, AppendsAre(A), NEW j \in 1 .. A
  PROVE  /\ 2 * j - 1 \in 1 .. Len(gps.encrypted) /\ 2 * j \in 1 .. Len(gps.encrypted)
         /\ LengthOf(j) \in Nat /\ Len(gps.encrypted[2 * j - 1]) = 1
         /\ Plain(j) \in Plaintexts /\ Len(Plain(j)) \in Nat
<1>1. Len(gps.encrypted) \in Nat /\ Len(gps.encrypted) >= 2 * A
  BY DEF AppendsAre
<1>2. 2 * j - 1 \in 1 .. Len(gps.encrypted) /\ 2 * j \in 1 .. Len(gps.encrypted)
  BY <1>1
<1>3. PICK length \in Nat, user \in UserData : gps.encrypted[2 * j - 1] = <<Header(length, user)>>
  BY DEF AppendsAre
<1>4. LengthOf(j) \in Nat /\ Len(gps.encrypted[2 * j - 1]) = 1
  BY <1>3 DEF LengthOf, Header
<1>5. Plain(j) \in Plaintexts
  BY <1>2, ElementOfSeq DEF Plain, ExportTypeOK
<1>6. Len(Plain(j)) \in Nat
  BY <1>5, LenProperties DEF Plaintexts
<1> QED
  BY <1>2, <1>4, <1>5, <1>6

\* The next append hashes h units.
Grown(A, m, h) == [j \in 0 .. A + 1 |-> IF j <= A THEN m[j] ELSE m[A] + h]

\* The appends so far keep what they have written, and the next has its messages.
LEMMA GrownMessages ==
  ASSUME ExportTypeOK, gps.phase = "writing", NEW A \in Nat, AppendsAre(A),
         NEW user \in UserData, NEW data \in Payloads, NEW length \in Nat,
         gps'.phase = "writing", gps'.encrypted = gps.encrypted \o <<<<Header(length, user)>>, data>>
  PROVE  /\ AppendsAre(A + 1)'
         /\ \A j \in 1 .. A : LengthOf(j)' = LengthOf(j) /\ Plain(j)' = Plain(j)
         /\ LengthOf(A + 1)' = length /\ Plain(A + 1)' = data
<1> DEFINE header == <<Header(length, user)>>
           both   == <<header, data>>
<1>1. header \in Plaintexts /\ data \in Plaintexts /\ header[1].length = length
  BY HeadersArePlain, PayloadsArePlain DEF Header
<1>2. both \in Seq(Plaintexts) /\ Len(both) = 2 /\ both[1] = header /\ both[2] = data
  BY <1>1
<1>3. gps.encrypted \in Seq(Plaintexts) /\ Len(gps.encrypted) = 2 * A
  BY DEF ExportTypeOK, AppendsAre
<1>4. gps'.encrypted = gps.encrypted \o both
  OBVIOUS
<1> HIDE DEF both
<1>5. /\ Len(gps'.encrypted) = 2 * A + 2
      /\ \A i \in 1 .. 2 * A : gps'.encrypted[i] = gps.encrypted[i]
      /\ gps'.encrypted[2 * A + 1] = header /\ gps'.encrypted[2 * A + 2] = data
  <2> DEFINE e == gps.encrypted
             P == Plaintexts
  <2>1. e \in Seq(P) /\ both \in Seq(P)
    BY <1>2, <1>3
  <2> HIDE DEF e, P
  <2>2. /\ Len(e \o both) = Len(e) + Len(both)
        /\ \A i \in 1 .. Len(e) : (e \o both)[i] = e[i]
        /\ \A k \in 1 .. Len(both) : (e \o both)[Len(e) + k] = both[k]
    BY <2>1, BothParts
  <2>3. Len(e) = 2 * A /\ gps'.encrypted = e \o both
    BY <1>3, <1>4 DEF e
  <2>4. (e \o both)[2 * A + 1] = both[1] /\ (e \o both)[2 * A + 2] = both[2]
    <3>1. 1 \in 1 .. Len(both) /\ 2 \in 1 .. Len(both)
      BY <1>2
    <3>2. (e \o both)[Len(e) + 1] = both[1] /\ (e \o both)[Len(e) + 2] = both[2]
      BY <2>2, <3>1
    <3> QED
      BY <2>3, <3>2
  <2>5. Len(e \o both) = 2 * A + 2 /\ \A i \in 1 .. 2 * A : (e \o both)[i] = e[i]
    BY <1>2, <2>2, <2>3
  <2> QED
    BY <1>2, <2>3, <2>4, <2>5 DEF e
<1> HIDE DEF header
<1>6. ASSUME NEW j \in 1 .. A PROVE LengthOf(j)' = LengthOf(j) /\ Plain(j)' = Plain(j)
  <2>1. 2 * j - 1 \in 1 .. 2 * A /\ 2 * j \in 1 .. 2 * A
    OBVIOUS
  <2> QED
    BY <1>5, <2>1 DEF LengthOf, Plain
<1>7. LengthOf(A + 1)' = length /\ Plain(A + 1)' = data
  <2>1. 2 * (A + 1) - 1 = 2 * A + 1 /\ 2 * (A + 1) = 2 * A + 2
    OBVIOUS
  <2> QED
    BY <1>1, <1>5, <2>1 DEF LengthOf, Plain
<1>8. AppendsAre(A + 1)'
  <2>1. Len(gps'.encrypted) = 2 * (A + 1) + 0
    BY <1>5
  <2>2. ASSUME NEW j \in 1 .. A + 1
        PROVE  \E l \in Nat, u \in UserData : gps'.encrypted[2 * j - 1] = <<Header(l, u)>>
    <3>1. CASE j = A + 1
      <4>1. 2 * j - 1 = 2 * A + 1
        BY <3>1
      <4> QED
        BY <1>5, <4>1 DEF header
    <3>2. CASE j # A + 1
      <4>1. j \in 1 .. A /\ 2 * j - 1 \in 1 .. 2 * A
        BY <3>2
      <4>2. PICK l \in Nat, u \in UserData : gps.encrypted[2 * j - 1] = <<Header(l, u)>>
        BY <4>1 DEF AppendsAre
      <4> QED
        BY <1>5, <4>1, <4>2
    <3> QED
      BY <3>1, <3>2
  <2> QED
    BY <2>1, <2>2 DEF AppendsAre
<1> QED
  BY <1>6, <1>7, <1>8

\* The file has grown by the first n cells of append A + 1.
FileGrown(A, n) ==
  /\ Len(gps'.file) = Len(gps.file) + n
  /\ \A p \in 1 .. Len(gps.file) : gps'.file[p] = gps.file[p]
  /\ \A k \in 1 .. n : gps'.file[Len(gps.file) + k] =
       IF k <= 2 THEN <<2 * A + 1, k>> ELSE <<2 * A + 2, k - 2>>

\* Then its cells follow each other.
LEMMA GrownFollows ==
  ASSUME ExportTypeOK, FileIsBegun, NEW A \in Nat, NEW n \in Nat, CellsFollow(A), FileGrown(A, n)
  PROVE  CellsFollow(A + 1)'
<1>1. PICK L \in Nat : L = Len(gps.file) /\ L >= 3
  BY LenProperties DEF ExportTypeOK, FileIsBegun, FirstMessage
<1>2. PICK N \in Nat : N = 2 * A /\ 2 * (A + 1) = N + 2
  OBVIOUS
<1>3. PICK f, g : f = gps.file /\ g = gps'.file
  OBVIOUS
<1>4. /\ Len(g) = L + n /\ \A p \in 1 .. L : g[p] = f[p]
      /\ \A k \in 1 .. n : g[L + k] = IF k <= 2 THEN <<N + 1, k>> ELSE <<N + 2, k - 2>>
  BY <1>1, <1>2, <1>3 DEF FileGrown
<1>5. MessageCells = 4 .. L /\ MessageCells' = 4 .. L + n
  BY <1>1, <1>3, <1>4 DEF MessageCells, FirstMessage
<1>6. /\ \A p \in 4 .. L : f[p][1] \in 1 .. N
      /\ \A p \in 4 .. L : p < L => f[p + 1] = <<f[p][1], f[p][2] + 1>> \/ f[p][1] < f[p + 1][1]
      /\ \A p \in 4 .. L, j \in 1 .. A : f[p] = <<2 * j, 1>> => p - 1 \in 4 .. L /\ f[p - 1] = <<2 * j - 1, 2>>
  BY <1>1, <1>2, <1>3, <1>5 DEF CellsFollow
<1>7. ASSUME NEW p \in 4 .. L + n
      PROVE  p \in 4 .. L \/ \E k \in 1 .. n : p = L + k
  <2>1. p \in 4 .. L \/ (p - L \in 1 .. n /\ p = L + (p - L))
    BY <1>1
  <2> QED
    BY <2>1
<1>8. /\ \A p \in 4 .. L : g[p] = f[p]
      /\ n >= 1 => g[L + 1] = <<N + 1, 1>>
      /\ n >= 2 => g[L + 2] = <<N + 1, 2>>
      /\ \A k \in 3 .. n : g[L + k] = <<N + 2, k - 2>>
  <2>1. \A p \in 4 .. L : g[p] = f[p]
    BY <1>1, <1>4
  <2>2. n >= 1 => g[L + 1] = <<N + 1, 1>>
    <3> SUFFICES ASSUME n >= 1 PROVE g[L + 1] = <<N + 1, 1>>
      OBVIOUS
    <3>1. 1 \in 1 .. n /\ 1 <= 2
      OBVIOUS
    <3>2. g[L + 1] = IF 1 <= 2 THEN <<N + 1, 1>> ELSE <<N + 2, 1 - 2>>
      BY <1>4, <3>1
    <3> QED
      BY <3>1, <3>2
  <2>3. n >= 2 => g[L + 2] = <<N + 1, 2>>
    <3> SUFFICES ASSUME n >= 2 PROVE g[L + 2] = <<N + 1, 2>>
      OBVIOUS
    <3>1. 2 \in 1 .. n /\ 2 <= 2
      OBVIOUS
    <3>2. g[L + 2] = IF 2 <= 2 THEN <<N + 1, 2>> ELSE <<N + 2, 2 - 2>>
      BY <1>4, <3>1
    <3> QED
      BY <3>1, <3>2
  <2>4. ASSUME NEW k \in 3 .. n PROVE g[L + k] = <<N + 2, k - 2>>
    <3>1. k \in 1 .. n /\ ~(k <= 2)
      OBVIOUS
    <3> QED
      BY <1>4, <3>1
  <2> QED
    BY <2>1, <2>2, <2>3, <2>4
<1>9. \A k \in 1 .. n : k = 1 \/ k = 2 \/ k \in 3 .. n
  OBVIOUS
<1>10. \A p \in 4 .. L + n : g[p][1] \in 1 .. N + 2
  <2>1. ASSUME NEW p \in 4 .. L PROVE g[p][1] \in 1 .. N + 2
    BY <1>6, <1>8
  <2>2. ASSUME NEW k \in 1 .. n PROVE g[L + k][1] \in 1 .. N + 2
    <3>1. CASE k <= 2
      <4>1. g[L + k] = <<N + 1, k>>
        BY <1>4, <3>1
      <4> QED
        BY <1>2, <4>1
    <3>2. CASE ~(k <= 2)
      <4>1. g[L + k] = <<N + 2, k - 2>>
        BY <1>4, <3>2
      <4> QED
        BY <1>2, <4>1
    <3> QED
      BY <3>1, <3>2
  <2> QED
    BY <1>7, <2>1, <2>2
<1>11. ASSUME NEW p \in 4 .. L + n, p < L + n
       PROVE  g[p + 1] = <<g[p][1], g[p][2] + 1>> \/ g[p][1] < g[p + 1][1]
  <2>1. CASE p \in 4 .. L /\ p < L
    <3>1. p + 1 \in 4 .. L
      BY <1>1, <2>1
    <3> QED
      BY <1>6, <1>8, <2>1, <3>1
  <2>2. CASE p \in 4 .. L /\ p = L
    <3>1. n >= 1
      BY <1>1, <1>11, <2>2
    <3>2. g[p + 1] = <<N + 1, 1>> /\ g[p] = f[p]
      BY <1>8, <2>2, <3>1
    <3> QED
      BY <1>6, <2>2, <3>2
  <2>3. ASSUME NEW k \in 1 .. n, p = L + k
        PROVE  g[p + 1] = <<g[p][1], g[p][2] + 1>> \/ g[p][1] < g[p + 1][1]
    <3>1. k + 1 \in 1 .. n /\ p + 1 = L + (k + 1)
      <4>1. p = L + k /\ p < L + n /\ L \in Nat /\ k \in 1 .. n
        BY <1>1, <1>11, <2>3
      <4> QED
        BY <4>1
    <3>2. CASE k = 1
      <4>1. g[p] = <<N + 1, 1>> /\ g[p + 1] = <<N + 1, 2>>
        BY <1>8, <2>3, <3>1, <3>2
      <4> QED
        BY <4>1
    <3>3. CASE k = 2
      <4>1. 3 \in 3 .. n /\ p + 1 = L + 3
        BY <3>1, <3>3
      <4>2. g[L + 3] = <<N + 2, 3 - 2>>
        BY <1>8, <4>1
      <4>3. g[p] = <<N + 1, 2>> /\ g[p + 1] = <<N + 2, 1>>
        BY <1>8, <2>3, <3>3, <4>1, <4>2
      <4> QED
        BY <4>3
    <3>4. CASE k \in 3 .. n
      <4>1. k + 1 \in 3 .. n
        BY <3>1, <3>4
      <4>2. g[L + (k + 1)] = <<N + 2, (k + 1) - 2>> /\ g[L + k] = <<N + 2, k - 2>>
        BY <1>8, <3>4, <4>1
      <4>3. (k + 1) - 2 = (k - 2) + 1
        OBVIOUS
      <4>4. g[p + 1] = <<N + 2, (k - 2) + 1>> /\ g[p] = <<N + 2, k - 2>>
        BY <2>3, <3>1, <4>2, <4>3
      <4> QED
        BY <4>4
    <3> QED
      BY <1>9, <3>2, <3>3, <3>4
  <2>4. p \in 4 .. L \/ \E k \in 1 .. n : p = L + k
    BY <1>7
  <2>5. p \in 4 .. L => p < L \/ p = L
    BY <1>1
  <2> QED
    BY <2>1, <2>2, <2>3, <2>4, <2>5
<1>12. ASSUME NEW p \in 4 .. L + n, NEW j \in 1 .. A + 1, g[p] = <<2 * j, 1>>
       PROVE  p - 1 \in 4 .. L + n /\ g[p - 1] = <<2 * j - 1, 2>>
  <2>1. CASE p \in 4 .. L
    <3>1. f[p] = <<2 * j, 1>> /\ f[p][1] \in 1 .. N
      BY <1>6, <1>8, <1>12, <2>1
    <3>2. 2 * j \in 1 .. N
      BY <3>1
    <3>3. j \in 1 .. A
      BY <1>2, <3>2
    <3>4. p - 1 \in 4 .. L /\ f[p - 1] = <<2 * j - 1, 2>>
      BY <1>6, <2>1, <3>1, <3>3
    <3>5. g[p - 1] = f[p - 1]
      BY <1>8, <3>4
    <3>6. p - 1 \in 4 .. L + n
      BY <1>1, <3>4
    <3> QED
      BY <3>4, <3>5, <3>6
  <2>2. ASSUME NEW k \in 1 .. n, p = L + k
        PROVE  p - 1 \in 4 .. L + n /\ g[p - 1] = <<2 * j - 1, 2>>
    <3>1. 2 * j # N + 1
      BY <1>2
    <3>2. k \in 3 .. n
      BY <1>8, <1>9, <1>12, <2>2, <3>1
    <3>3. g[p] = <<N + 2, k - 2>>
      BY <1>8, <2>2, <3>2
    <3>4. 2 * j = N + 2 /\ k - 2 = 1
      BY <1>12, <3>3
    <3>5. k = 3 /\ n >= 2 /\ p - 1 = L + 2 /\ 2 * j - 1 = N + 1
      BY <1>1, <2>2, <3>4
    <3>6. p - 1 \in 4 .. L + n
      BY <1>1, <3>5
    <3> QED
      BY <1>8, <3>5, <3>6
  <2> QED
    BY <1>7, <2>1, <2>2
<1>13. /\ \A p \in MessageCells' : gps'.file[p][1] \in 1 .. 2 * (A + 1)
       /\ \A p \in MessageCells' : p < Len(gps'.file) =>
            \/ gps'.file[p + 1] = <<gps'.file[p][1], gps'.file[p][2] + 1>>
            \/ gps'.file[p][1] < gps'.file[p + 1][1]
       /\ \A p \in MessageCells', j \in 1 .. A + 1 :
            gps'.file[p] = <<2 * j, 1>> => p - 1 \in MessageCells' /\ gps'.file[p - 1] = <<2 * j - 1, 2>>
  BY <1>2, <1>3, <1>4, <1>5, <1>10, <1>11, <1>12
<1> QED
  BY <1>13 DEF CellsFollow

\* What of an append, of which n cells are written, makes up the hash: the header, or more, and
\* just the payload if it is all there and nothing failed.
Tells(length, data, n, hashed, failed) ==
  /\ Len(hashed) >= 1
  /\ n = 2 /\ length >= 1 => Len(hashed) >= 2
  /\ n = Len(data) + 3 /\ length = Len(data) =>
       /\ Len(hashed) = 1 + Len(data)
       /\ (\A i \in 1 .. Len(data) : hashed[1 + i] = data[i]) => ~failed

\* The payloads that are there were there, but for the one of the next append, all of it.
LEMMA GrownThere ==
  ASSUME ExportTypeOK, FileIsBegun, gps.phase = "writing", NEW A \in Nat, AppendsAre(A), CellsFollow(A),
         NEW user \in UserData, NEW data \in Payloads, NEW length \in Nat, NEW n \in 0 .. Len(data) + 3,
         gps'.phase = "writing", gps'.encrypted = gps.encrypted \o <<<<Header(length, user)>>, data>>,
         FileGrown(A, n)
  PROVE  /\ \A j \in 1 .. A : IsThere(j)' => IsThere(j)
         /\ IsThere(A + 1)' => n = Len(data) + 3 /\ length = Len(data)
<1>1. PICK L \in Nat : L = Len(gps.file) /\ L >= 3
  BY LenProperties DEF ExportTypeOK, FileIsBegun, FirstMessage
<1>2. PICK D \in Nat : D = Len(data)
  BY PayloadsArePlain
<1>3. PICK f, g : f = gps.file /\ g = gps'.file
  OBVIOUS
<1>4. n \in Nat /\ n <= D + 3
  BY <1>2
<1>5. /\ Len(g) = L + n /\ \A p \in 1 .. L : g[p] = f[p]
      /\ \A k \in 1 .. n : g[L + k] = IF k <= 2 THEN <<2 * A + 1, k>> ELSE <<2 * A + 2, k - 2>>
  BY <1>1, <1>3 DEF FileGrown
<1>6. MessageCells = 4 .. L /\ MessageCells' = 4 .. L + n
  BY <1>1, <1>3, <1>5 DEF MessageCells, FirstMessage
<1>7. \A p \in 4 .. L : f[p][1] \in 1 .. 2 * A
  BY <1>3, <1>6 DEF CellsFollow
<1>8. /\ \A j \in 1 .. A : LengthOf(j)' = LengthOf(j) /\ Plain(j)' = Plain(j)
      /\ LengthOf(A + 1)' = length /\ Plain(A + 1)' = data
  BY GrownMessages
<1>9. ASSUME NEW p \in 4 .. L + n
      PROVE  p \in 4 .. L \/ \E k \in 1 .. n : p = L + k
  <2>1. p \in 4 .. L \/ (p - L \in 1 .. n /\ p = L + (p - L))
    BY <1>1, <1>4
  <2> QED
    BY <2>1
<1>10. ASSUME NEW j \in 1 .. A, IsThere(j)' PROVE IsThere(j)
  <2>1. PICK p \in 4 .. L + n : g[p] = <<2 * j, Len(Plain(j)) + 1>>
    BY <1>3, <1>6, <1>8, <1>10 DEF IsThere
  <2>2. LengthOf(j) = Len(Plain(j))
    BY <1>8, <1>10 DEF IsThere
  <2>3. ASSUME NEW k \in 1 .. n, p = L + k PROVE FALSE
    <3>1. g[L + k][1] = 2 * j
      BY <2>1, <2>3
    <3>2. g[L + k][1] = 2 * A + 1 \/ g[L + k][1] = 2 * A + 2
      <4>1. CASE k <= 2
        <5>1. g[L + k] = <<2 * A + 1, k>>
          BY <1>5, <4>1
        <5> QED
          BY <5>1
      <4>2. CASE ~(k <= 2)
        <5>1. g[L + k] = <<2 * A + 2, k - 2>>
          BY <1>5, <4>2
        <5> QED
          BY <5>1
      <4> QED
        BY <4>1, <4>2
    <3> QED
      BY <3>1, <3>2
  <2>4. p \in 4 .. L
    BY <1>9, <2>3
  <2>5. f[p] = <<2 * j, Len(Plain(j)) + 1>>
    BY <1>1, <1>5, <2>1, <2>4
  <2> QED
    BY <1>3, <1>6, <2>2, <2>4, <2>5 DEF IsThere
<1>11. ASSUME IsThere(A + 1)' PROVE n = Len(data) + 3 /\ length = Len(data)
  <2>1. PICK p \in 4 .. L + n : g[p] = <<2 * (A + 1), D + 1>>
    BY <1>2, <1>3, <1>6, <1>8, <1>11 DEF IsThere
  <2>2. length = Len(data)
    BY <1>8, <1>11 DEF IsThere
  <2>3. p \notin 4 .. L
    <3> SUFFICES ASSUME p \in 4 .. L PROVE FALSE
      OBVIOUS
    <3>1. f[p] = <<2 * (A + 1), D + 1>> /\ f[p][1] \in 1 .. 2 * A
      BY <1>1, <1>5, <1>7, <2>1
    <3>2. 2 * (A + 1) \in 1 .. 2 * A
      BY <3>1
    <3> QED
      BY <3>2
  <2>4. PICK k \in 1 .. n : p = L + k
    BY <1>9, <2>3
  <2>5. ~(k <= 2)
    <3> SUFFICES ASSUME k <= 2 PROVE FALSE
      OBVIOUS
    <3>1. g[p] = <<2 * A + 1, k>>
      BY <1>5, <2>4
    <3>2. 2 * A + 1 = 2 * (A + 1)
      BY <2>1, <3>1
    <3> QED
      BY <3>2
  <2>6. g[p] = <<2 * A + 2, k - 2>>
    BY <1>5, <2>4, <2>5
  <2>7. k - 2 = D + 1
    BY <2>1, <2>6
  <2>8. n = D + 3
    BY <1>4, <2>7
  <2> QED
    BY <1>2, <2>2, <2>8
<1> QED
  BY <1>10, <1>11

\* The hash has grown as well.
LEMMA GrownMarks ==
  ASSUME ExportTypeOK, FileIsBegun, gps.phase = "writing", NEW A \in Nat, NEW m, Marked(A, m),
         NEW user \in UserData, NEW data \in Payloads, NEW length \in Nat, NEW n \in 0 .. Len(data) + 3,
         NEW hashed \in Seq(Hashable), NEW failed \in BOOLEAN, Tells(length, data, n, hashed, failed),
         gps'.phase = "writing", gps'.encrypted = gps.encrypted \o <<<<Header(length, user)>>, data>>,
         FileGrown(A, n), gps'.hash = gps.hash \o hashed, gps'.failed <=> gps.failed \/ failed
  PROVE  Marked(A + 1, Grown(A, m, Len(hashed)))'
<1> DEFINE M == Grown(A, m, Len(hashed))
<1>1. PICK L \in Nat : L = Len(gps.file) /\ L >= 3
  BY LenProperties DEF ExportTypeOK, FileIsBegun, FirstMessage
<1>2. PICK D \in Nat : D = Len(data)
  BY PayloadsArePlain
<1>3. PICK f, g : f = gps.file /\ g = gps'.file
  OBVIOUS
<1>4. n \in Nat /\ n <= D + 3
  BY <1>2
<1>5. /\ Len(g) = L + n /\ \A p \in 1 .. L : g[p] = f[p]
      /\ \A k \in 1 .. n : g[L + k] = IF k <= 2 THEN <<2 * A + 1, k>> ELSE <<2 * A + 2, k - 2>>
  BY <1>1, <1>3 DEF FileGrown
<1>6. MessageCells = 4 .. L /\ MessageCells' = 4 .. L + n
  BY <1>1, <1>3, <1>5 DEF MessageCells, FirstMessage
<1>7. AppendsAre(A) /\ CellsFollow(A) /\ Marks(A, m) /\ FailuresTell(A, m)
  BY DEF Marked
<1>8. \A p \in 4 .. L : f[p][1] \in 1 .. 2 * A
  BY <1>3, <1>6, <1>7 DEF CellsFollow
<1>9. /\ AppendsAre(A + 1)'
      /\ \A j \in 1 .. A : LengthOf(j)' = LengthOf(j) /\ Plain(j)' = Plain(j)
      /\ LengthOf(A + 1)' = length /\ Plain(A + 1)' = data
  BY <1>7, GrownMessages
<1>10. CellsFollow(A + 1)'
  BY <1>4, <1>7, GrownFollows
<1>11. /\ \A j \in 1 .. A : IsThere(j)' => IsThere(j)
       /\ IsThere(A + 1)' => n = D + 3 /\ length = D
  BY <1>2, <1>7, GrownThere
<1>12. PICK H \in Nat, h \in Nat : H = Len(gps.hash) /\ h = Len(hashed)
  BY LenProperties DEF ExportTypeOK
<1>13. H \in Nat /\ h \in Nat /\ D \in Nat
  BY <1>2, <1>12
<1>14. /\ Len(gps'.hash) = H + h
       /\ \A i \in 1 .. H : gps'.hash[i] = gps.hash[i]
       /\ \A k \in 1 .. h : gps'.hash[H + k] = hashed[k]
  <2>1. gps.hash \in Seq(Hashable)
    BY DEF ExportTypeOK
  <2>2. PICK s : s = gps.hash
    OBVIOUS
  <2>3. /\ Len(s \o hashed) = Len(s) + Len(hashed)
        /\ \A i \in 1 .. Len(s) : (s \o hashed)[i] = s[i]
        /\ \A k \in 1 .. Len(hashed) : (s \o hashed)[Len(s) + k] = hashed[k]
    BY <2>1, <2>2, BothParts
  <2>4. s \o hashed = gps'.hash
    BY <2>2
  <2> QED
    BY <1>12, <2>2, <2>3, <2>4
<1>15. /\ m \in [0 .. A -> Nat] /\ m[0] = 0 /\ m[A] = H
       /\ \A i, j \in 0 .. A : i < j => m[i] + 1 <= m[j]
       /\ \A j \in 1 .. A : IsThere(j) => m[j] = m[j - 1] + 1 + Len(Plain(j))
  BY <1>7, <1>12 DEF Marks
<1>16. /\ h >= 1 /\ (n = 2 /\ length >= 1 => h >= 2)
       /\ n = D + 3 /\ length = D =>
            h = 1 + D /\ ((\A i \in 1 .. D : hashed[1 + i] = data[i]) => ~failed)
  BY <1>2, <1>12 DEF Tells
<1>17. M = [j \in 0 .. A + 1 |-> IF j <= A THEN m[j] ELSE H + h]
  BY <1>12, <1>15 DEF Grown
<1> HIDE DEF M
<1>18. \A j \in 0 .. A : j \in 0 .. A + 1 /\ M[j] = m[j] /\ m[j] \in Nat /\ m[j] <= H
  <2> SUFFICES ASSUME NEW j \in 0 .. A PROVE j \in 0 .. A + 1 /\ M[j] = m[j] /\ m[j] \in Nat /\ m[j] <= H
    OBVIOUS
  <2>1. j \in 0 .. A + 1 /\ j <= A /\ A \in 0 .. A
    OBVIOUS
  <2>2. m[j] \in Nat
    BY <1>15
  <2>3. M[j] = m[j]
    BY <1>17, <2>1
  <2>4. CASE j = A
    BY <1>15, <2>1, <2>2, <2>3, <2>4
  <2>5. CASE j < A
    <3>1. m[j] + 1 <= m[A]
      BY <1>15, <2>1, <2>5
    <3> QED
      BY <1>15, <2>1, <2>2, <2>3, <3>1
  <2> QED
    BY <2>4, <2>5
<1>19. M[A + 1] = H + h
  <2>1. A + 1 \in 0 .. A + 1 /\ ~(A + 1 <= A)
    OBVIOUS
  <2> QED
    BY <1>17, <2>1
<1>20. \A j \in 0 .. A + 1 : j \in 0 .. A \/ j = A + 1
  OBVIOUS
<1>21. \A j \in 1 .. A + 1 : (j \in 1 .. A /\ j - 1 \in 0 .. A /\ j \in 0 .. A) \/ j = A + 1
  OBVIOUS
<1>22. Marks(A + 1, M)'
  <2>1. M \in [0 .. A + 1 -> Nat]
    <3>1. ASSUME NEW j \in 0 .. A + 1 PROVE M[j] \in Nat
      <4>1. CASE j \in 0 .. A
        BY <1>18, <4>1
      <4>2. CASE j = A + 1
        <5>1. H + h \in Nat
          BY <1>12
        <5> QED
          BY <1>19, <4>2, <5>1
      <4> QED
        BY <1>20, <4>1, <4>2
    <3> QED
      BY <1>17, <3>1
  <2>2. M[0] = 0 /\ M[A + 1] = Len(gps'.hash)
    <3>1. 0 \in 0 .. A
      OBVIOUS
    <3> QED
      BY <1>14, <1>15, <1>18, <1>19, <3>1
  <2>3. ASSUME NEW i \in 0 .. A + 1, NEW j \in 0 .. A + 1, i < j PROVE M[i] + 1 <= M[j]
    <3>1. i \in 0 .. A
      BY <2>3
    <3>2. CASE j \in 0 .. A
      BY <1>15, <1>18, <2>3, <3>1, <3>2
    <3>3. CASE j = A + 1
      <4>1. M[i] = m[i] /\ m[i] \in Nat /\ m[i] <= H
        BY <1>18, <3>1
      <4> QED
        BY <1>12, <1>16, <1>19, <3>3, <4>1
    <3> QED
      BY <1>20, <3>2, <3>3
  <2>4. ASSUME NEW j \in 1 .. A + 1, IsThere(j)' PROVE M[j] = M[j - 1] + 1 + Len(Plain(j)')
    <3>1. CASE j \in 1 .. A
      <4>1. m[j] = m[j - 1] + 1 + Len(Plain(j))
        BY <1>11, <1>15, <2>4, <3>1
      <4>2. j \in 0 .. A /\ j - 1 \in 0 .. A
        BY <3>1
      <4> QED
        BY <1>9, <1>18, <3>1, <4>1, <4>2
    <3>2. CASE j = A + 1
      <4>1. h = 1 + D
        BY <1>11, <1>16, <2>4, <3>2
      <4>2. j - 1 = A /\ A \in 0 .. A
        BY <3>2
      <4>3. M[j] = H + (1 + D) /\ M[j - 1] = H
        BY <1>15, <1>18, <1>19, <3>2, <4>1, <4>2
      <4>4. Len(Plain(j)') = D
        BY <1>2, <1>9, <3>2
      <4>5. H + (1 + D) = H + 1 + D
        BY <1>13
      <4> QED
        BY <4>3, <4>4, <4>5
    <3> QED
      BY <1>21, <3>1, <3>2
  <2>5. ASSUME NEW j \in 1 .. A + 1, NEW p \in 4 .. L + n, g[p] = <<2 * j - 1, 2>>, LengthOf(j)' >= 1,
               p < L + n => g[p + 1][1] # 2 * j
        PROVE  M[j] >= M[j - 1] + 2
    <3>1. CASE p \in 4 .. L
      <4>1. f[p] = <<2 * j - 1, 2>> /\ f[p][1] \in 1 .. 2 * A
        BY <1>1, <1>5, <1>8, <2>5, <3>1
      <4>2. 2 * j - 1 \in 1 .. 2 * A
        BY <4>1
      <4>3. j \in 1 .. A /\ j \in 0 .. A /\ j - 1 \in 0 .. A
        BY <4>2
      <4>4. p < L => f[p + 1][1] # 2 * j
        <5> SUFFICES ASSUME p < L PROVE f[p + 1][1] # 2 * j
          OBVIOUS
        <5>1. p + 1 \in 1 .. L /\ p < L + n
          BY <1>1, <1>4, <3>1
        <5> QED
          BY <1>5, <2>5, <5>1
      <4>5. LengthOf(j) >= 1
        BY <1>9, <2>5, <4>3
      <4>6. m[j] >= m[j - 1] + 2
        BY <1>1, <1>3, <1>6, <1>7, <3>1, <4>1, <4>3, <4>4, <4>5 DEF Marks
      <4> QED
        BY <1>18, <4>3, <4>6
    <3>2. CASE p \notin 4 .. L
      <4>1. PICK k \in 1 .. n : p = L + k
        <5>1. p - L \in 1 .. n /\ p = L + (p - L)
          BY <1>1, <1>4, <3>2
        <5> QED
          BY <5>1
      <4>2. k = 2 /\ j = A + 1
        <5>1. CASE k <= 2
          <6>1. g[p] = <<2 * A + 1, k>>
            BY <1>5, <4>1, <5>1
          <6>2. 2 * A + 1 = 2 * j - 1 /\ k = 2
            BY <2>5, <6>1
          <6> QED
            BY <6>2
        <5>2. CASE ~(k <= 2)
          <6>1. g[p] = <<2 * A + 2, k - 2>>
            BY <1>5, <4>1, <5>2
          <6>2. 2 * A + 2 = 2 * j - 1
            BY <2>5, <6>1
          <6> QED
            BY <6>2
        <5> QED
          BY <5>1, <5>2
      <4>3. n = 2
        <5> SUFFICES ASSUME n # 2 PROVE FALSE
          OBVIOUS
        <5>1. 3 \in 1 .. n /\ ~(3 <= 2) /\ p + 1 = L + 3 /\ p < L + n
          BY <1>1, <1>4, <4>1, <4>2
        <5>2. g[L + 3] = <<2 * A + 2, 3 - 2>>
          BY <1>5, <5>1
        <5>3. g[p + 1][1] = 2 * A + 2
          BY <5>1, <5>2
        <5>4. 2 * j = 2 * A + 2
          BY <4>2
        <5> QED
          BY <2>5, <5>1, <5>3, <5>4
      <4>4. h >= 2
        BY <1>9, <1>16, <2>5, <4>2, <4>3
      <4>5. j - 1 = A /\ A \in 0 .. A
        BY <4>2
      <4>6. M[j] = H + h /\ M[j - 1] = H
        BY <1>15, <1>18, <1>19, <4>2, <4>5
      <4> QED
        BY <1>12, <4>4, <4>6
    <3> QED
      BY <3>1, <3>2
  <2>6. \A j \in 1 .. A + 1, p \in MessageCells' :
          /\ gps'.file[p] = <<2 * j - 1, 2>> /\ LengthOf(j)' >= 1
          /\ p < Len(gps'.file) => gps'.file[p + 1][1] # 2 * j
          => M[j] >= M[j - 1] + 2
    BY <1>3, <1>5, <1>6, <2>5
  <2>7. M' = M
    BY <1>15 DEF M, Grown
  <2> QED
    BY <2>1, <2>2, <2>3, <2>4, <2>6, <2>7 DEF Marks
<1>23. FailuresTell(A + 1, M)'
  <2> SUFFICES ASSUME \A j \in 1 .. A + 1 : IsThere(j)' /\ HashedIn(gps.hash, M, j)'
               PROVE  ~gps'.failed
    BY DEF FailuresTell
  <2>1. M' = M
    BY DEF M, Grown
  <2>2. ASSUME NEW j \in 1 .. A PROVE IsThere(j) /\ HashedIn(gps.hash, m, j)
    <3>1. j \in 1 .. A + 1 /\ j \in 0 .. A /\ j - 1 \in 0 .. A /\ j - 1 < j
      OBVIOUS
    <3>2. IsThere(j)
      BY <1>11, <3>1
    <3>3. PICK P \in Nat : P = Len(Plain(j))
      BY <1>7, AppendTypes
    <3>4. m[j] = m[j - 1] + 1 + P /\ M[j - 1] = m[j - 1] /\ m[j] <= H /\ m[j - 1] \in Nat
      BY <1>15, <1>18, <3>1, <3>2, <3>3
    <3>5. ASSUME NEW i \in 1 .. P PROVE gps.hash[m[j - 1] + 1 + i] = Plain(j)[i]
      <4>1. PICK b \in Nat : b = m[j - 1] /\ b + 1 + P <= H
        BY <3>4
      <4>4. b + 1 + i \in 1 .. H
        <5>1. P \in Nat /\ b \in Nat /\ i \in 1 .. P /\ b + 1 + P <= H
          BY <3>3, <4>1
        <5> QED
          BY <1>13, <5>1
      <4>2. gps'.hash[M[j - 1] + 1 + i] = Plain(j)[i]
        <5>1. HashedIn(gps.hash, M, j)' /\ Plain(j)' = Plain(j)
          BY <1>9, <3>1
        <5> QED
          BY <2>1, <3>3, <5>1 DEF HashedIn
      <4>5. gps'.hash[b + 1 + i] = Plain(j)[i]
        BY <3>4, <4>1, <4>2
      <4> QED
        BY <1>14, <4>1, <4>4, <4>5
    <3> QED
      BY <3>2, <3>3, <3>5 DEF HashedIn
  <2>3. ~gps.failed
    BY <1>7, <2>2 DEF FailuresTell
  <2>4. A + 1 \in 1 .. A + 1 /\ (A + 1) - 1 = A /\ A \in 0 .. A
    OBVIOUS
  <2>5. n = D + 3 /\ length = D
    BY <1>11, <2>4
  <2>6. ASSUME NEW i \in 1 .. D PROVE hashed[1 + i] = data[i]
    <3>1. HashedIn(gps.hash, M, A + 1)' /\ Plain(A + 1)' = data
      BY <1>9, <2>4
    <3>2. M[A] = H
      BY <1>15, <1>18, <2>4
    <3>3. gps'.hash[M[(A + 1) - 1] + 1 + i] = data[i]
      BY <1>2, <2>1, <3>1 DEF HashedIn
    <3>4. gps'.hash[H + (1 + i)] = data[i]
      <4>1. H + 1 + i = H + (1 + i)
        BY <1>13
      <4>2. M[(A + 1) - 1] = H
        BY <2>4, <3>2
      <4> QED
        BY <3>3, <4>1, <4>2
    <3>5. 1 + i \in 1 .. h
      BY <1>16, <2>5
    <3> QED
      BY <1>14, <3>4, <3>5
  <2> QED
    BY <1>16, <2>3, <2>5, <2>6
<1>24. HeaderTells(A + 1)'
  BY DEF HeaderTells
<1>25. Marked(A + 1, M)'
  BY <1>9, <1>10, <1>22, <1>23, <1>24 DEF Marked
<1> QED
  BY <1>25 DEF M

\* What is passed by the end of a chunk is some of what there is.
LEMMA SomeIsPassed ==
  ASSUME NEW length \in Nat, NEW chunk \in 0 .. 1, NEW k \in 1 .. Passes(length, chunk), k \in Nat
  PROVE  PassedBy(k, length, chunk) \in 1 .. length
<1>1. length >= 1
  <2> SUFFICES ASSUME length = 0 PROVE FALSE
    OBVIOUS
  <2>1. Passes(length, chunk) = 0
    BY DEF Passes
  <2> QED
    BY <2>1
<1>2. k * ChunkOf(length, chunk) \in Nat /\ k * ChunkOf(length, chunk) >= 1
  <2>1. k >= 1
    BY <1>1
  <2>2. CASE chunk = 0
    <3>1. ChunkOf(length, chunk) = length
      BY <2>2 DEF ChunkOf
    <3>2. k * length \in Nat /\ k * length >= 1
      BY <1>1, <2>1
    <3> QED
      BY <3>1, <3>2
  <2>3. CASE chunk = 1
    BY <2>1, <2>3 DEF ChunkOf
  <2> QED
    BY <2>2, <2>3
<1>3. PICK n \in Nat : n = k * ChunkOf(length, chunk) /\ n >= 1
  BY <1>2
<1>4. PassedBy(k, length, chunk) = CHOOSE x \in {n, length} : \A y \in {n, length} : x <= y
  BY <1>3 DEF PassedBy, Min
<1>5. \E x \in {n, length} : \A y \in {n, length} : x <= y
  OBVIOUS
<1>6. /\ PassedBy(k, length, chunk) \in {n, length}
      /\ \A y \in {n, length} : PassedBy(k, length, chunk) <= y
  BY <1>4, <1>5
<1> QED
  BY <1>1, <1>3, <1>6

HasMarks == \E A \in Nat : \E m : Marked(A, m)

\* An append that tells.
LEMMA AppendMarks ==
  ASSUME ExportTypeOK, FileIsBegun, HasMarks,
         NEW user \in UserData, NEW data \in Payloads, NEW length \in Nat,
         NEW n \in 0 .. HeaderCells + Len(data) + 1,
         NEW hashed \in Seq(Hashable), NEW attempt \in Attempts, NEW failed \in BOOLEAN,
         Written(Header(length, user), data, n, hashed, attempt, failed),
         Tells(length, data, n, hashed, failed)
  PROVE  HasMarks'
<1>1. gps.phase = "writing" /\ Appended(Header(length, user), data, n, hashed, attempt, failed)
  BY DEF Written, Appended
<1>2. PICK A \in Nat : \E m : Marked(A, m)
  BY DEF HasMarks
<1>3. PICK m : Marked(A, m)
  BY <1>2
<1>4. /\ gps'.phase = "writing" /\ (gps'.failed <=> gps.failed \/ failed)
      /\ gps'.encrypted = gps.encrypted \o <<<<Header(length, user)>>, data>>
      /\ Len(gps'.file) = Len(gps.file) + n
      /\ \A p \in 1 .. Len(gps.file) : gps'.file[p] = gps.file[p]
      /\ \A k \in 1 .. n : gps'.file[Len(gps.file) + k] =
           IF k <= 2 THEN <<Len(gps.encrypted) + 1, k>> ELSE <<Len(gps.encrypted) + 2, k - 2>>
  BY <1>1, AppendIsTyped
<1>5. Len(gps.encrypted) = 2 * A
  BY <1>1, <1>3 DEF Marked, AppendsAre
<1>6. FileGrown(A, n)
  BY <1>4, <1>5 DEF FileGrown
<1>7. gps'.hash = gps.hash \o hashed
  BY <1>1 DEF Appended, ExportTypeOK
<1>8. n \in 0 .. Len(data) + 3
  BY PayloadsArePlain DEF HeaderCells
<1>9. Marked(A + 1, Grown(A, m, Len(hashed)))'
  BY <1>1, <1>3, <1>4, <1>6, <1>7, <1>8, GrownMarks
<1>10. PICK M : M = Grown(A, m, Len(hashed)) /\ M = Grown(A, m, Len(hashed))'
  BY DEF Grown
<1>11. Marked(A + 1, M)'
  BY <1>9, <1>10
<1> QED
  BY <1>11 DEF HasMarks

\* Every append tells.
LEMMA AppendsTell ==
  ASSUME ExportInv, HasMarks,
         \/ \E data \in Payloads, user \in UserData : AppendPayload(data, user)
         \/ \E data, again \in Payloads, chunk \in 0..1, k1, k2 \in 0..2 :
              AppendPayloadFile(data, again, CHOOSE u \in UserData : TRUE, chunk, k1, k2)
  PROVE  HasMarks'
<1>0. ExportTypeOK /\ FileIsBegun
  BY DEF ExportInv
<1>1. ASSUME NEW data \in Payloads, NEW user \in UserData, AppendPayload(data, user)
      PROVE  HasMarks'
  <2> DEFINE header == Header(Len(data), user)
             attempt == [user |-> user, data |-> data]
             all == HeaderCells + Len(data) + 1
             Hashed1(n) == IF n < HeaderCells THEN <<header>> ELSE <<header>> \o data
             failed(n) == n < all
  <2>1. PICK n \in 0 .. all : Written(header, data, n, Hashed1(n), attempt, failed(n))
    BY <1>1 DEF AppendPayload
  <2>2. PICK D \in Nat : D = Len(data) /\ all = D + 3
    BY PayloadsArePlain DEF HeaderCells
  <2>3. attempt \in Attempts /\ failed(n) \in BOOLEAN
    BY DEF Attempts
  <2>4. /\ <<header>> \o data \in Seq(Hashable) /\ Len(<<header>> \o data) = 1 + D
        /\ \A i \in 1 .. D : (<<header>> \o data)[1 + i] = data[i]
        /\ <<header>> \in Seq(Hashable) /\ Len(<<header>>) = 1
    <3> DEFINE s == <<header>>
    <3>1. s \in Seq(Hashable) /\ Len(s) = 1 /\ data \in Seq(Hashable)
      BY <2>2, HeadersArePlain, PayloadsArePlain
    <3> HIDE DEF s
    <3>2. /\ s \o data \in Seq(Hashable) /\ Len(s \o data) = Len(s) + Len(data)
          /\ \A k \in 1 .. Len(data) : (s \o data)[Len(s) + k] = data[k]
      BY <3>1, BothParts
    <3>3. Len(s \o data) = 1 + D /\ \A i \in 1 .. D : (s \o data)[1 + i] = data[i]
      BY <2>2, <3>1, <3>2
    <3> QED
      BY <3>1, <3>2, <3>3 DEF s
  <2>5. Hashed1(n) \in Seq(Hashable)
    BY <2>4
  <2>6. Tells(D, data, n, Hashed1(n), failed(n))
    <3>1. CASE n < 2
      <4>1. Hashed1(n) = <<header>> /\ n # 2 /\ n # D + 3
        BY <2>2, <3>1 DEF HeaderCells
      <4> QED
        BY <2>2, <2>4, <4>1 DEF Tells
    <3>2. CASE ~(n < 2)
      <4>1. Hashed1(n) = <<header>> \o data /\ (n = D + 3 => ~failed(n))
        BY <2>2, <3>2 DEF HeaderCells
      <4> HIDE DEF failed, Hashed1
      <4>2. Len(Hashed1(n)) = 1 + D /\ 1 + D >= 1 /\ (D >= 1 => 1 + D >= 2)
        BY <2>2, <2>4, <4>1
      <4> QED
        BY <2>2, <4>1, <4>2 DEF Tells
    <3> QED
      BY <3>1, <3>2
  <2> DEFINE h == Hashed1(n)
             x == failed(n)
  <2>7. /\ h \in Seq(Hashable) /\ x \in BOOLEAN /\ Tells(D, data, n, h, x)
        /\ Written(Header(D, user), data, n, h, attempt, x)
        /\ n \in 0 .. HeaderCells + Len(data) + 1 /\ D \in Nat
    BY <2>1, <2>2, <2>3, <2>5, <2>6
  <2> HIDE DEF h, x, attempt
  <2> QED
    BY <1>0, <2>3, <2>7, AppendMarks
<1>2. ASSUME NEW data \in Payloads, NEW again \in Payloads, NEW chunk \in 0 .. 1,
             NEW k1 \in 0 .. 2, NEW k2 \in 0 .. 2, NEW user \in UserData,
             AppendPayloadFile(data, again, user, chunk, k1, k2)
      PROVE  HasMarks'
  <2> DEFINE header == Header(Len(data), user)
             attempt == [user |-> user, data |-> again]
  <2>1. PICK D \in Nat, G \in Nat : D = Len(data) /\ G = Len(again)
    BY PayloadsArePlain
  <2>2. attempt \in Attempts /\ data \in Seq(Hashable)
    BY PayloadsArePlain DEF Attempts
  <2>3. ASSUME NEW n \in 0 .. G + 1, NEW units \in Seq(Hashable), NEW failed \in BOOLEAN,
               Written(header, again, HeaderCells + n, <<header>> \o units, attempt, failed),
               n = 0 /\ D >= 1 => Len(units) >= 1,
               n = G + 1 => units = data /\ (again = data => ~failed)
        PROVE  HasMarks'
    <3> DEFINE s == <<header>>
               h == s \o units
               w == HeaderCells + n
    <3>1. s \in Seq(Hashable) /\ Len(s) = 1
      BY <2>1, HeadersArePlain
    <3>2. Len(units) \in Nat
      BY LenProperties
    <3> HIDE DEF s
    <3>3. /\ h \in Seq(Hashable) /\ Len(h) = 1 + Len(units)
          /\ \A i \in 1 .. Len(units) : h[1 + i] = units[i]
      <4>1. /\ s \o units \in Seq(Hashable) /\ Len(s \o units) = Len(s) + Len(units)
            /\ \A k \in 1 .. Len(units) : (s \o units)[Len(s) + k] = units[k]
        BY <3>1, BothParts
      <4> QED
        BY <3>1, <4>1
    <3>4. Written(Header(D, user), again, w, h, attempt, failed) /\ w \in 0 .. HeaderCells + Len(again) + 1
      BY <2>1, <2>3 DEF s, HeaderCells
    <3>5. w = 2 + n /\ n \in Nat
      BY <2>1 DEF HeaderCells
    <3> HIDE DEF h, w
    <3>6. Len(h) >= 1 /\ (w = 2 /\ D >= 1 => Len(h) >= 2)
      BY <2>3, <3>2, <3>3, <3>5
    <3>7. ASSUME w = Len(again) + 3, D = Len(again)
          PROVE  /\ Len(h) = 1 + Len(again)
                 /\ (\A i \in 1 .. Len(again) : h[1 + i] = again[i]) => ~failed
      <4>1. n = G + 1 /\ units = data /\ (again = data => ~failed)
        <5>1. n = G + 1
          BY <2>1, <3>5, <3>7
        <5> QED
          BY <2>3, <5>1
      <4>2. Len(h) = 1 + Len(again)
        BY <2>1, <3>3, <3>7, <4>1
      <4>3. ASSUME \A i \in 1 .. Len(again) : h[1 + i] = again[i] PROVE again = data
        <5>1. \A i \in 1 .. Len(again) : again[i] = data[i]
          BY <2>1, <3>3, <3>7, <4>1, <4>3
        <5>2. again \in Seq(Hashable)
          BY PayloadsArePlain
        <5> QED
          BY <2>1, <2>2, <3>7, <5>1, <5>2, SeqEqual
      <4> QED
        BY <4>1, <4>2, <4>3
    <3>8. Tells(D, again, w, h, failed)
      BY <3>6, <3>7 DEF Tells
    <3> HIDE DEF attempt
    <3> QED
      BY <1>0, <2>1, <2>2, <3>3, <3>4, <3>8, AppendMarks
  <2>4. CASE /\ k1 \in 1 .. Passes(D, chunk)
             /\ Written(header, again, HeaderCells + 0,
                        <<header>> \o SubSeq(data, 1, PassedBy(k1, D, chunk)), attempt, TRUE)
    <3>1. PICK b \in 1 .. D : b = PassedBy(k1, D, chunk)
      <4>1. k1 \in Nat
        OBVIOUS
      <4> QED
        BY <2>1, <2>4, <4>1, SomeIsPassed
    <3>2. \A i \in 1 .. b : data[i] \in Hashable
      BY <2>1, <2>2, <3>1, ElementOfSeq
    <3>3. SubSeq(data, 1, b) \in Seq(Hashable) /\ Len(SubSeq(data, 1, b)) = b
      <4>1. /\ SubSeq(data, 1, b) \in Seq(Hashable)
            /\ Len(SubSeq(data, 1, b)) = IF 1 <= b THEN b - 1 + 1 ELSE 0
        BY <2>1, <3>1, <3>2, SubSeqProperties
      <4> QED
        BY <2>1, <4>1
    <3> DEFINE units == SubSeq(data, 1, b)
               failed == TRUE
               n == 0
    <3>4. Written(header, again, HeaderCells + n, <<header>> \o units, attempt, failed)
      BY <2>4, <3>1
    <3>5. n \in 0 .. G + 1 /\ failed \in BOOLEAN /\ n # G + 1 /\ units \in Seq(Hashable)
      BY <2>1, <3>3
    <3> HIDE DEF units, failed, n
    <3>6. Len(units) >= 1
      <4>1. b >= 1 /\ Len(units) = b
        BY <2>1, <3>1, <3>3 DEF units
      <4> QED
        BY <4>1
    <3> QED
      BY <2>3, <3>4, <3>5, <3>6
  <2>5. CASE /\ k2 \in 1 .. Passes(G, chunk)
             /\ Written(header, again, HeaderCells + PassedBy(k2, G, chunk), <<header>> \o data, attempt, TRUE)
    <3>1. PICK b \in 1 .. G : b = PassedBy(k2, G, chunk)
      <4>1. k2 \in Nat
        OBVIOUS
      <4> QED
        BY <2>1, <2>5, <4>1, SomeIsPassed
    <3> DEFINE failed == TRUE
    <3>2. Written(header, again, HeaderCells + b, <<header>> \o data, attempt, failed)
      BY <2>5, <3>1
    <3>3. b \in 0 .. G + 1 /\ failed \in BOOLEAN /\ b # 0 /\ b # G + 1
      <4>1. G \in Nat /\ b \in 1 .. G
        BY <2>1, <3>1
      <4> QED
        BY <4>1
    <3> HIDE DEF failed
    <3> QED
      BY <2>2, <2>3, <3>2, <3>3
  <2>6. CASE Written(header, again, HeaderCells + (G + 1), <<header>> \o data, attempt, again # data)
    <3> DEFINE failed == again # data
               n == G + 1
    <3>1. /\ n \in 0 .. G + 1 /\ failed \in BOOLEAN /\ n # 0 /\ (again = data => ~failed)
          /\ Written(header, again, HeaderCells + n, <<header>> \o data, attempt, failed)
      BY <2>1, <2>6
    <3> HIDE DEF failed, n
    <3> QED
      BY <2>2, <2>3, <3>1
  <2> QED
    BY <1>2, <2>1, <2>4, <2>5, <2>6 DEF AppendPayloadFile
<1>3. (CHOOSE u \in UserData : TRUE) \in UserData
  BY GpsAssumption
<1> QED
  BY <1>1, <1>2, <1>3

\* Nor does the header change the messages.
LEMMA FinishMarks ==
  ASSUME ExportTypeOK, FileIsBegun, HasMarks, Finish
  PROVE  HasMarks'
<1>1. PICK n \in 0 .. HeaderCells : FinishedBy(n)
  BY FinishWrites
<1>2. PICK A \in Nat : \E m : Marked(A, m)
  BY DEF HasMarks
<1>3. PICK m : Marked(A, m)
  BY <1>2
<1>4. gps.phase = "writing" /\ Len(gps.encrypted) = 2 * A
  BY <1>3 DEF Finish, Marked, AppendsAre
<1>5. PICK L \in Nat : L = Len(gps.file) /\ L >= 3
  BY LenProperties DEF ExportTypeOK, FileIsBegun, FirstMessage
<1>6. /\ gps'.phase = (IF n = HeaderCells THEN "finished" ELSE "gone")
      /\ gps'.hash = gps.hash /\ gps'.failed = gps.failed
      /\ Len(gps'.encrypted) = 2 * A + 1
      /\ \A q \in 1 .. 2 * A : gps'.encrypted[q] = gps.encrypted[q]
      /\ gps'.encrypted[2 * A + 1] = <<[hash |-> gps.hash]>>
      /\ Len(gps'.file) = L /\ \A p \in 4 .. L : gps'.file[p] = gps.file[p]
      /\ n = 2 => gps'.file[2] = <<2 * A + 1, 1>> /\ gps'.file[3] = <<2 * A + 1, 2>>
  BY <1>1, <1>4, <1>5 DEF FinishedBy
<1>7. gps'.phase # "writing" /\ (gps'.phase = "finished" => n = 2)
  BY <1>6 DEF HeaderCells
<1>8. \A j \in 1 .. A : LengthOf(j)' = LengthOf(j) /\ Plain(j)' = Plain(j) /\ 2 * j - 1 \in 1 .. 2 * A
  <2> SUFFICES ASSUME NEW j \in 1 .. A
               PROVE  LengthOf(j)' = LengthOf(j) /\ Plain(j)' = Plain(j) /\ 2 * j - 1 \in 1 .. 2 * A
    OBVIOUS
  <2>1. 2 * j - 1 \in 1 .. 2 * A /\ 2 * j \in 1 .. 2 * A
    OBVIOUS
  <2> QED
    BY <1>6, <2>1 DEF LengthOf, Plain
<1>9. MessageCells = 4 .. L /\ MessageCells' = 4 .. L
  BY <1>5, <1>6 DEF MessageCells, FirstMessage
<1>10. AppendsAre(A)'
  BY <1>3, <1>6, <1>7, <1>8 DEF Marked, AppendsAre
<1>11. \A p \in 4 .. L : p < L => p + 1 \in 4 .. L
  BY <1>5
<1>12. CellsFollow(A)'
  <2>1. CellsFollow(A)
    BY <1>3 DEF Marked
  <2>2. \A p \in MessageCells' : gps'.file[p][1] \in 1 .. 2 * A
    BY <1>6, <1>9, <2>1 DEF CellsFollow
  <2>3. \A p \in MessageCells' : p < Len(gps'.file) =>
          \/ gps'.file[p + 1] = <<gps'.file[p][1], gps'.file[p][2] + 1>>
          \/ gps'.file[p][1] < gps'.file[p + 1][1]
    BY <1>5, <1>6, <1>9, <1>11, <2>1 DEF CellsFollow
  <2>4. ASSUME NEW p \in 4 .. L, NEW j \in 1 .. A, gps'.file[p] = <<2 * j, 1>>
        PROVE  p - 1 \in 4 .. L /\ gps'.file[p - 1] = <<2 * j - 1, 2>>
    <3>1. gps.file[p] = <<2 * j, 1>>
      BY <1>6, <2>4
    <3>2. p - 1 \in 4 .. L /\ gps.file[p - 1] = <<2 * j - 1, 2>>
      BY <1>9, <2>1, <3>1 DEF CellsFollow
    <3> QED
      BY <1>6, <3>2
  <2> QED
    BY <1>9, <2>2, <2>3, <2>4 DEF CellsFollow
<1>13. \A j \in 1 .. A : IsThere(j)' <=> IsThere(j)
  BY <1>6, <1>8, <1>9 DEF IsThere
<1>14. Marks(A, m)'
  <2>1. Marks(A, m)
    BY <1>3 DEF Marked
  <2>2. /\ m \in [0 .. A -> Nat] /\ m[0] = 0 /\ m[A] = Len(gps'.hash)
        /\ \A i, j \in 0 .. A : i < j => m[i] + 1 <= m[j]
    BY <1>6, <2>1 DEF Marks
  <2>3. \A j \in 1 .. A : IsThere(j)' => m[j] = m[j - 1] + 1 + Len(Plain(j)')
    BY <1>8, <1>13, <2>1 DEF Marks
  <2>4. ASSUME NEW j \in 1 .. A, NEW p \in 4 .. L, gps'.file[p] = <<2 * j - 1, 2>>, LengthOf(j)' >= 1,
               p < L => gps'.file[p + 1][1] # 2 * j
        PROVE  m[j] >= m[j - 1] + 2
    <3>1. gps.file[p] = <<2 * j - 1, 2>> /\ LengthOf(j) >= 1 /\ (p < L => gps.file[p + 1][1] # 2 * j)
      BY <1>6, <1>8, <1>11, <2>4
    <3> QED
      BY <1>5, <1>9, <2>1, <3>1 DEF Marks
  <2> QED
    BY <1>5, <1>6, <1>9, <2>2, <2>3, <2>4 DEF Marks
<1>15. FailuresTell(A, m)'
  BY <1>3, <1>6, <1>8, <1>13 DEF Marked, FailuresTell, HashedIn
<1>16. HeaderTells(A)'
  BY <1>6, <1>7 DEF HeaderTells
<1>17. Marked(A, m)'
  BY <1>10, <1>12, <1>14, <1>15, <1>16 DEF Marked
<1> QED
  BY <1>17 DEF HasMarks

---------------------------------------------------------------------------
(* Safe files, when something fails: a reader that validates *)

\* The payloads of the first appends, up to j, are there and in the hash h.
AllThere(h, m, j) == \A k \in 1 .. j : IsThere(k) /\ HashedIn(h, m, k)

\* The reader i has read a payload, that of append j, or nothing yet.
AfterPayload(i, m, j) ==
  /\ i.payloadRead
  /\ IF j = 0 THEN i.pos = FirstMessage ELSE i.pos \in MessageCells /\ gps.file[i.pos][1] = 2 * j
  /\ Len(i.hash) <= m[j]
  /\ Len(i.hash) = m[j] => AllThere(i.hash, m, j)

\* It has read a header, that of append j; and it may have taken it for the payload of another.
AfterHeader(i, m, j) ==
  /\ i.pos \in MessageCells /\ gps.file[i.pos] = <<2 * j - 1, 2>>
  /\ Len(i.hash) <= m[j - 1] + 1
  /\ Len(i.hash) = m[j - 1] + 1 => ~i.payloadRead /\ AllThere(i.hash, m, j - 1)
  /\ ~i.payloadRead => i.length = LengthOf(j)

Behind(i, A, m) == (\E j \in 0 .. A : AfterPayload(i, m, j)) \/ (\E j \in 1 .. A : AfterHeader(i, m, j))

\* Once it was disturbed, a reader is among the cells of a message, of which it can decrypt none.
Stuck(i) ==
  /\ ~i.payloadRead /\ i.pos \in Nat /\ i.length \in Nat
  /\ i.pos + 1 <= Len(gps.file) /\ gps.file[i.pos + 1][2] # 1

\* A reader that validates has hashed no more than was hashed for what it has read.
Validating(i, A, m) ==
  i.phase = "open" /\ i.validates =>
    IF i.ended THEN i.payloadRead /\ i.pos <= Len(gps.file) /\ Len(gps.file) - i.pos < HeaderCells
    ELSE IF i.disturbed THEN Stuck(i)
    ELSE i.finalHash = gps.hash /\ i.hash \in Plaintexts /\ Behind(i, A, m)

\* What can be decrypted is a message.
LEMMA DecryptedMessage ==
  ASSUME ExportTypeOK, NEW p \in Nat, NEW n \in Nat, Decrypts(p, n), n >= 1
  PROVE  /\ p + n <= Len(gps.file)
         /\ \E q \in 1 .. Len(gps.encrypted) :
              /\ n = Len(gps.encrypted[q]) + 1 /\ PlainAt(p) = gps.encrypted[q]
              /\ \A k \in 1 .. n : gps.file[p + k] = <<q, k>>
<1>1. PICK L \in Nat : L = Len(gps.file)
  BY LenProperties DEF ExportTypeOK
<1>2. p + n <= L /\ Opens(Window(p, n), gps.encrypted)
  BY <1>1 DEF Decrypts
<1>3. \A k \in p + 1 .. p + n : gps.file[k] \in Cells
  <2>1. gps.file \in Seq(Cells)
    BY DEF ExportTypeOK
  <2>2. \A k \in p + 1 .. p + n : k \in 1 .. Len(gps.file)
    BY <1>1, <1>2
  <2> QED
    BY <2>1, <2>2, ElementOfSeq
<1> DEFINE w == Window(p, n)
<1>4. Len(w) = n /\ \A k \in 1 .. n : w[k] = gps.file[p + k]
  <2>1. /\ Len(w) = IF p + 1 <= p + n THEN p + n - (p + 1) + 1 ELSE 0
        /\ \A k \in 1 .. p + n - (p + 1) + 1 : w[k] = gps.file[p + 1 + k - 1]
    <3>1. p + 1 \in Int /\ p + n \in Int
      OBVIOUS
    <3> QED
      BY <1>3, <3>1, SubSeqProperties DEF Window
  <2> HIDE DEF w
  <2>2. Len(w) = n
    BY <2>1
  <2>3. ASSUME NEW k \in 1 .. n PROVE w[k] = gps.file[p + k]
    <3>1. k \in 1 .. p + n - (p + 1) + 1 /\ p + 1 + k - 1 = p + k
      OBVIOUS
    <3> QED
      BY <2>1, <3>1
  <2> QED
    BY <2>2, <2>3
<1> HIDE DEF w
<1>5. PICK q : q \in DOMAIN gps.encrypted /\ w = Crypttext(q, gps.encrypted[q])
  BY <1>2 DEF Opens, w
<1>6. q \in 1 .. Len(gps.encrypted) /\ q \in Nat /\ gps.encrypted[q] \in Plaintexts
  <2>1. q \in 1 .. Len(gps.encrypted)
    BY <1>5, LenProperties DEF ExportTypeOK
  <2>2. q \in Nat
    BY <2>1
  <2> QED
    BY <2>1, <2>2, ElementOfSeq DEF ExportTypeOK
<1>7. n = Len(gps.encrypted[q]) + 1 /\ \A k \in 1 .. n : gps.file[p + k] = <<q, k>>
  <2>1. PICK plain : plain = gps.encrypted[q]
    OBVIOUS
  <2>2. /\ Len(plain) \in Nat /\ Len(Crypttext(q, plain)) = Len(plain) + 1
        /\ \A k \in 1 .. Len(plain) + 1 : Crypttext(q, plain)[k] = <<q, k>>
    BY <1>6, <2>1, CrypttextCells
  <2>3. w = Crypttext(q, plain)
    BY <1>5, <2>1
  <2>4. n = Len(plain) + 1 /\ \A k \in 1 .. n : w[k] = <<q, k>>
    BY <1>4, <2>2, <2>3
  <2> QED
    BY <1>4, <2>1, <2>4
<1>8. PlainAt(p) = gps.encrypted[q]
  <2>1. gps.file[p + 1] = <<q, 1>>
    BY <1>7
  <2> QED
    BY <2>1 DEF PlainAt
<1> QED
  BY <1>1, <1>2, <1>6, <1>7, <1>8

\* The number of a message is that of a header or of a payload.
LEMMA HeaderOrPayload ==
  ASSUME NEW A \in Nat, NEW q \in 1 .. 2 * A
  PROVE  \E x \in 1 .. A : q = 2 * x \/ q = 2 * x - 1
<1>1. CASE q % 2 = 0
  <2>1. q \div 2 \in 1 .. A /\ q = 2 * (q \div 2)
    BY <1>1
  <2> QED
    BY <2>1
<1>2. CASE q % 2 # 0
  <2>1. (q + 1) \div 2 \in 1 .. A /\ q = 2 * ((q + 1) \div 2) - 1
    BY <1>2
  <2> QED
    BY <2>1
<1> QED
  BY <1>1, <1>2

\* What was hashed by the end of an append grows with the appends.
LEMMA MarksGrow ==
  ASSUME NEW A \in Nat, NEW m, Marks(A, m)
  PROVE  /\ \A k \in 0 .. A : m[k] \in Nat
         /\ \A k, l \in 0 .. A : k <= l => m[k] <= m[l] /\ (m[k] = m[l] => k = l)
<1>1. m \in [0 .. A -> Nat] /\ \A k, l \in 0 .. A : k < l => m[k] + 1 <= m[l]
  BY DEF Marks
<1>2. ASSUME NEW k \in 0 .. A, NEW l \in 0 .. A, k <= l PROVE m[k] <= m[l] /\ (m[k] = m[l] => k = l)
  <2>1. m[k] \in Nat /\ m[l] \in Nat
    BY <1>1
  <2>2. CASE k = l
    BY <2>1, <2>2
  <2>3. CASE k < l
    BY <1>1, <2>1, <2>3
  <2> QED
    BY <1>2, <2>2, <2>3
<1> QED
  BY <1>1, <1>2

\* A longer hash has what the shorter one has.
LEMMA StillThere ==
  ASSUME ExportTypeOK, NEW A \in Nat, NEW m, Marks(A, m), AppendsAre(A), NEW j \in 0 .. A,
         NEW h \in Plaintexts, NEW t \in Plaintexts, m[j] <= Len(h), AllThere(h, m, j)
  PROVE  AllThere(h \o t, m, j)
<1> SUFFICES ASSUME NEW k \in 1 .. j PROVE IsThere(k) /\ HashedIn(h \o t, m, k)
  BY DEF AllThere
<1>1. IsThere(k) /\ HashedIn(h, m, k) /\ k \in 1 .. A
  BY DEF AllThere
<1>2. PICK P \in Nat : P = Len(Plain(k))
  BY <1>1, AppendTypes
<1>3. PICK b \in Nat : b = m[k - 1] /\ b + 1 + P <= Len(h)
  <2>1. k \in 0 .. A /\ k - 1 \in 0 .. A /\ k <= j
    BY <1>1
  <2>2. m[k] <= m[j] /\ m[k] \in Nat /\ m[k - 1] \in Nat /\ m[j] \in Nat
    BY <2>1, MarksGrow
  <2>3. m[k] = m[k - 1] + 1 + P
    BY <1>1, <1>2 DEF Marks
  <2>4. Len(h) \in Nat
    BY LenProperties DEF Plaintexts
  <2> QED
    BY <2>2, <2>3, <2>4
<1>4. Len(h) \in Nat /\ \A i \in 1 .. Len(h) : (h \o t)[i] = h[i]
  BY BothParts, LenProperties DEF Plaintexts
<1>5. ASSUME NEW i \in 1 .. P PROVE (h \o t)[b + 1 + i] = Plain(k)[i]
  <2>1. b + 1 + i \in 1 .. Len(h)
    BY <1>3, <1>4
  <2>2. h[b + 1 + i] = Plain(k)[i]
    BY <1>1, <1>2, <1>3 DEF HashedIn
  <2> QED
    BY <1>4, <2>1, <2>2
<1> QED
  BY <1>1, <1>2, <1>3, <1>5 DEF HashedIn

\* What a reader has read that has gotten its payload, or what it takes for it.
LEMMA GottenIsBehind ==
  ASSUME ExportTypeOK, NEW A \in Nat, NEW m, Marked(A, m), NEW i, NEW g, NEW j \in 1 .. A,
         i.hash \in Plaintexts, AfterHeader(i, m, j), ~i.payloadRead, MayGet(i),
         g.payloadRead, g.pos = i.pos + i.length + 1, g.hash = i.hash \o PlainAt(i.pos)
  PROVE  g.hash \in Plaintexts /\ Behind(g, A, m)
<1>1. AppendsAre(A) /\ CellsFollow(A) /\ Marks(A, m)
  BY DEF Marked
<1>2. PICK L \in Nat : L = Len(gps.file)
  BY LenProperties DEF ExportTypeOK
<1>3. PICK p \in Nat, N \in Nat : p = i.pos /\ N = i.length /\ p \in 4 .. L /\ N = LengthOf(j)
  <2>1. i.length = LengthOf(j) /\ LengthOf(j) \in Nat
    BY <1>1, AppendTypes DEF AfterHeader
  <2>2. i.pos \in 4 .. L
    BY <1>2 DEF AfterHeader, MessageCells, FirstMessage
  <2>3. i.pos \in Nat
    BY <1>2, <2>2
  <2> QED
    BY <2>1, <2>2, <2>3
<1>4. MessageCells = 4 .. L
  BY <1>2 DEF MessageCells, FirstMessage
<1>5. PICK q \in 1 .. Len(gps.encrypted) :
        /\ N + 1 = Len(gps.encrypted[q]) + 1 /\ PlainAt(p) = gps.encrypted[q]
        /\ \A k \in 1 .. N + 1 : gps.file[p + k] = <<q, k>>
  <2>1. Decrypts(p, N + 1) /\ N + 1 \in Nat /\ N + 1 >= 1
    BY <1>3 DEF MayGet
  <2> QED
    BY <2>1, DecryptedMessage
<1>6. p + N + 1 <= L
  <2>1. Decrypts(p, N + 1)
    BY <1>3 DEF MayGet
  <2> QED
    BY <1>2, <1>3, <2>1 DEF Decrypts
<1>7. /\ gps.file[p] = <<2 * j - 1, 2>> /\ gps.file[p + 1] = <<q, 1>> /\ p + 1 \in 4 .. L /\ p < L
      /\ gps.file[p + N + 1] = <<q, N + 1>> /\ p + N + 1 \in 4 .. L
  <2>1. gps.file[p] = <<2 * j - 1, 2>>
    BY <1>3 DEF AfterHeader
  <2>2. 1 \in 1 .. N + 1 /\ N + 1 \in 1 .. N + 1 /\ p + 1 \in 4 .. L /\ p < L
        /\ p + N + 1 = p + (N + 1) /\ p + N + 1 \in 4 .. L
    <3>1. p \in Nat /\ N \in Nat /\ L \in Nat /\ p \in 4 .. L /\ p + N + 1 <= L
      BY <1>3, <1>6
    <3> QED
      BY <3>1
  <2>3. gps.file[p + 1] = <<q, 1>> /\ gps.file[p + (N + 1)] = <<q, N + 1>>
    BY <1>5, <2>2
  <2> QED
    BY <2>1, <2>2, <2>3
<1>8. q \in 1 .. 2 * A
  <2>1. gps.file[p + 1][1] \in 1 .. 2 * A
    BY <1>1, <1>4, <1>7 DEF CellsFollow
  <2> QED
    BY <1>7, <2>1
<1>9. /\ gps.encrypted[q] \in Plaintexts /\ Len(gps.encrypted[q]) = N
      /\ g.hash = i.hash \o gps.encrypted[q]
  <2>1. gps.encrypted[q] \in Plaintexts
    BY <1>5, ElementOfSeq DEF ExportTypeOK
  <2>2. PICK P \in Nat : P = Len(gps.encrypted[q])
    BY <2>1, LenProperties DEF Plaintexts
  <2>3. P = N
    BY <1>3, <1>5, <2>2
  <2> QED
    BY <1>3, <1>5, <2>1, <2>2, <2>3
<1>10. PICK h, e : h = i.hash /\ e = gps.encrypted[q]
  OBVIOUS
<1>11. PICK H \in Nat : H = Len(h)
  BY <1>10, LenProperties DEF Plaintexts
<1>12. /\ h \o e \in Plaintexts /\ Len(h \o e) = H + N
       /\ \A k \in 1 .. N : (h \o e)[H + k] = e[k]
  <2>1. /\ h \o e \in Plaintexts /\ Len(h \o e) = Len(h) + Len(e)
        /\ \A k \in 1 .. Len(e) : (h \o e)[Len(h) + k] = e[k]
    <3>1. h \in Plaintexts /\ e \in Plaintexts
      BY <1>9, <1>10
    <3> QED
      BY <3>1, BothParts DEF Plaintexts
  <2> QED
    BY <1>9, <1>10, <1>11, <2>1
<1>13. /\ j \in 0 .. A /\ j - 1 \in 0 .. A /\ m[j] \in Nat /\ m[j - 1] \in Nat
       /\ H <= m[j - 1] + 1 /\ (H = m[j - 1] + 1 => AllThere(h, m, j - 1))
  <2>1. j \in 0 .. A /\ j - 1 \in 0 .. A
    OBVIOUS
  <2>2. H <= m[j - 1] + 1 /\ (H = m[j - 1] + 1 => AllThere(h, m, j - 1))
    BY <1>10, <1>11 DEF AfterHeader
  <2> QED
    BY <1>1, <2>1, <2>2, MarksGrow
<1>14. g.hash = h \o e /\ g.pos = p + N + 1
  BY <1>3, <1>9, <1>10
<1>15. CASE q = 2 * j
  <2>1. Plain(j) = e /\ Len(Plain(j)) = N
    BY <1>9, <1>10, <1>15 DEF Plain
  <2>2. IsThere(j)
    BY <1>3, <1>4, <1>7, <1>15, <2>1 DEF IsThere
  <2>3. m[j] = m[j - 1] + 1 + N
    BY <1>1, <2>1, <2>2 DEF Marks
  <2>4. H + N <= m[j] /\ (H + N = m[j] => H = m[j - 1] + 1)
    BY <1>3, <1>11, <1>13, <2>3
  <2>5. ASSUME H = m[j - 1] + 1 PROVE AllThere(h \o e, m, j)
    <3>1. AllThere(h \o e, m, j - 1)
      <4>1. m[j - 1] <= Len(h) /\ AllThere(h, m, j - 1) /\ j - 1 \in 0 .. A
        BY <1>11, <1>13, <2>5
      <4>2. h \in Plaintexts /\ e \in Plaintexts
        BY <1>9, <1>10
      <4> QED
        BY <1>1, <4>1, <4>2, StillThere
    <3>2. HashedIn(h \o e, m, j)
      <4>1. \A k \in 1 .. N : (h \o e)[m[j - 1] + 1 + k] = e[k]
        BY <1>12, <2>5
      <4> QED
        BY <2>1, <4>1 DEF HashedIn
    <3>3. \A k \in 1 .. j : k \in 1 .. j - 1 \/ k = j
      OBVIOUS
    <3> QED
      BY <2>2, <3>1, <3>2, <3>3 DEF AllThere
  <2>6. j # 0 /\ gps.file[g.pos][1] = 2 * j /\ g.pos \in MessageCells
    BY <1>4, <1>7, <1>14, <1>15
  <2>7. AfterPayload(g, m, j)
    <3>1. Len(g.hash) = H + N
      BY <1>12, <1>14
    <3>2. Len(g.hash) <= m[j]
      BY <2>4, <3>1
    <3>3. Len(g.hash) = m[j] => AllThere(g.hash, m, j)
      BY <1>14, <2>4, <2>5, <3>1
    <3> QED
      BY <2>6, <3>2, <3>3 DEF AfterPayload
  <2> QED
    BY <1>12, <1>13, <1>14, <2>7 DEF Behind
<1>16. CASE q # 2 * j
  <2>1. PICK x \in 1 .. A : q = 2 * x \/ q = 2 * x - 1
    BY <1>8, HeaderOrPayload
  <2>2. q = 2 * x - 1
    <3> SUFFICES ASSUME q = 2 * x PROVE FALSE
      BY <2>1
    <3>1. (p + 1) - 1 = p
      BY <1>3
    <3>2. gps.file[(p + 1) - 1] = <<2 * x - 1, 2>>
      BY <1>1, <1>4, <1>7 DEF CellsFollow
    <3>3. 2 * x - 1 = 2 * j - 1
      BY <1>7, <3>1, <3>2
    <3> QED
      BY <1>16, <3>3
  <2>3. N = 1
    <3>1. Len(gps.encrypted[2 * x - 1]) = 1
      BY <1>1, AppendTypes
    <3> QED
      BY <1>9, <2>2, <3>1
  <2>4. j < x
    <3>1. gps.file[p + 1] = <<gps.file[p][1], gps.file[p][2] + 1>> \/ gps.file[p][1] < gps.file[p + 1][1]
      BY <1>1, <1>2, <1>3, <1>4, <1>7 DEF CellsFollow
    <3>2. gps.file[p][1] = 2 * j - 1 /\ gps.file[p][2] = 2 /\ gps.file[p + 1][1] = q /\ gps.file[p + 1][2] = 1
      BY <1>7
    <3>3. 2 * j - 1 < q
      <4>1. gps.file[p + 1] # <<gps.file[p][1], gps.file[p][2] + 1>>
        BY <3>2
      <4> QED
        BY <3>1, <3>2, <4>1
    <3> QED
      BY <2>2, <3>3
  <2>5. m[j] >= m[j - 1] + 2
    <3>1. LengthOf(j) >= 1 /\ gps.file[p + 1][1] # 2 * j
      BY <1>3, <1>7, <1>16, <2>3
    <3> QED
      BY <1>1, <1>3, <1>4, <1>7, <3>1 DEF Marks
  <2>6. m[j] <= m[x - 1] /\ m[x - 1] \in Nat
    <3>1. x - 1 \in 0 .. A /\ j <= x - 1
      BY <2>4
    <3> QED
      BY <1>1, <1>13, <3>1, MarksGrow
  <2>7. AfterHeader(g, m, x)
    <3>1. g.pos \in MessageCells /\ gps.file[g.pos] = <<2 * x - 1, 2>>
      BY <1>4, <1>7, <1>14, <2>2, <2>3
    <3>2. Len(g.hash) = H + 1
      BY <1>12, <1>14, <2>3
    <3>3. H + 1 < m[x - 1] + 1
      BY <1>11, <1>13, <2>5, <2>6
    <3>4. Len(g.hash) <= m[x - 1] + 1 /\ Len(g.hash) # m[x - 1] + 1
      BY <1>11, <2>6, <3>2, <3>3
    <3> QED
      BY <3>1, <3>4 DEF AfterHeader
  <2> QED
    BY <1>12, <1>14, <2>7 DEF Behind
<1> QED
  BY <1>15, <1>16

\* What a reader has read that has gotten the next header.
LEMMA AdvancedIsBehind ==
  ASSUME ExportTypeOK, NEW A \in Nat, NEW m, Marked(A, m), NEW i, NEW a,
         i.hash \in Plaintexts, Behind(i, A, m), i.payloadRead, Decrypts(i.pos, HeaderCells), ~IsPayload(i.pos),
         ~a.payloadRead, a.pos = i.pos + HeaderCells, a.length = PlainAt(i.pos)[1].length,
         a.hash = i.hash \o <<PlainAt(i.pos)[1]>>
  PROVE  a.hash \in Plaintexts /\ Behind(a, A, m)
<1>1. AppendsAre(A) /\ CellsFollow(A) /\ Marks(A, m)
  BY DEF Marked
<1>2. PICK L \in Nat : L = Len(gps.file)
  BY LenProperties DEF ExportTypeOK
<1>3. MessageCells = 4 .. L
  BY <1>2 DEF MessageCells, FirstMessage
<1>4. PICK p \in Nat : p = i.pos /\ (p = 3 \/ p \in 4 .. L)
  <2>1. i.pos = 3 \/ i.pos \in 4 .. L
    BY <1>3 DEF Behind, AfterPayload, AfterHeader, FirstMessage
  <2>2. i.pos \in Nat
    BY <1>2, <2>1
  <2> QED
    BY <2>1, <2>2
<1>5. /\ p + 2 <= L /\ \E q \in 1 .. Len(gps.encrypted) :
           /\ 2 = Len(gps.encrypted[q]) + 1 /\ PlainAt(p) = gps.encrypted[q]
           /\ \A k \in 1 .. 2 : gps.file[p + k] = <<q, k>>
  <2>1. PICK n \in Nat : n = 2
    OBVIOUS
  <2>2. Decrypts(p, n) /\ n >= 1
    BY <1>4, <2>1 DEF HeaderCells
  <2>3. /\ p + n <= Len(gps.file)
        /\ \E q \in 1 .. Len(gps.encrypted) :
             /\ n = Len(gps.encrypted[q]) + 1 /\ PlainAt(p) = gps.encrypted[q]
             /\ \A k \in 1 .. n : gps.file[p + k] = <<q, k>>
    BY <2>2, DecryptedMessage
  <2> QED
    BY <1>2, <2>1, <2>3
<1>6. PICK q \in 1 .. Len(gps.encrypted) :
        PlainAt(p) = gps.encrypted[q] /\ \A k \in 1 .. 2 : gps.file[p + k] = <<q, k>>
  BY <1>5
<1>7. gps.file[p + 1] = <<q, 1>> /\ gps.file[p + 2] = <<q, 2>> /\ p + 1 \in 4 .. L /\ p + 2 \in 4 .. L
  <2>1. 1 \in 1 .. 2 /\ 2 \in 1 .. 2
    OBVIOUS
  <2>2. p + 1 \in 4 .. L /\ p + 2 \in 4 .. L
    <3>1. p \in Nat /\ p >= 3 /\ p + 2 <= L /\ L \in Nat
      BY <1>2, <1>4, <1>5
    <3> QED
      BY <3>1
  <2> QED
    BY <1>6, <2>1, <2>2
<1>8. q \in 1 .. 2 * A
  <2>1. gps.file[p + 1][1] \in 1 .. 2 * A
    BY <1>1, <1>3, <1>7 DEF CellsFollow
  <2> QED
    BY <1>7, <2>1
<1>9. PICK x \in 1 .. A : q = 2 * x - 1
  <2>1. PICK x \in 1 .. A : q = 2 * x \/ q = 2 * x - 1
    BY <1>8, HeaderOrPayload
  <2>2. q # 2 * x
    <3> SUFFICES ASSUME q = 2 * x PROVE FALSE
      OBVIOUS
    <3>1. q % 2 = 0
      OBVIOUS
    <3>2. gps.file[p + 1][1] = q
      BY <1>7
    <3> QED
      BY <1>4, <3>1, <3>2 DEF IsPayload
  <2> QED
    BY <2>1, <2>2
<1>10. PICK header : header = PlainAt(p)[1]
  OBVIOUS
<1>11. <<header>> \in Plaintexts /\ Len(<<header>>) = 1 /\ header.length = LengthOf(x)
  <2>1. PICK length \in Nat, user \in UserData : gps.encrypted[2 * x - 1] = <<Header(length, user)>>
    BY <1>1 DEF AppendsAre
  <2>2. header = Header(length, user) /\ header = gps.encrypted[2 * x - 1][1]
    BY <1>6, <1>9, <1>10, <2>1
  <2> QED
    BY <2>2, HeadersArePlain DEF LengthOf
<1>12. PICK h, t : h = i.hash /\ t = <<header>>
  OBVIOUS
<1>13. PICK H \in Nat : H = Len(h)
  BY <1>12, LenProperties DEF Plaintexts
<1>14. a.hash = h \o t /\ a.pos = p + 2 /\ a.length = LengthOf(x)
  BY <1>4, <1>10, <1>11, <1>12 DEF HeaderCells
<1>15. h \o t \in Plaintexts /\ Len(h \o t) = H + 1
  <2>1. h \o t \in Plaintexts /\ Len(h \o t) = Len(h) + Len(t)
    BY <1>11, <1>12, BothParts DEF Plaintexts
  <2> QED
    BY <1>11, <1>12, <1>13, <2>1
<1>16. x - 1 \in 0 .. A /\ m[x - 1] \in Nat
  BY <1>1, MarksGrow
<1>17. ASSUME p \in 4 .. L
       PROVE  \/ gps.file[p + 1] = <<gps.file[p][1], gps.file[p][2] + 1>>
              \/ gps.file[p][1] < gps.file[p + 1][1]
  <2>1. p < L
    <3>1. p + 2 <= L /\ p \in Nat /\ L \in Nat
      BY <1>5
    <3> QED
      BY <3>1
  <2> QED
    BY <1>1, <1>2, <1>3, <1>17, <2>1 DEF CellsFollow
<1>18. H <= m[x - 1] /\ (H = m[x - 1] => AllThere(h, m, x - 1))
  <2>1. ASSUME NEW j \in 0 .. A, AfterPayload(i, m, j), j <= x - 1
        PROVE  H <= m[x - 1] /\ (H = m[x - 1] => AllThere(h, m, x - 1))
    <3>1. H <= m[j] /\ (H = m[j] => AllThere(h, m, j))
      BY <1>12, <1>13, <2>1 DEF AfterPayload
    <3>2. m[j] <= m[x - 1] /\ (m[j] = m[x - 1] => j = x - 1) /\ m[j] \in Nat
      BY <1>1, <1>16, <2>1, MarksGrow
    <3>3. H = m[x - 1] => H = m[j] /\ j = x - 1
      BY <1>13, <1>16, <3>1, <3>2
    <3>4. H <= m[x - 1]
      BY <1>13, <1>16, <3>1, <3>2
    <3> QED
      BY <3>1, <3>3, <3>4
  <2>2. ASSUME NEW j \in 0 .. A, AfterPayload(i, m, j)
        PROVE  j <= x - 1
    <3> SUFFICES ASSUME j # 0 PROVE j <= x - 1
      BY <1>16
    <3>1. p \in 4 .. L /\ gps.file[p][1] = 2 * j
      BY <1>3, <1>4, <2>2 DEF AfterPayload
    <3>2. gps.file[p + 1][1] = 2 * x - 1
      BY <1>7, <1>9
    <3>3. 2 * j # 2 * x - 1
      OBVIOUS
    <3>4. 2 * j < 2 * x - 1
      <4>1. gps.file[p + 1] # <<gps.file[p][1], gps.file[p][2] + 1>>
        BY <3>1, <3>2, <3>3
      <4> QED
        BY <1>17, <3>1, <3>2, <4>1
    <3> QED
      BY <3>4
  <2>3. ASSUME NEW j \in 1 .. A, AfterHeader(i, m, j)
        PROVE  H < m[x - 1]
    <3>1. p \in 4 .. L /\ gps.file[p] = <<2 * j - 1, 2>> /\ H <= m[j - 1] + 1 /\ H # m[j - 1] + 1
      BY <1>3, <1>4, <1>12, <1>13, <2>3 DEF AfterHeader
    <3>2. gps.file[p][1] = 2 * j - 1 /\ gps.file[p][2] = 2
      BY <3>1
    <3>3. gps.file[p + 1][1] = 2 * x - 1 /\ gps.file[p + 1][2] = 1
      BY <1>7, <1>9
    <3>4. 2 * j - 1 < 2 * x - 1
      <4>1. gps.file[p + 1] # <<gps.file[p][1], gps.file[p][2] + 1>>
        BY <3>2, <3>3
      <4> QED
        BY <1>17, <3>1, <3>2, <3>3, <4>1
    <3>5. j - 1 \in 0 .. A /\ j - 1 <= x - 1 /\ j - 1 # x - 1
      BY <3>4
    <3>6. m[j - 1] <= m[x - 1] /\ m[j - 1] # m[x - 1] /\ m[j - 1] \in Nat
      BY <1>1, <1>16, <3>5, MarksGrow
    <3> QED
      BY <1>13, <1>16, <3>1, <3>6
  <2>4. \/ \E j \in 0 .. A : AfterPayload(i, m, j)
        \/ \E j \in 1 .. A : AfterHeader(i, m, j)
    BY DEF Behind
  <2>5. H < m[x - 1] => H <= m[x - 1] /\ H # m[x - 1]
    BY <1>13, <1>16
  <2> QED
    BY <2>1, <2>2, <2>3, <2>4, <2>5
<1>19. AfterHeader(a, m, x)
  <2>1. a.pos \in MessageCells /\ gps.file[a.pos] = <<2 * x - 1, 2>>
    BY <1>3, <1>7, <1>9, <1>14
  <2>2. Len(a.hash) = H + 1
    BY <1>14, <1>15
  <2>3. Len(a.hash) <= m[x - 1] + 1
    BY <1>13, <1>16, <1>18, <2>2
  <2>4. ASSUME Len(a.hash) = m[x - 1] + 1 PROVE AllThere(a.hash, m, x - 1)
    <3>1. H = m[x - 1]
      BY <1>13, <1>16, <2>2, <2>4
    <3>2. AllThere(h, m, x - 1) /\ m[x - 1] <= Len(h)
      BY <1>13, <1>16, <1>18, <3>1
    <3>3. h \in Plaintexts /\ t \in Plaintexts
      BY <1>11, <1>12
    <3> QED
      BY <1>1, <1>14, <1>16, <3>2, <3>3, StillThere
  <2> QED
    BY <1>14, <2>1, <2>3, <2>4 DEF AfterHeader
<1> QED
  BY <1>14, <1>15, <1>19 DEF Behind

\* In the middle of a message nothing can be gotten.
LEMMA NothingInTheMiddle ==
  ASSUME ExportTypeOK, NEW i, Stuck(i)
  PROVE  ~MayGet(i)
<1> SUFFICES ASSUME MayGet(i) PROVE FALSE
  OBVIOUS
<1>1. PICK p \in Nat, n \in Nat : p = i.pos /\ n = i.length + 1 /\ n >= 1
  BY DEF Stuck
<1>2. Decrypts(p, n)
  BY <1>1 DEF MayGet
<1>3. PICK q \in 1 .. Len(gps.encrypted) :
        /\ n = Len(gps.encrypted[q]) + 1 /\ PlainAt(p) = gps.encrypted[q]
        /\ \A k \in 1 .. n : gps.file[p + k] = <<q, k>>
  BY <1>1, <1>2, DecryptedMessage
<1>4. gps.file[p + 1] = <<q, 1>>
  BY <1>1, <1>3
<1> QED
  BY <1>1, <1>4 DEF Stuck

\* There a reader is left by a call that is cancelled.
LEMMA CancelledIsStuck ==
  ASSUME ExportTypeOK, NEW A \in Nat, NEW m, Marked(A, m), NEW i, NEW c, NEW j \in 1 .. A,
         AfterHeader(i, m, j), ~i.payloadRead, MayGet(i), NEW n \in 1 .. i.length,
         ~c.payloadRead, c.pos = i.pos + n, c.length = i.length
  PROVE  Stuck(c)
<1>1. PICK L \in Nat : L = Len(gps.file)
  BY LenProperties DEF ExportTypeOK
<1>2. PICK p \in Nat, N \in Nat : p = i.pos /\ N = i.length
  <2>1. AppendsAre(A)
    BY DEF Marked
  <2>2. i.length \in Nat
    BY <2>1, AppendTypes DEF AfterHeader
  <2>3. i.pos \in 4 .. L
    BY <1>1 DEF AfterHeader, MessageCells, FirstMessage
  <2>4. i.pos \in Nat
    BY <1>1, <2>3
  <2> QED
    BY <2>2, <2>4
<1>3. Decrypts(p, N + 1) /\ N + 1 \in Nat /\ N + 1 >= 1
  BY <1>2 DEF MayGet
<1>4. p + (N + 1) <= L
  BY <1>1, <1>3, DecryptedMessage
<1>5. PICK q \in 1 .. Len(gps.encrypted) :
        /\ N + 1 = Len(gps.encrypted[q]) + 1 /\ PlainAt(p) = gps.encrypted[q]
        /\ \A k \in 1 .. N + 1 : gps.file[p + k] = <<q, k>>
  BY <1>3, DecryptedMessage
<1>6. n \in 1 .. N
  BY <1>2
<1>7. n + 1 \in 1 .. N + 1 /\ p + n + 1 = p + (n + 1) /\ p + n + 1 <= L /\ n + 1 # 1 /\ p + n \in Nat
  <2>1. p \in Nat /\ N \in Nat /\ L \in Nat /\ n \in 1 .. N /\ p + (N + 1) <= L
    BY <1>4, <1>6
  <2> QED
    BY <2>1
<1>8. gps.file[p + n + 1] = <<q, n + 1>>
  BY <1>5, <1>7
<1>9. c.pos = p + n /\ c.length = N
  BY <1>2
<1> QED
  BY <1>1, <1>7, <1>8, <1>9 DEF Stuck

\* The fields of a reader that has gotten its payload.
LEMMA GottenFields ==
  ASSUME NEW i, DOMAIN i = Fields, NEW wanted
  PROVE  /\ PayloadGotten(i, wanted).phase = i.phase /\ PayloadGotten(i, wanted).validates = i.validates
         /\ PayloadGotten(i, wanted).ended = i.ended /\ PayloadGotten(i, wanted).disturbed = i.disturbed
         /\ PayloadGotten(i, wanted).finalHash = i.finalHash
         /\ PayloadGotten(i, wanted).payloadRead
         /\ PayloadGotten(i, wanted).pos = i.pos + i.length + 1
         /\ i.validates => PayloadGotten(i, wanted).hash = i.hash \o PlainAt(i.pos)
         /\ DOMAIN PayloadGotten(i, wanted) = Fields
BY DEF PayloadGotten, Fields, Hashed

\* It is still one that validates.
LEMMA GottenValidates ==
  ASSUME ExportTypeOK, NEW A \in Nat, NEW m, Marked(A, m), NEW i, DOMAIN i = Fields, Validating(i, A, m),
         i.phase = "open", i.validates, ~i.payloadRead, MayGet(i), NEW wanted
  PROVE  /\ Validating(PayloadGotten(i, wanted), A, m) /\ ~i.ended /\ ~i.disturbed
<1>1. ~i.ended
  BY DEF Validating
<1>2. ~i.disturbed
  BY <1>1, NothingInTheMiddle DEF Validating
<1>3. i.finalHash = gps.hash /\ i.hash \in Plaintexts /\ Behind(i, A, m)
  BY <1>1, <1>2 DEF Validating
<1>4. PICK j \in 1 .. A : AfterHeader(i, m, j)
  BY <1>3 DEF Behind, AfterPayload
<1>5. PICK g : g = PayloadGotten(i, wanted)
  OBVIOUS
<1>6. /\ g.phase = i.phase /\ g.validates = i.validates /\ g.ended = i.ended /\ g.disturbed = i.disturbed
      /\ g.finalHash = i.finalHash /\ g.payloadRead
      /\ g.pos = i.pos + i.length + 1 /\ g.hash = i.hash \o PlainAt(i.pos)
  BY <1>5, GottenFields
<1>7. g.hash \in Plaintexts /\ Behind(g, A, m)
  BY <1>3, <1>4, <1>6, GottenIsBehind
<1>8. Validating(g, A, m)
  BY <1>1, <1>2, <1>3, <1>6, <1>7 DEF Validating
<1> QED
  BY <1>1, <1>2, <1>5, <1>8

\* Nothing has failed if a reader has hashed all there is.
LEMMA WholeHash ==
  ASSUME NEW A \in Nat, NEW m, Marked(A, m), NEW i, Behind(i, A, m), i.payloadRead, i.hash = gps.hash
  PROVE  ~gps.failed
<1>1. Marks(A, m) /\ FailuresTell(A, m) /\ m[A] = Len(i.hash) /\ A \in 0 .. A
  <2>1. Marks(A, m) /\ FailuresTell(A, m)
    BY DEF Marked
  <2>2. m[A] = Len(gps.hash)
    BY <2>1 DEF Marks
  <2> QED
    BY <2>1, <2>2
<1>2. ASSUME NEW j \in 0 .. A, AfterPayload(i, m, j) PROVE ~gps.failed
  <2>1. m[A] <= m[j]
    BY <1>1, <1>2 DEF AfterPayload
  <2>2. m[j] <= m[A] /\ m[j] \in Nat /\ m[A] \in Nat /\ (m[j] = m[A] => j = A)
    BY <1>1, MarksGrow
  <2>3. j = A
    BY <2>1, <2>2
  <2>4. AllThere(gps.hash, m, A)
    BY <1>1, <1>2, <2>3 DEF AfterPayload
  <2> QED
    BY <1>1, <2>4 DEF AllThere, FailuresTell
<1>3. ASSUME NEW j \in 1 .. A, AfterHeader(i, m, j) PROVE FALSE
  <2>1. m[A] <= m[j - 1] + 1 /\ m[A] # m[j - 1] + 1
    BY <1>1, <1>3 DEF AfterHeader
  <2>2. j - 1 \in 0 .. A /\ j - 1 <= A /\ j - 1 # A
    OBVIOUS
  <2>3. m[j - 1] <= m[A] /\ m[j - 1] \in Nat /\ m[A] \in Nat /\ m[j - 1] # m[A]
    BY <1>1, <2>2, MarksGrow
  <2> QED
    BY <2>1, <2>3
<1> QED
  BY <1>2, <1>3 DEF Behind

\* One that goes on to the next header, or to the end, which it finds only if nothing failed.
LEMMA AdvancedValidates ==
  ASSUME ExportTypeOK, NEW A \in Nat, NEW m, Marked(A, m), NEW i, DOMAIN i = Fields, Validating(i, A, m),
         i.phase = "open", i.validates, i.payloadRead, i.ended => ~gps.failed /\ ~i.disturbed
  PROVE  /\ Validating(Advanced(i), A, m) /\ Advanced(i).validates = i.validates
         /\ Advanced(i).disturbed = i.disturbed
         /\ Advanced(i).ended => ~gps.failed /\ ~i.disturbed
<1>1. ~i.ended => ~i.disturbed /\ i.finalHash = gps.hash /\ i.hash \in Plaintexts /\ Behind(i, A, m)
  BY DEF Validating, Stuck
<1>2. i.ended => i.pos <= Len(gps.file) /\ Len(gps.file) - i.pos < HeaderCells
  BY DEF Validating
<1>3. PICK a : a = Advanced(i)
  OBVIOUS
<1>4. ASSUME NEW phase, phase # "open", a = [i EXCEPT !.phase = phase]
      PROVE  /\ Validating(a, A, m) /\ a.validates = i.validates /\ a.disturbed = i.disturbed
             /\ a.ended => ~gps.failed /\ ~i.disturbed
  <2>1. a.phase = phase /\ a.validates = i.validates /\ a.disturbed = i.disturbed /\ a.ended = i.ended
    BY <1>4 DEF Fields
  <2> QED
    BY <1>4, <2>1 DEF Validating
<1>5. CASE i.pos <= Len(gps.file) /\ Len(gps.file) - i.pos < HeaderCells
  <2>1. CASE i.validates /\ i.hash # i.finalHash
    <3>1. a = [i EXCEPT !.phase = "gone"]
      BY <1>3, <1>5, <2>1 DEF Advanced
    <3> QED
      BY <1>3, <1>4, <3>1
  <2>2. CASE ~(i.validates /\ i.hash # i.finalHash)
    <3>1. a = [i EXCEPT !.hash = <<>>, !.ended = TRUE]
      BY <1>3, <1>5, <2>2 DEF Advanced
    <3>2. /\ a.validates = i.validates /\ a.disturbed = i.disturbed /\ a.ended
          /\ a.payloadRead = i.payloadRead /\ a.pos = i.pos
      BY <3>1 DEF Fields
    <3>3. ~gps.failed /\ ~i.disturbed
      <4>1. CASE i.ended
        BY <4>1
      <4>2. CASE ~i.ended
        BY <1>1, <2>2, <4>2, WholeHash
      <4> QED
        BY <4>1, <4>2
    <3>4. Validating(a, A, m)
      BY <1>5, <3>2 DEF Validating
    <3> QED
      BY <1>3, <3>2, <3>3, <3>4
  <2> QED
    BY <2>1, <2>2
<1>6. CASE ~(i.pos <= Len(gps.file) /\ Len(gps.file) - i.pos < HeaderCells)
  <2>0. ~i.ended
    BY <1>2, <1>6
  <2>1. CASE ~Decrypts(i.pos, HeaderCells)
    <3>1. a = [i EXCEPT !.phase = "gone"]
      BY <1>3, <1>6, <2>1 DEF Advanced
    <3> QED
      BY <1>3, <1>4, <3>1
  <2>2. CASE Decrypts(i.pos, HeaderCells) /\ IsPayload(i.pos)
    <3>1. a = [i EXCEPT !.phase = "confused"]
      BY <1>3, <1>6, <2>2 DEF Advanced
    <3> QED
      BY <1>3, <1>4, <3>1
  <2>3. CASE Decrypts(i.pos, HeaderCells) /\ ~IsPayload(i.pos)
    <3> DEFINE header == PlainAt(i.pos)[1]
    <3>1. a = [i EXCEPT
                  !.pos = @ + HeaderCells, !.payloadRead = FALSE, !.length = header.length,
                  !.hash = Hashed(i, <<header>>),
                  !.seen = Append(@, [user |-> header.user, length |-> header.length,
                                      got |-> FALSE, data |-> <<>>])]
      BY <1>3, <1>6, <2>3 DEF Advanced
    <3>2. Hashed(i, <<header>>) = i.hash \o <<header>>
      BY DEF Hashed
    <3> HIDE DEF header
    <3>3. /\ a.phase = i.phase /\ a.validates = i.validates /\ a.disturbed = i.disturbed /\ a.ended = i.ended
          /\ a.finalHash = i.finalHash /\ ~a.payloadRead /\ a.pos = i.pos + HeaderCells
          /\ a.length = header.length /\ a.hash = i.hash \o <<header>>
      BY <3>1, <3>2 DEF Fields
    <3>4. a.hash \in Plaintexts /\ Behind(a, A, m)
      BY <1>1, <2>0, <2>3, <3>3, AdvancedIsBehind DEF header
    <3>5. Validating(a, A, m)
      BY <1>1, <2>0, <3>3, <3>4 DEF Validating
    <3> QED
      BY <1>3, <2>0, <3>3, <3>5
  <2> QED
    BY <2>1, <2>2, <2>3
<1> QED
  BY <1>5, <1>6

\* Whatever fails, a reader that has come to the end of a file it validates has come there
\* untroubled.
SafeInv ==
  /\ \E A \in Nat : \E m : Marked(A, m) /\ Validating(import, A, m)
  /\ import.ended /\ import.validates => Untroubled

\* With the same file, the marks are the same.
LEMMA MarkedOn ==
  ASSUME UNCHANGED gps, NEW A, NEW m, Marked(A, m)
  PROVE  Marked(A, m)'
<1>1. MessageCells' = MessageCells /\ \A j : LengthOf(j)' = LengthOf(j) /\ Plain(j)' = Plain(j)
  BY DEF MessageCells, LengthOf, Plain
<1>2. \A j : IsThere(j)' <=> IsThere(j)
  BY <1>1 DEF IsThere
<1>3. AppendsAre(A)' /\ CellsFollow(A)' /\ HeaderTells(A)'
  BY <1>1 DEF Marked, AppendsAre, CellsFollow, HeaderTells
<1>4. Marks(A, m)'
  BY <1>1, <1>2 DEF Marked, Marks
<1>5. FailuresTell(A, m)'
  BY <1>1, <1>2 DEF Marked, FailuresTell, HashedIn
<1> QED
  BY <1>3, <1>4, <1>5 DEF Marked

\* And a reader that validates still does.
LEMMA ValidatingOn ==
  ASSUME UNCHANGED gps, NEW a, import' = a, NEW A, NEW m, Validating(a, A, m)
  PROVE  Validating(import, A, m)'
<1>1. MessageCells' = MessageCells /\ \A j : LengthOf(j)' = LengthOf(j) /\ Plain(j)' = Plain(j)
  BY DEF MessageCells, LengthOf, Plain
<1>2. \A j : IsThere(j)' <=> IsThere(j)
  BY <1>1 DEF IsThere
<1>3. \A j : AllThere(import.hash, m, j)' <=> AllThere(a.hash, m, j)
  BY <1>1, <1>2 DEF AllThere, HashedIn
<1>4. Behind(a, A, m) => Behind(import, A, m)'
  BY <1>1, <1>3 DEF Behind, AfterPayload, AfterHeader
<1>5. Stuck(a) => Stuck(import)'
  BY DEF Stuck
<1> QED
  BY <1>4, <1>5 DEF Validating

\* A step of an import.
LEMMA SafeReading ==
  ASSUME UNCHANGED gps, NEW A \in Nat, NEW m, Marked(A, m), NEW a, import' = a, Validating(a, A, m),
         a.ended /\ a.validates => ~gps.failed /\ ~a.disturbed
  PROVE  SafeInv'
<1>1. Marked(A, m)' /\ Validating(import, A, m)'
  BY MarkedOn, ValidatingOn
<1>2. (import.ended /\ import.validates => Untroubled)'
  BY DEF Untroubled
<1> QED
  BY <1>1, <1>2 DEF SafeInv

\* The steps of an export.
LEMMA SafeExport ==
  ASSUME GpsInv, SafeInv,
         \/ \E data \in Payloads, user \in UserData : AppendPayload(data, user)
         \/ \E data, again \in Payloads, chunk \in 0..1, k1, k2 \in 0..2 :
              AppendPayloadFile(data, again, CHOOSE u \in UserData : TRUE, chunk, k1, k2)
         \/ Finish
  PROVE  SafeInv'
<1>1. gps.phase = "writing" /\ UNCHANGED import
  <2>1. ASSUME NEW data, NEW user, AppendPayload(data, user) PROVE gps.phase = "writing" /\ UNCHANGED import
    BY <2>1 DEF AppendPayload, Written
  <2>2. ASSUME NEW data, NEW again, NEW user, NEW chunk, NEW k1, NEW k2,
               AppendPayloadFile(data, again, user, chunk, k1, k2)
        PROVE  gps.phase = "writing" /\ UNCHANGED import
    BY <2>2 DEF AppendPayloadFile, Written
  <2>3. Finish => gps.phase = "writing" /\ UNCHANGED import
    BY DEF Finish
  <2> QED
    BY <2>1, <2>2, <2>3
<1>2. import'.phase = "none" /\ ~import'.ended
  BY <1>1 DEF GpsInv, ImportInv, NewImport
<1>3. HasMarks
  BY DEF SafeInv, HasMarks
<1>4. HasMarks'
  BY <1>3, AppendsTell, FinishMarks DEF GpsInv, ExportInv
<1>5. \A A, m : Validating(import, A, m)'
  BY <1>2 DEF Validating
<1> QED
  BY <1>2, <1>4, <1>5 DEF SafeInv, HasMarks

\* An import begins.
LEMMA SafeImport ==
  ASSUME GpsInv, SafeInv, NEW creds \in AllCredentials, NEW validates \in BOOLEAN, Import(creds, validates)
  PROVE  SafeInv'
<1>1. PICK A \in Nat : \E m : Marked(A, m) /\ Validating(import, A, m)
  BY DEF SafeInv
<1>2. PICK m : Marked(A, m)
  BY <1>1
<1>3. UNCHANGED gps
  BY DEF Import
<1>4. PICK a : a = import'
  OBVIOUS
<1> DEFINE opens == CheckCredentials(OwnersKey, creds) /\ Decrypts(1, HeaderCells)
<1>5. CASE ~opens
  <2>1. a = [NewImport EXCEPT !.phase = "gone", !.creds = creds]
    BY <1>4, <1>5 DEF Import
  <2>2. a.phase = "gone" /\ ~a.ended
    BY <2>1 DEF NewImport
  <2>3. Validating(a, A, m)
    BY <2>2 DEF Validating
  <2> QED
    BY <1>2, <1>3, <1>4, <2>2, <2>3, SafeReading
<1>6. CASE opens
  <2> DEFINE final == IF validates THEN PlainAt(1)[1].hash ELSE <<>>
  <2>1. a = [NewImport EXCEPT
              !.phase = "open", !.creds = creds, !.validates = validates,
              !.pos = FirstMessage, !.finalHash = final]
    BY <1>4, <1>6 DEF Import
  <2> HIDE DEF final
  <2>2. /\ a.phase = "open" /\ ~a.ended /\ ~a.disturbed /\ a.validates = validates
        /\ a.pos = FirstMessage /\ a.hash = <<>> /\ a.payloadRead /\ a.finalHash = final
    BY <2>1 DEF NewImport
  <2>3. gps.phase = "finished"
    <3>1. GpsInv'
      BY ImportOpens
    <3>2. gps'.phase = "finished"
      BY <1>4, <2>2, <3>1 DEF GpsInv, ImportInv, OwnersOpen
    <3> QED
      BY <1>3, <3>2
  <2>4. validates => final = gps.hash
    <3>1. gps.file[2] = <<2 * A + 1, 1>> /\ gps.encrypted[2 * A + 1] = <<[hash |-> gps.hash]>>
      BY <1>2, <2>3 DEF Marked, HeaderTells
    <3>2. PlainAt(1) = <<[hash |-> gps.hash]>>
      <4>1. gps.file[1 + 1] = <<2 * A + 1, 1>>
        BY <3>1
      <4> QED
        BY <3>1, <4>1 DEF PlainAt
    <3>3. PlainAt(1)[1].hash = gps.hash
      BY <3>2
    <3> QED
      BY <3>3 DEF final
  <2>5. AfterPayload(a, m, 0)
    <3>1. Len(a.hash) = 0 /\ m[0] = 0
      BY <1>2, <2>2 DEF Marked, Marks
    <3>2. AllThere(a.hash, m, 0)
      BY DEF AllThere
    <3> QED
      BY <2>2, <3>1, <3>2 DEF AfterPayload
  <2>6. a.hash \in Plaintexts
    BY <2>2 DEF Plaintexts
  <2>7. Behind(a, A, m)
    BY <2>5 DEF Behind
  <2>8. Validating(a, A, m)
    BY <2>2, <2>4, <2>6, <2>7 DEF Validating
  <2> QED
    BY <1>2, <1>3, <1>4, <2>2, <2>8, SafeReading
<1> QED
  BY <1>5, <1>6

\* It reads.
LEMMA SafeRead ==
  ASSUME GpsInv, SafeInv, \/ GetCurrentPayload \/ PassCurrentPayload \/ NextPayload
                          \/ \E chunk \in 0..1, k \in 1..2 : CancelGet(chunk, k)
  PROVE  SafeInv'
<1>1. UNCHANGED gps /\ import.phase = "open"
  BY DEF GetCurrentPayload, PassCurrentPayload, NextPayload, CancelGet
<1>2. ExportTypeOK /\ DOMAIN import = Fields
  BY DEF GpsInv, ExportInv, ImportInv
<1>3. PICK A \in Nat : \E m : Marked(A, m) /\ Validating(import, A, m)
  BY DEF SafeInv
<1>4. PICK m : Marked(A, m) /\ Validating(import, A, m)
  BY <1>3
<1>5. PICK a : a = import'
  OBVIOUS
<1>6. import.ended /\ import.validates => ~gps.failed /\ ~import.disturbed
  BY DEF SafeInv, Untroubled
<1>7. ASSUME a.validates = import.validates, ~import.validates PROVE SafeInv'
  <2>1. Validating(a, A, m) /\ (a.ended /\ a.validates => ~gps.failed /\ ~a.disturbed)
    BY <1>7 DEF Validating
  <2> QED
    BY <1>1, <1>4, <1>5, <2>1, SafeReading
<1>8. ASSUME import' = [import EXCEPT !.phase = "gone"] PROVE SafeInv'
  <2>1. /\ a.phase = "gone" /\ a.validates = import.validates /\ a.ended = import.ended
        /\ a.disturbed = import.disturbed
    BY <1>2, <1>5, <1>8 DEF Fields
  <2>2. Validating(a, A, m)
    BY <2>1 DEF Validating
  <2> QED
    BY <1>1, <1>4, <1>5, <1>6, <2>1, <2>2, SafeReading
<1>9. ASSUME NEW wanted, ~import.payloadRead, MayGet(import), a = PayloadGotten(import, wanted)
      PROVE  SafeInv'
  <2>1. a.validates = import.validates /\ a.ended = import.ended /\ a.disturbed = import.disturbed
    BY <1>2, <1>9, GottenFields
  <2>2. CASE import.validates
    <3>1. Validating(a, A, m) /\ ~import.ended
      BY <1>1, <1>2, <1>4, <1>9, <2>2, GottenValidates
    <3> QED
      BY <1>1, <1>4, <1>5, <2>1, <3>1, SafeReading
  <2> QED
    BY <1>7, <2>1, <2>2
<1>10. ASSUME NEW i, DOMAIN i = Fields, i.phase = "open", i.validates = import.validates,
              i.validates => i.payloadRead, Validating(i, A, m),
              i.validates /\ i.ended => ~gps.failed /\ ~i.disturbed, a = Advanced(i)
       PROVE  SafeInv'
  <2>1. CASE i.validates
    <3>1. /\ Validating(a, A, m) /\ a.validates = i.validates /\ a.disturbed = i.disturbed
          /\ a.ended => ~gps.failed /\ ~i.disturbed
      BY <1>2, <1>4, <1>10, <2>1, AdvancedValidates
    <3> QED
      BY <1>1, <1>4, <1>5, <3>1, SafeReading
  <2>2. CASE ~i.validates
    <3>1. a.validates = i.validates
      <4> DEFINE header == PlainAt(i.pos)[1]
                 a1 == [i EXCEPT !.phase = "gone"]
                 a2 == [i EXCEPT !.hash = <<>>, !.ended = TRUE]
                 a3 == [i EXCEPT !.phase = "confused"]
                 a4 == [i EXCEPT
                  !.pos = @ + HeaderCells, !.payloadRead = FALSE, !.length = header.length,
                  !.hash = Hashed(i, <<header>>),
                  !.seen = Append(@, [user |-> header.user, length |-> header.length,
                                      got |-> FALSE, data |-> <<>>])]
      <4>1. a = a1 \/ a = a2 \/ a = a3 \/ a = a4
        BY <1>10, Zenon DEF Advanced
      <4>2. /\ a1.validates = i.validates /\ a2.validates = i.validates /\ a3.validates = i.validates
            /\ a4.validates = i.validates
        BY <1>10 DEF Fields
      <4> HIDE DEF a1, a2, a3, a4
      <4> QED
        BY <4>1, <4>2
    <3> QED
      BY <1>7, <1>10, <2>2, <3>1
  <2> QED
    BY <2>1, <2>2
<1>11. CASE GetCurrentPayload
  <2> DEFINE wanted == TRUE
  <2>1. CASE MayGet(import)
    <3>1. ~import.payloadRead /\ a = PayloadGotten(import, wanted)
      BY <1>5, <1>11, <2>1 DEF GetCurrentPayload
    <3> HIDE DEF wanted
    <3> QED
      BY <1>9, <2>1, <3>1
  <2>2. CASE ~MayGet(import)
    BY <1>8, <1>11, <2>2 DEF GetCurrentPayload, Throws
  <2> QED
    BY <2>1, <2>2
<1>12. CASE PassCurrentPayload
  <2> DEFINE wanted == FALSE
  <2>1. CASE import.validates /\ MayGet(import)
    <3>1. ~import.payloadRead /\ a = PayloadGotten(import, wanted)
      BY <1>5, <1>12, <2>1 DEF PassCurrentPayload
    <3> HIDE DEF wanted
    <3> QED
      BY <1>9, <2>1, <3>1
  <2>2. CASE import.validates /\ ~MayGet(import)
    BY <1>8, <1>12, <2>2 DEF PassCurrentPayload, Throws
  <2>3. CASE ~import.validates
    <3>1. a = [import EXCEPT !.pos = @ + import.length + 1, !.payloadRead = TRUE]
      BY <1>5, <1>12, <2>3 DEF PassCurrentPayload
    <3>2. a.validates = import.validates
      BY <1>2, <3>1 DEF Fields
    <3> QED
      BY <1>7, <2>3, <3>2
  <2> QED
    BY <2>1, <2>2, <2>3
<1>13. CASE NextPayload
  <2>1. CASE import.payloadRead
    <3>1. a = Advanced(import)
      BY <1>5, <1>13, <2>1 DEF NextPayload
    <3> QED
      BY <1>1, <1>2, <1>4, <1>6, <1>10, <2>1, <3>1
  <2>2. CASE ~import.payloadRead /\ import.validates /\ ~MayGet(import)
    BY <1>8, <1>13, <2>2 DEF NextPayload, Throws
  <2>3. CASE ~import.payloadRead /\ ~(import.validates /\ ~MayGet(import))
    <3>1. a = Advanced(Skipped(import))
      BY <1>5, <1>13, <2>3 DEF NextPayload
    <3>2. PICK i : i = Skipped(import)
      OBVIOUS
    <3>3. CASE import.validates
      <4> DEFINE wanted == FALSE
      <4>1. i = PayloadGotten(import, wanted)
        BY <3>2, <3>3 DEF Skipped
      <4> HIDE DEF wanted
      <4>2. /\ i.phase = import.phase /\ i.validates = import.validates /\ i.ended = import.ended
            /\ i.disturbed = import.disturbed /\ i.payloadRead /\ DOMAIN i = Fields
        BY <1>2, <4>1, GottenFields
      <4>3. Validating(i, A, m) /\ ~import.ended
        BY <1>1, <1>2, <1>4, <2>3, <3>3, <4>1, GottenValidates
      <4> QED
        BY <1>1, <1>10, <3>1, <3>2, <4>2, <4>3
    <3>4. CASE ~import.validates
      <4>1. i = [import EXCEPT !.pos = @ + import.length + 1, !.payloadRead = TRUE]
        BY <3>2, <3>4 DEF Skipped
      <4>2. i.phase = "open" /\ i.validates = import.validates /\ DOMAIN i = Fields
        BY <1>1, <1>2, <4>1 DEF Fields
      <4>3. Validating(i, A, m)
        BY <3>4, <4>2 DEF Validating
      <4> QED
        BY <1>10, <3>1, <3>2, <3>4, <4>2, <4>3
    <3> QED
      BY <3>3, <3>4
  <2> QED
    BY <2>1, <2>2, <2>3
<1>14. CASE \E chunk \in 0..1, k \in 1..2 : CancelGet(chunk, k)
  <2>1. PICK chunk \in 0..1, k \in 1..2 : CancelGet(chunk, k)
    BY <1>14
  <2>2. PICK n : n = PassedBy(k, import.length, chunk)
    OBVIOUS
  <2>3. /\ ~import.payloadRead /\ k \in 1 .. Passes(import.length, chunk) /\ MayGet(import)
        /\ a = [import EXCEPT
             !.pos = @ + n, !.disturbed = TRUE,
             !.hash = Hashed(import, SubSeq(PlainAt(import.pos), 1, n))]
    BY <1>5, <2>1, <2>2 DEF CancelGet
  <2>4. /\ a.phase = "open" /\ a.validates = import.validates /\ a.ended = import.ended /\ a.disturbed
        /\ ~a.payloadRead /\ a.pos = import.pos + n /\ a.length = import.length
    BY <1>1, <1>2, <2>3 DEF Fields
  <2>5. CASE import.validates
    <3>1. ~import.ended
      BY <1>1, <1>4, <2>3, <2>5 DEF Validating
    <3>2. ~import.disturbed
      BY <1>1, <1>2, <1>4, <2>3, <2>5, <3>1, NothingInTheMiddle DEF Validating
    <3>3. Behind(import, A, m)
      BY <1>1, <1>4, <2>5, <3>1, <3>2 DEF Validating
    <3>4. PICK j \in 1 .. A : AfterHeader(import, m, j)
      BY <2>3, <3>3 DEF Behind, AfterPayload
    <3>5. import.length \in Nat
      <4>1. AppendsAre(A)
        BY <1>4 DEF Marked
      <4> QED
        BY <1>2, <2>3, <3>4, <4>1, AppendTypes DEF AfterHeader
    <3>6. n \in 1 .. import.length
      <4>1. PICK length \in Nat : length = import.length
        BY <3>5
      <4>2. k \in 1 .. Passes(length, chunk) /\ k \in Nat
        BY <2>3, <4>1
      <4>3. PassedBy(k, length, chunk) \in 1 .. length
        BY <4>2, SomeIsPassed
      <4> QED
        BY <2>2, <4>1, <4>3
    <3>7. Stuck(a)
      BY <1>2, <1>4, <2>3, <2>4, <3>4, <3>6, CancelledIsStuck
    <3>8. Validating(a, A, m)
      BY <2>4, <3>1, <3>7 DEF Validating
    <3> QED
      BY <1>1, <1>4, <1>5, <2>4, <3>1, <3>8, SafeReading
  <2> QED
    BY <1>7, <2>4, <2>5
<1> QED
  BY <1>11, <1>12, <1>13, <1>14

\* At first there are no appends.
LEMMA SafeInitially ==
  ASSUME GpsInit
  PROVE  SafeInv
<1>1. gps = [phase |-> "writing", file |-> <<Blank, Blank, Blank>>, hash |-> <<>>, encrypted |-> <<>>,
            attempts |-> <<>>, failed |-> FALSE]
  BY DEF GpsInit
<1>2. /\ gps.phase = "writing" /\ gps.file = <<Blank, Blank, Blank>> /\ gps.hash = <<>>
      /\ gps.encrypted = <<>> /\ gps.failed = FALSE
  BY <1>1
<1>3. Len(gps.file) = 3 /\ Len(gps.hash) = 0 /\ Len(gps.encrypted) = 0
  BY <1>2
<1>4. MessageCells = {} /\ 1 .. 0 = {}
  BY <1>3 DEF MessageCells, FirstMessage
<1> DEFINE m == [j \in 0 .. 0 |-> 0]
<1>5. AppendsAre(0)
  BY <1>2, <1>3, <1>4 DEF AppendsAre
<1>6. CellsFollow(0)
  BY <1>4 DEF CellsFollow
<1>7. Marks(0, m)
  <2>1. m \in [0 .. 0 -> Nat] /\ m[0] = 0
    OBVIOUS
  <2>2. \A i, j \in 0 .. 0 : ~(i < j)
    OBVIOUS
  <2> HIDE DEF m
  <2> QED
    BY <1>3, <1>4, <2>1, <2>2 DEF Marks
<1>8. FailuresTell(0, m)
  BY <1>2 DEF FailuresTell
<1>9. HeaderTells(0)
  BY <1>2 DEF HeaderTells
<1>10. import.phase = "none" /\ ~import.ended
  BY DEF GpsInit, NewImport
<1> HIDE DEF m
<1>11. Marked(0, m) /\ Validating(import, 0, m)
  BY <1>5, <1>6, <1>7, <1>8, <1>9, <1>10 DEF Marked, Validating
<1> QED
  BY <1>10, <1>11 DEF SafeInv

\* When a validating import says that there are no more payloads, then no append had failed,
\* or exported a file that was changing, and every payload was seen as it was appended; and if
\* nothing failed, every import sees them all.  What is imported is what was exported, whatever
\* fails (GPSFile_Export and GPSFile_Import, gpsutils.cpp).
THEOREM FilesAreWhatWasExported == GpsSpec => []GpsFilesAreTrue
<1>1. GpsInit => GpsInv /\ SafeInv
  BY GpsInitially, SafeInitially
<1>2. ASSUME GpsInv, SafeInv, [GpsNext]_gpsVars PROVE GpsInv' /\ SafeInv'
  <2>1. GpsInv'
    BY <1>2, GpsInductive
  <2>2. CASE \/ \E data \in Payloads, user \in UserData : AppendPayload(data, user)
             \/ \E data, again \in Payloads, chunk \in 0..1, k1, k2 \in 0..2 :
                  AppendPayloadFile(data, again, CHOOSE u \in UserData : TRUE, chunk, k1, k2)
             \/ Finish
    BY <1>2, <2>1, <2>2, SafeExport
  <2>3. CASE \E creds \in AllCredentials, validates \in BOOLEAN : Import(creds, validates)
    BY <1>2, <2>1, <2>3, SafeImport
  <2>4. CASE \/ GetCurrentPayload \/ PassCurrentPayload \/ NextPayload
             \/ \E chunk \in 0..1, k \in 1..2 : CancelGet(chunk, k)
    BY <1>2, <2>1, <2>4, SafeRead
  <2>5. CASE UNCHANGED gpsVars
    <3>1. UNCHANGED gps /\ UNCHANGED import
      BY <2>5 DEF gpsVars
    <3>2. PICK A \in Nat : \E m : Marked(A, m) /\ Validating(import, A, m)
      BY <1>2 DEF SafeInv
    <3>3. PICK m : Marked(A, m) /\ Validating(import, A, m)
      BY <3>2
    <3>4. PICK a : a = import /\ a = import'
      BY <3>1
    <3>5. a.ended /\ a.validates => ~gps.failed /\ ~a.disturbed
      BY <1>2, <3>4 DEF SafeInv, Untroubled
    <3>6. Validating(a, A, m)
      BY <3>3, <3>4
    <3> QED
      BY <2>1, <3>1, <3>3, <3>4, <3>5, <3>6, SafeReading
  <2> QED
    BY <1>2, <2>2, <2>3, <2>4, <2>5 DEF GpsNext
<1>3. GpsInv /\ SafeInv => GpsFilesAreTrue
  <2> SUFFICES ASSUME GpsInv, SafeInv PROVE GpsFilesAreTrue
    OBVIOUS
  <2>1. OwnersOpen /\ WholeIsImported
    BY GpsIsHonest
  <2>2. ValidIsWhole
    BY <2>1 DEF SafeInv, ValidIsWhole, WholeIsImported
  <2> QED
    BY <2>1, <2>2 DEF GpsFilesAreTrue
<1> QED
  BY <1>1, <1>2, <1>3, PTL DEF GpsSpec

---------------------------------------------------------------------------
(* Files in chunks, and the serial port: the specifications *)

TransferSpec == TransferInit /\ [][TransferNext]_<<files, transfer, port>>
PortSpec     == PortInit /\ [][PortNext]_<<files, transfer, port>>

---------------------------------------------------------------------------
(* Transfers *)

CallFields == {"stage", "kind", "source", "dest", "total", "done", "got", "flag", "flagged", "reason",
               "opened", "data", "touched", "short"}

TransferTypeOK ==
  /\ files \in [FileNames -> Seq(Int) \cup {NoFile}]
  /\ DOMAIN transfer = CallFields
  /\ transfer.stage \in {"idle", "loop", "check", "returned", "threw"}
  /\ transfer.kind \in {"write", "copy", "read"}
  /\ transfer.total \in Int /\ transfer.done \in Nat
  /\ transfer.got \in Seq(Int) /\ transfer.data \in Seq(Int)

\* What the call works with: the file it writes is there, its source is open while it runs,
\* and the data are what is in the source unless that was changed.  A file that is copied
\* onto itself is empty.
FilesAreOpen(f, t) ==
  /\ t.stage # "idle"
  /\ t.kind # "read" => t.dest \in FileNames /\ f[t.dest] # NoFile
  /\ t.kind = "write" => t.total = Len(t.data)
  /\ t.kind # "write" =>
       /\ t.source \in FileNames /\ t.total = PutIntoInt(Len(t.data))
       /\ t.stage \in {"loop", "check"} => f[t.source] # NoFile
       /\ t.stage \in {"loop", "check"} /\ ~t.touched => f[t.source] = t.data
  /\ t.kind = "copy" /\ t.source = t.dest => t.total = 0

MovedBy(f, t) == IF t.kind = "read" THEN t.got ELSE f[t.dest]

\* How much was moved, and what: of a source that has changed no more than the length.
BytesAreCounted(f, t) ==
  /\ t.done <= t.total \/ (t.done = 0 /\ t.total < 0)
  /\ ~t.short /\ ~t.touched => MovedBy(f, t) = SubSeq(t.data, 1, t.done)
  /\ ~t.short => IF t.kind = "read" THEN Len(t.got) <= t.done ELSE Len(f[t.dest]) = t.done

\* How the loop was left.
EndsForAReason(t) ==
  LET excused == (t.kind = "copy" /\ t.touched) \/ t.total < 0
  IN  /\ t.stage = "check" /\ ~t.flagged => t.done = t.total \/ excused
      /\ t.stage = "returned" => t.done = t.total
      /\ t.stage = "threw" => (t.reason = "cancelled" /\ t.flagged) \/ excused

TransferInv ==
  /\ TransferTypeOK
  /\ ~transfer.opened => transfer.stage \in {"idle", "threw"}
  /\ transfer.opened => FilesAreOpen(files, transfer) /\ BytesAreCounted(files, transfer)
                          /\ EndsForAReason(transfer)

\* A size that is put into an int gets no larger, and stays what it is if it fits.
LEMMA IntsAreKept ==
  ASSUME NEW n \in Nat
  PROVE  /\ PutIntoInt(n) \in Int /\ PutIntoInt(n) <= n
         /\ n < IntLimit => PutIntoInt(n) = n
<1> DEFINE m == 2 * IntLimit
           r == n % m
<1>1. m \in Nat \ {0} /\ IntLimit \in Nat /\ IntLimit < m
  BY TransfersAssumption
<1>2. r \in 0 .. m - 1 /\ r <= n /\ (n < m => r = n)
  <2> HIDE DEF m
  <2>1. r \in 0 .. m - 1 /\ n = m * (n \div m) + r /\ n \div m \in Nat
    BY <1>1
  <2>2. n < m => r = n
    BY <1>1
  <2>3. r <= n
    BY <1>1, <2>1, <2>2
  <2> QED
    BY <2>1, <2>2, <2>3
<1>3. PutIntoInt(n) = IF r < IntLimit THEN r ELSE r - m
  BY DEF PutIntoInt
<1> QED
  <2> HIDE DEF m, r
  <2> QED
    BY <1>1, <1>2, <1>3

\* The first bytes of a sequence.
LEMMA FirstBytesProperties ==
  ASSUME NEW s \in Seq(Int), NEW n \in Nat
  PROVE  /\ FirstBytes(s, n) \in Seq(Int)
         /\ Len(FirstBytes(s, n)) = Smaller(n, Len(s))
         /\ n >= Len(s) => FirstBytes(s, n) = s
         /\ n <= Len(s) => FirstBytes(s, n) = SubSeq(s, 1, n)
<1>1. Len(s) \in Nat
  BY LenProperties
<1>2. Smaller(n, Len(s)) \in 0 .. Len(s)
  BY <1>1 DEF Smaller
<1>3. SubSeq(s, 1, Smaller(n, Len(s))) \in Seq(Int)
      /\ Len(SubSeq(s, 1, Smaller(n, Len(s)))) = Smaller(n, Len(s))
  BY <1>1, <1>2, SubSeqProperties
<1>4. n >= Len(s) => Smaller(n, Len(s)) = Len(s)
  BY <1>1 DEF Smaller
<1>5. n <= Len(s) => Smaller(n, Len(s)) = n
  BY <1>1 DEF Smaller
<1>6. SubSeq(s, 1, Len(s)) = s
  BY SubSeqFull
<1> QED
  BY <1>3, <1>4, <1>5, <1>6 DEF FirstBytes

\* What is read next: no more than this run wants, and as much if there is so much.
NextOf(piece, s, at, n) ==
  /\ piece \in Seq(Int) /\ Len(piece) \in Nat /\ Len(piece) <= n
  /\ at + n <= Len(s) => Len(piece) = n /\ SubSeq(s, 1, at) \o piece = SubSeq(s, 1, at + n)

\* What Pump reads from one place on follows what is before that place.
LEMMA PiecesFollow ==
  ASSUME NEW s \in Seq(Int), NEW at \in Nat, NEW n \in Nat
  PROVE  NextOf(SubSeq(s, at + 1, Smaller(at + n, Len(s))), s, at, n)
<1> DEFINE top == Smaller(at + n, Len(s))
           piece == SubSeq(s, at + 1, top)
<1>1. Len(s) \in Nat
  BY LenProperties
<1>2. top \in 0 .. Len(s) /\ top <= at + n /\ (at + n <= Len(s) => top = at + n)
  BY <1>1 DEF Smaller
<1> HIDE DEF top
<1>3. piece \in Seq(Int) /\ Len(piece) = IF at + 1 <= top THEN top - at ELSE 0
  <2>1. CASE at + 1 <= top
    BY <1>1, <1>2, <2>1, SubSeqProperties
  <2>2. CASE top < at + 1
    BY <1>1, <1>2, <2>2, SubSeqEmpty
  <2> QED
    BY <1>1, <1>2, <2>1, <2>2
<1>4. ASSUME at + n <= Len(s)
      PROVE  SubSeq(s, 1, at) \o piece = SubSeq(s, 1, at + n)
  BY <1>1, <1>2, <1>4, ConcatAdjacentSubSeq
<1>5. Len(piece) \in Nat
  BY <1>3, LenProperties
<1> QED
  <2> DEFINE length == Len(piece)
  <2>1. length \in Nat /\ length = (IF at + 1 <= top THEN top - at ELSE 0)
    BY <1>3, <1>5
  <2> HIDE DEF length
  <2>2. length <= n /\ (at + n <= Len(s) => length = n)
    BY <1>1, <1>2, <2>1
  <2> HIDE DEF piece
  <2>3. NextOf(piece, s, at, n)
    BY <1>3, <1>4, <2>1, <2>2 DEF length, NextOf
  <2> QED
    BY <2>3 DEF top, piece

\* No bytes come before the first.
LEMMA NoBytes == ASSUME NEW s PROVE SubSeq(s, 1, 0) = <<>>
  BY SubSeqEmpty

\* A call that has not opened its files yet.
IsCall(call, kind, source, dest) ==
  /\ DOMAIN call = CallFields
  /\ call.stage = "idle" /\ call.kind = kind /\ call.source = source /\ call.dest = dest
  /\ call.total = 0 /\ call.done = 0 /\ call.got = <<>> /\ call.data = <<>>
  /\ ~call.opened /\ ~call.touched /\ ~call.short

\* A call starts with nothing counted.
LEMMA CallsAreNew ==
  ASSUME NEW kind, NEW source, NEW dest, NEW flag
  PROVE  IsCall(Called(kind, source, dest, flag), kind, source, dest)
<1> DEFINE set  == flag.given /\ flag.set
           call == Called(kind, source, dest, flag)
<1>1. call = [NoTransfer EXCEPT !.kind = kind, !.source = source, !.dest = dest, !.flag = flag.given, !.flagged = set]
  BY DEF Called
<1> HIDE DEF set, call
<1>2. IsCall(call, kind, source, dest)
  BY <1>1 DEF NoTransfer, IsCall, CallFields
<1> QED
  BY <1>2 DEF call

\* Files that could not be opened, or could.
LEMMA RefusedCalls ==
  ASSUME NEW call, NEW kind \in {"write", "copy", "read"}, NEW s, NEW d, IsCall(call, kind, s, d),
         transfer' = NotOpened(call), files' \in [FileNames -> Seq(Int) \cup {NoFile}]
  PROVE  TransferInv'
<1>1. /\ DOMAIN transfer' = CallFields /\ transfer'.stage = "threw" /\ transfer'.kind = kind
      /\ transfer'.total = 0 /\ transfer'.done = 0 /\ transfer'.got = <<>> /\ transfer'.data = <<>>
      /\ ~transfer'.opened
  BY DEF IsCall, CallFields, NotOpened
<1>2. TransferTypeOK'
  BY <1>1 DEF TransferTypeOK
<1> QED
  BY <1>1, <1>2 DEF TransferInv

\* Files that were opened: the loop begins with the invariant.
LEMMA BegunCalls ==
  ASSUME NEW call, NEW kind \in {"write", "copy", "read"}, NEW s, NEW d, IsCall(call, kind, s, d),
         NEW c \in Seq(Int), NEW n \in Int,
         transfer' = Begun(call, c, n), files' \in [FileNames -> Seq(Int) \cup {NoFile}],
         kind # "read" => d \in FileNames /\ files'[d] = <<>>,
         kind = "write" => n = Len(c),
         kind # "write" => s \in FileNames /\ n = PutIntoInt(Len(c)) /\ files'[s] = c,
         kind = "copy" /\ s = d => n = 0
  PROVE  TransferInv'
<1>1. /\ DOMAIN transfer' = CallFields /\ transfer'.stage = "loop" /\ transfer'.kind = kind
      /\ transfer'.total = n /\ transfer'.done = 0 /\ transfer'.got = <<>> /\ transfer'.data = c /\ transfer'.opened
      /\ transfer'.source = s /\ transfer'.dest = d /\ ~transfer'.touched /\ ~transfer'.short
  BY DEF IsCall, CallFields, Begun
<1>2. TransferTypeOK'
  BY <1>1 DEF TransferTypeOK
<1>3. <<>> \in Seq(Int) /\ Len(<<>>) = 0 /\ SubSeq(c, 1, 0) = <<>>
  BY NoBytes
<1>4. BytesAreCounted(files', transfer')
  <2>1. transfer'.done <= transfer'.total \/ (transfer'.done = 0 /\ transfer'.total < 0)
    BY <1>1
  <2>2. MovedBy(files', transfer') = <<>>
    BY <1>1 DEF MovedBy
  <2>3. SubSeq(transfer'.data, 1, transfer'.done) = <<>>
    BY <1>1, <1>3
  <2>4. IF transfer'.kind = "read" THEN Len(transfer'.got) <= transfer'.done
                                   ELSE Len(files'[transfer'.dest]) = transfer'.done
    BY <1>1, <1>3, <2>2 DEF MovedBy
  <2> QED
    BY <2>1, <2>2, <2>3, <2>4 DEF BytesAreCounted
<1>5. EndsForAReason(transfer')
  BY <1>1 DEF EndsForAReason
<1>6. FilesAreOpen(files', transfer')
  BY <1>1, <1>3, TransfersAssumption DEF FilesAreOpen
<1> QED
  BY <1>1, <1>2, <1>4, <1>5, <1>6 DEF TransferInv

\* A call begins.
LEMMA TransferBegins ==
  ASSUME TransferTypeOK, NEW name \in FileNames, NEW flag \in Flags, NEW data \in FileContents, NEW dest \in FileNames,
         StartWrite(name, data, flag) \/ StartCopy(name, dest, flag) \/ StartRead(name, flag)
  PROVE  TransferInv'
<1>1. /\ data \in Seq(Int) /\ <<>> \in Seq(Int) /\ Len(data) \in Nat /\ Len(<<>>) = 0
      /\ files \in [FileNames -> Seq(Int) \cup {NoFile}]
  BY TransfersAssumption, LenProperties DEF TransferTypeOK
<1>2. CASE StartWrite(name, data, flag)
  <2> DEFINE call == Called("write", "", name, flag)
  <2>1. IsCall(call, "write", "", name)
    BY CallsAreNew
  <2>2. CASE transfer' = NotOpened(call) /\ UNCHANGED files
    BY <1>1, <2>1, <2>2, RefusedCalls
  <2>3. CASE files' = [files EXCEPT ![name] = <<>>] /\ transfer' = Begun(call, data, Len(data))
    <3>1. files' \in [FileNames -> Seq(Int) \cup {NoFile}] /\ files'[name] = <<>>
      BY <1>1, <2>3
    <3>2. Len(data) \in Int
      BY <1>1
    <3> DEFINE kind == "write"
               n    == Len(data)
    <3> HIDE DEF call, n
    <3>3. n = Len(data) /\ n \in Int
      BY <3>2 DEF n
    <3> QED
      BY <1>1, <2>1, <2>3, <3>1, <3>3, BegunCalls
  <2> QED
    BY <1>2, <2>2, <2>3 DEF StartWrite
<1>3. CASE StartCopy(name, dest, flag)
  <2> DEFINE call == Called("copy", name, dest, flag)
             kept == [files EXCEPT ![dest] = <<>>]
  <2>1. IsCall(call, "copy", name, dest)
    BY CallsAreNew
  <2>2. kept \in [FileNames -> Seq(Int) \cup {NoFile}] /\ kept[dest] = <<>>
    BY <1>1
  <2>3. \/ transfer' = NotOpened(call) /\ files' \in {files, kept}
        \/ /\ files' = kept /\ kept[name] # NoFile
           /\ transfer' = Begun(call, kept[name], PutIntoInt(Len(kept[name])))
    BY <1>3 DEF StartCopy
  <2> HIDE DEF kept, call
  <2>4. CASE transfer' = NotOpened(call) /\ files' \in {files, kept}
    BY <1>1, <2>1, <2>2, <2>4, RefusedCalls
  <2>5. CASE /\ files' = kept /\ kept[name] # NoFile
             /\ transfer' = Begun(call, kept[name], PutIntoInt(Len(kept[name])))
    <3>1. kept[name] \in Seq(Int) /\ Len(kept[name]) \in Nat
      BY <2>2, <2>5, LenProperties
    <3>2. 0 < IntLimit /\ 0 \in Nat
      BY TransfersAssumption
    <3>3. PutIntoInt(Len(kept[name])) \in Int /\ (name = dest => PutIntoInt(Len(kept[name])) = 0)
      BY <1>1, <2>2, <3>1, <3>2, IntsAreKept
    <3> QED
      BY <2>1, <2>2, <2>5, <3>1, <3>3, BegunCalls
  <2> QED
    BY <2>3, <2>4, <2>5
<1>4. CASE StartRead(name, flag)
  <2> DEFINE call == Called("read", name, "", flag)
  <2>1. IsCall(call, "read", name, "")
    BY CallsAreNew
  <2>2. CASE transfer' = NotOpened(call) /\ UNCHANGED files
    BY <1>1, <2>1, <2>2, RefusedCalls
  <2>3. CASE /\ files[name] # NoFile /\ UNCHANGED files
             /\ transfer' = Begun(call, files[name], PutIntoInt(Len(files[name])))
    <3>1. files[name] \in Seq(Int) /\ Len(files[name]) \in Nat
      BY <1>1, <2>3, LenProperties
    <3>2. PutIntoInt(Len(files[name])) \in Int
      BY <3>1, IntsAreKept
    <3> HIDE DEF call
    <3> QED
      BY <1>1, <2>1, <2>3, <3>1, <3>2, BegunCalls
  <2> QED
    BY <1>4, <2>2, <2>3 DEF StartRead
<1> QED
  BY <1>2, <1>3, <1>4

\* What is written into an open file: the first n bytes of a piece.
IsWritten(f, g, name, piece, n) ==
  /\ g \in [FileNames -> Seq(Int) \cup {NoFile}]
  /\ g[name] # NoFile /\ Len(g[name]) = Len(f[name]) + n
  /\ n = Len(piece) => g[name] = f[name] \o piece
  /\ \A other \in FileNames \ {name} : g[other] = f[other]

\* What a chunk leaves in the file it is written to.
LEMMA WrittenOut ==
  ASSUME TransferTypeOK, NEW name \in FileNames, files[name] # NoFile,
         NEW piece \in Seq(Int), NEW n \in 0 .. Len(piece), WriteOut(name, piece, n)
  PROVE  IsWritten(files, files', name, piece, n)
<1> DEFINE first == FirstBytes(piece, n)
<1>0. Len(piece) \in Nat
  BY LenProperties
<1>1. /\ files[name] \in Seq(Int) /\ first \in Seq(Int)
      /\ Len(first) = n /\ (n = Len(piece) => first = piece)
  BY <1>0, FirstBytesProperties DEF TransferTypeOK, Smaller
<1>2. files' = [files EXCEPT ![name] = @ \o first]
  BY DEF WriteOut
<1> HIDE DEF first
<1>3. files[name] \o first \in Seq(Int) /\ Len(files[name] \o first) = Len(files[name]) + Len(first)
  BY <1>1, ConcatProperties
<1> QED
  BY <1>1, <1>2, <1>3, TransfersAssumption DEF TransferTypeOK, IsWritten

\* A chunk is moved.
LEMMA ChunkIsMoved ==
  ASSUME TransferInv, WriteChunk \/ CopyChunk \/ ReadChunk
  PROVE  TransferInv'
<1> USE DEF TransferInv, TransferTypeOK, CallFields
<1>0. transfer.opened /\ transfer'.opened
  BY DEF WriteChunk, CopyChunk, ReadChunk, MayGoOn
<1> DEFINE r == ThisRun
<1>1. /\ transfer.stage = "loop" /\ transfer.done < transfer.total /\ ~transfer.flagged
      /\ FilesAreOpen(files, transfer) /\ BytesAreCounted(files, transfer)
  BY <1>0 DEF WriteChunk, CopyChunk, ReadChunk, MayGoOn
<1>2. r \in Nat /\ r <= transfer.total - transfer.done /\ r > 0
  BY <1>1, TransfersAssumption DEF ThisRun, Smaller
<1>3. Len(transfer.data) \in Nat /\ transfer.total <= Len(transfer.data)
  <2>1. Len(transfer.data) \in Nat
    BY LenProperties
  <2> QED
    BY <1>1, <2>1, IntsAreKept DEF FilesAreOpen
<1>4. transfer.done + r <= Len(transfer.data)
  BY <1>1, <1>2, <1>3
<1> HIDE DEF r
<1>5. CASE WriteChunk
  <2> DEFINE piece == NextPiece(transfer.data, transfer.done)
  <2>1. PICK n \in 0 .. r : /\ WriteOut(transfer.dest, piece, n)
                            /\ transfer' = [transfer EXCEPT !.done = @ + r, !.short = @ \/ n < r]
    BY <1>5 DEF WriteChunk, r
  <2>2. transfer.kind = "write"
    BY <1>5 DEF WriteChunk
  <2>3. NextOf(piece, transfer.data, transfer.done, r)
    BY <1>2, PiecesFollow DEF NextPiece, r
  <2> DEFINE fails == transfer.short \/ n < r
  <2>4. transfer' = [transfer EXCEPT !.done = @ + r, !.short = fails]
    BY <2>1
  <2> HIDE DEF piece, fails
  <2>5. /\ piece \in Seq(Int) /\ Len(piece) = r
        /\ SubSeq(transfer.data, 1, transfer.done) \o piece = SubSeq(transfer.data, 1, transfer.done + r)
    BY <1>4, <2>3 DEF NextOf
  <2>6. IsWritten(files, files', transfer.dest, piece, n)
    BY <1>1, <1>2, <2>1, <2>2, <2>5, WrittenOut DEF FilesAreOpen
  <2>7. TransferTypeOK'
    BY <1>2, <2>4, <2>6 DEF IsWritten
  <2>8. /\ transfer'.stage = "loop" /\ transfer'.kind = "write" /\ transfer'.dest = transfer.dest
        /\ transfer'.total = transfer.total /\ transfer'.data = transfer.data
        /\ transfer'.done = transfer.done + r /\ transfer'.touched = transfer.touched
        /\ transfer'.short = fails
    BY <1>1, <2>2, <2>4
  <2>9. ~fails => n = r /\ ~transfer.short
    BY <1>2 DEF fails
  <2>10. FilesAreOpen(files', transfer')
    BY <1>1, <2>2, <2>6, <2>8 DEF FilesAreOpen, IsWritten
  <2>11. BytesAreCounted(files', transfer')
    <3>1. transfer'.done <= transfer'.total
      BY <1>1, <1>2, <2>8
    <3>2. ASSUME ~transfer'.short
          PROVE  /\ files'[transfer.dest] = files[transfer.dest] \o piece
                 /\ Len(files'[transfer.dest]) = Len(files[transfer.dest]) + r
                 /\ Len(files[transfer.dest]) = transfer.done
      BY <1>1, <2>2, <2>5, <2>6, <2>8, <2>9, <3>2 DEF BytesAreCounted, IsWritten
    <3>3. ~transfer'.short /\ ~transfer'.touched => files[transfer.dest] = SubSeq(transfer.data, 1, transfer.done)
      BY <1>1, <2>2, <2>8, <2>9 DEF BytesAreCounted, MovedBy
    <3> QED
      BY <2>5, <2>8, <3>1, <3>2, <3>3 DEF BytesAreCounted, MovedBy
  <2>12. EndsForAReason(transfer')
    BY <2>8 DEF EndsForAReason
  <2> QED
    BY <1>0, <2>7, <2>10, <2>11, <2>12
<1>6. CASE CopyChunk
  <2> DEFINE source == files[transfer.source]
             piece  == NextPiece(source, transfer.done)
             full   == Len(piece) = r
  <2>1. PICK n \in 0 .. Len(piece) :
             /\ WriteOut(transfer.dest, piece, n)
             /\ transfer' = [transfer EXCEPT !.done = @ + Len(piece), !.short = @ \/ n < Len(piece),
                                             !.stage = IF full THEN @ ELSE "check"]
    BY <1>6 DEF CopyChunk, r
  <2>2. transfer.kind = "copy"
    BY <1>6 DEF CopyChunk
  <2>3. /\ source \in Seq(Int) /\ transfer.source # transfer.dest /\ transfer.source \in FileNames
        /\ ~transfer.touched => source = transfer.data
    BY <1>1, <1>2, <2>2 DEF FilesAreOpen
  <2>4. NextOf(piece, source, transfer.done, r)
    BY <1>2, <2>3, PiecesFollow DEF NextPiece, r
  <2> DEFINE fails == transfer.short \/ n < Len(piece)
             stage == IF full THEN transfer.stage ELSE "check"
  <2>5. transfer' = [transfer EXCEPT !.done = @ + Len(piece), !.short = fails, !.stage = stage]
    BY <2>1
  <2> HIDE DEF piece, source, fails
  <2>6. piece \in Seq(Int) /\ Len(piece) \in Nat /\ Len(piece) <= r
    BY <2>4 DEF NextOf
  <2>7. ~transfer.touched => /\ full
                             /\ SubSeq(transfer.data, 1, transfer.done) \o piece = SubSeq(transfer.data, 1, transfer.done + r)
    BY <1>4, <2>3, <2>4 DEF NextOf
  <2>8. stage = (IF full THEN "loop" ELSE "check")
    BY <1>1
  <2> HIDE DEF full, stage
  <2>9. IsWritten(files, files', transfer.dest, piece, n)
    BY <1>1, <2>1, <2>2, <2>6, WrittenOut DEF FilesAreOpen
  <2>10. TransferTypeOK'
    BY <2>5, <2>6, <2>8, <2>9 DEF IsWritten
  <2>11. /\ transfer'.stage = stage /\ transfer'.kind = "copy"
         /\ transfer'.dest = transfer.dest /\ transfer'.source = transfer.source
         /\ transfer'.total = transfer.total /\ transfer'.data = transfer.data
         /\ transfer'.done = transfer.done + Len(piece) /\ transfer'.touched = transfer.touched
         /\ transfer'.short = fails
    BY <2>2, <2>5
  <2>12. ~fails => n = Len(piece) /\ ~transfer.short
    BY <2>6 DEF fails
  <2>13. FilesAreOpen(files', transfer')
    BY <1>1, <2>2, <2>3, <2>8, <2>9, <2>11 DEF FilesAreOpen, IsWritten
  <2>14. BytesAreCounted(files', transfer')
    <3>1. full => Len(piece) = r
      BY DEF full
    <3>2. transfer'.done <= transfer'.total
      BY <1>1, <1>2, <2>6, <2>11
    <3>3. ASSUME ~transfer'.short
          PROVE  /\ files'[transfer.dest] = files[transfer.dest] \o piece
                 /\ Len(files'[transfer.dest]) = Len(files[transfer.dest]) + Len(piece)
                 /\ Len(files[transfer.dest]) = transfer.done
      BY <1>1, <2>2, <2>9, <2>11, <2>12, <3>3 DEF BytesAreCounted, IsWritten
    <3>4. ~transfer'.short /\ ~transfer'.touched => files[transfer.dest] = SubSeq(transfer.data, 1, transfer.done)
      BY <1>1, <2>2, <2>11, <2>12 DEF BytesAreCounted, MovedBy
    <3>5. ~transfer'.touched => SubSeq(transfer.data, 1, transfer.done) \o piece
                                  = SubSeq(transfer.data, 1, transfer'.done)
      BY <2>7, <2>11, <3>1
    <3> HIDE DEF TransferInv, TransferTypeOK
    <3> QED
      BY <2>11, <3>2, <3>3, <3>4, <3>5 DEF BytesAreCounted, MovedBy
  <2>15. EndsForAReason(transfer')
    BY <2>7, <2>8, <2>11 DEF EndsForAReason
  <2> QED
    BY <1>0, <2>10, <2>13, <2>14, <2>15
<1>7. CASE ReadChunk
  <2> DEFINE source == files[transfer.source]
             length == Len(transfer.got)
             piece  == NextPiece(source, length)
  <2>1. /\ transfer' = [transfer EXCEPT !.got = @ \o piece, !.done = @ + r]
        /\ UNCHANGED files /\ transfer.kind = "read"
    BY <1>7 DEF ReadChunk, r
  <2>2. length \in Nat
    BY LenProperties
  <2>3. source \in Seq(Int) /\ (~transfer.touched => source = transfer.data)
    BY <1>1, <2>1 DEF FilesAreOpen
  <2>4. NextOf(piece, source, length, r)
    <3> HIDE DEF length, source
    <3> QED
      BY <1>2, <2>2, <2>3, PiecesFollow DEF NextPiece, r
  <2> HIDE DEF piece, source
  <2>5. piece \in Seq(Int) /\ Len(piece) \in Nat /\ Len(piece) <= r
    BY <2>4 DEF NextOf
  <2>6. transfer.got \o piece \in Seq(Int) /\ Len(transfer.got \o piece) = length + Len(piece)
    BY <2>5, ConcatProperties
  <2>7. TransferTypeOK'
    BY <1>2, <2>1, <2>6
  <2>8. /\ transfer'.stage = "loop" /\ transfer'.kind = "read" /\ transfer'.source = transfer.source
        /\ transfer'.total = transfer.total /\ transfer'.data = transfer.data
        /\ transfer'.done = transfer.done + r /\ transfer'.touched = transfer.touched
        /\ transfer'.short = transfer.short /\ transfer'.got = transfer.got \o piece
    BY <1>1, <2>1
  <2>9. FilesAreOpen(files', transfer')
    BY <1>1, <2>1, <2>8 DEF FilesAreOpen
  <2>10. ASSUME ~transfer.short, ~transfer.touched
         PROVE  transfer.got \o piece = SubSeq(transfer.data, 1, transfer.done + r)
    <3>1. transfer.got = SubSeq(transfer.data, 1, transfer.done)
      BY <1>1, <2>1, <2>10 DEF BytesAreCounted, MovedBy
    <3>2. length = transfer.done
      <4>1. 1 <= transfer.done => Len(SubSeq(transfer.data, 1, transfer.done)) = transfer.done
        BY <1>1, <1>3, SubSeqProperties
      <4>2. transfer.done = 0 => SubSeq(transfer.data, 1, transfer.done) = <<>>
        BY NoBytes
      <4> QED
        BY <3>1, <4>1, <4>2
    <3> QED
      BY <1>4, <2>3, <2>4, <2>10, <3>1, <3>2 DEF NextOf
  <2>11. BytesAreCounted(files', transfer')
    BY <1>1, <1>2, <2>1, <2>2, <2>5, <2>6, <2>8, <2>10 DEF BytesAreCounted, MovedBy
  <2>12. EndsForAReason(transfer')
    BY <2>8 DEF EndsForAReason
  <2> QED
    BY <1>0, <2>7, <2>9, <2>11, <2>12
<1> QED
  BY <1>5, <1>6, <1>7

\* The loop is left, the call ends, somebody cancels it or changes a file.
LEMMA TransferGoesOn ==
  ASSUME TransferInv, TransfersAssumption,
         \/ LeaveLoop \/ EndTransfer \/ RaiseFlag
         \/ \E name \in FileNames, content \in FileContents \cup {NoFile} : ChangeFile(name, content)
  PROVE  TransferInv'
<1> USE DEF TransferInv, TransferTypeOK, CallFields
<1>1. CASE LeaveLoop
  BY <1>1 DEF LeaveLoop, MayGoOn, FilesAreOpen, BytesAreCounted, MovedBy, EndsForAReason
<1>2. CASE EndTransfer
  BY <1>2 DEF EndTransfer, FilesAreOpen, BytesAreCounted, MovedBy, EndsForAReason
<1>3. CASE RaiseFlag
  BY <1>3 DEF RaiseFlag, FilesAreOpen, BytesAreCounted, MovedBy, EndsForAReason
<1>4. ASSUME NEW name \in FileNames, NEW content \in FileContents \cup {NoFile}, ChangeFile(name, content)
      PROVE  TransferInv'
  <2>1. /\ files' = [files EXCEPT ![name] = content] /\ files' \in [FileNames -> Seq(Int) \cup {NoFile}]
        /\ transfer' = [transfer EXCEPT !.touched = @ \/ name = transfer.source]
        /\ name # transfer.dest /\ (content = NoFile /\ name = transfer.source => ~Running)
    BY <1>4 DEF ChangeFile
  <2>2. TransferTypeOK'
    BY <2>1
  <2>3. transfer.opened => FilesAreOpen(files', transfer')
    BY <2>1 DEF FilesAreOpen, Running
  <2>4. transfer.opened => BytesAreCounted(files', transfer')
    BY <2>1 DEF BytesAreCounted, MovedBy, FilesAreOpen
  <2>5. transfer.opened => EndsForAReason(transfer')
    BY <2>1 DEF EndsForAReason
  <2> QED
    BY <2>1, <2>2, <2>3, <2>4, <2>5
<1> QED
  BY <1>1, <1>2, <1>3, <1>4

\* Every call keeps the invariant, and it starts with none.
LEMMA TransferStep ==
  ASSUME TransferInv, TransferNext PROVE TransferInv'
<1>1. CASE WriteChunk \/ CopyChunk \/ ReadChunk
  BY <1>1, ChunkIsMoved
<1>2. CASE \/ LeaveLoop \/ EndTransfer \/ RaiseFlag
           \/ \E name \in FileNames, content \in FileContents \cup {NoFile} : ChangeFile(name, content)
  BY <1>2, TransfersAssumption, TransferGoesOn
<1>3. ASSUME NEW name \in FileNames, NEW flag \in Flags,
             \/ \E data \in FileContents : StartWrite(name, data, flag)
             \/ \E dest \in FileNames : StartCopy(name, dest, flag)
             \/ StartRead(name, flag)
      PROVE  TransferInv'
  <2>1. TransferTypeOK /\ <<>> \in FileContents
    BY TransfersAssumption DEF TransferInv
  <2> QED
    BY <1>3, <2>1, TransferBegins
<1> QED
  BY <1>1, <1>2, <1>3 DEF TransferNext

\* No call has been made at first.
LEMMA TransferInitially == TransferInit => TransferInv
<1>1. <<>> \in Seq(Int)
  OBVIOUS
<1>2. ASSUME TransferInit
      PROVE  /\ DOMAIN transfer = CallFields /\ transfer.stage = "idle" /\ transfer.kind = "write"
             /\ transfer.total = 0 /\ transfer.done = 0 /\ transfer.got = <<>> /\ transfer.data = <<>>
             /\ ~transfer.opened
  BY <1>2 DEF TransferInit, NoTransfer, CallFields
<1>3. TransferInit => files \in [FileNames -> Seq(Int) \cup {NoFile}]
  BY TransfersAssumption DEF TransferInit
<1>4. TransferInit => TransferTypeOK
  <2> SUFFICES ASSUME TransferInit PROVE TransferTypeOK
    OBVIOUS
  <2>1. transfer.total \in Int /\ transfer.done \in Nat
    BY <1>2
  <2>2. transfer.got \in Seq(Int) /\ transfer.data \in Seq(Int)
    BY <1>1, <1>2
  <2> QED
    BY <1>2, <1>3, <2>1, <2>2 DEF TransferTypeOK
<1> QED
  BY <1>2, <1>4 DEF TransferInv

\* The invariant of the transfers is kept.
LEMMA TransferInvariant == TransferSpec => []TransferInv
<1>1. TransferInv /\ UNCHANGED <<files, transfer, port>> => TransferInv'
  <2> SUFFICES ASSUME TransferInv, UNCHANGED <<files, transfer, port>> PROVE TransferInv'
    OBVIOUS
  <2>1. files' = files /\ transfer' = transfer
    OBVIOUS
  <2> QED
    BY <2>1 DEF TransferInv, TransferTypeOK
<1> QED
  BY <1>1, TransferInitially, TransferStep, PTL DEF TransferSpec

\* A transfer moves the first bytes of the data and no others, returns with all of them, and
\* is given up only for a reason.
THEOREM TransfersStayWhole == TransferSpec => [](TransfersAreWhole /\ GivenUpForAReason)
<1>1. TransferInv => TransfersAreWhole
  <2> SUFFICES ASSUME TransferInv, transfer.opened PROVE TransfersAreWhole
    BY DEF TransfersAreWhole
  <2> DEFINE moved == MovedBy(files, transfer)
  <2>1. /\ transfer.done \in Nat /\ transfer.total \in Int /\ transfer.data \in Seq(Int) /\ transfer.got \in Seq(Int)
        /\ FilesAreOpen(files, transfer) /\ BytesAreCounted(files, transfer) /\ EndsForAReason(transfer)
    BY DEF TransferInv, TransferTypeOK
  <2>2. /\ Len(transfer.data) \in Nat /\ PutIntoInt(Len(transfer.data)) <= Len(transfer.data)
        /\ Len(transfer.data) < IntLimit => PutIntoInt(Len(transfer.data)) = Len(transfer.data)
    <3>1. Len(transfer.data) \in Nat
      BY <2>1, LenProperties
    <3> QED
      BY <3>1, IntsAreKept
  <2>3. /\ transfer.total <= Len(transfer.data)
        /\ Len(transfer.data) < IntLimit => transfer.total = Len(transfer.data)
    BY <2>1, <2>2 DEF FilesAreOpen
  <2>4. transfer.done <= Len(transfer.data)
    BY <2>1, <2>2, <2>3 DEF BytesAreCounted
  <2>5. /\ SubSeq(transfer.data, 1, transfer.done) = FirstBytes(transfer.data, transfer.done)
        /\ Len(FirstBytes(transfer.data, transfer.done)) = transfer.done
    BY <2>1, <2>2, <2>4, FirstBytesProperties DEF Smaller
  <2>6. ~transfer.short /\ ~transfer.touched =>
          moved = FirstBytes(transfer.data, transfer.done) /\ Len(moved) = transfer.done
    BY <2>1, <2>5 DEF BytesAreCounted
  <2>7. FirstBytes(transfer.data, Len(transfer.data)) = transfer.data
    BY <2>1, <2>2, FirstBytesProperties
  <2>8. transfer.stage = "returned" => transfer.done = transfer.total
    BY <2>1 DEF EndsForAReason
  <2>9. ~transfer.short => IF transfer.kind = "read" THEN Len(moved) <= transfer.done
                                                     ELSE Len(moved) = transfer.done
    BY <2>1 DEF BytesAreCounted, MovedBy
  <2>10. moved = IF transfer.kind = "read" THEN transfer.got ELSE files[transfer.dest]
    BY DEF MovedBy
  <2> HIDE DEF moved
  <2> QED
    BY <2>1, <2>3, <2>6, <2>7, <2>8, <2>9, <2>10 DEF TransfersAreWhole
<1>2. TransferInv => GivenUpForAReason
  <2> SUFFICES ASSUME TransferInv, transfer.opened, transfer.stage = "threw" PROVE GivenUpForAReason
    BY DEF GivenUpForAReason
  <2>1. /\ transfer.total \in Int /\ transfer.data \in Seq(Int)
        /\ FilesAreOpen(files, transfer) /\ EndsForAReason(transfer)
    BY DEF TransferInv, TransferTypeOK
  <2>2. Len(transfer.data) \in Nat
    BY <2>1, LenProperties
  <2>3. transfer.total < 0 => transfer.kind # "write" /\ Len(transfer.data) >= IntLimit
    <3>1. Len(transfer.data) < IntLimit => PutIntoInt(Len(transfer.data)) = Len(transfer.data)
      BY <2>2, IntsAreKept
    <3> QED
      BY <2>1, <2>2, <3>1, TransfersAssumption DEF FilesAreOpen
  <2> QED
    BY <2>1, <2>3 DEF EndsForAReason, GivenUpForAReason
<1> QED
  BY <1>1, <1>2, TransferInvariant, PTL

---------------------------------------------------------------------------
(* The serial port *)

PortTypeOK ==
  /\ DOMAIN port = {"handle", "open", "line", "up", "call", "asked", "tempchar", "got", "count",
                    "replaced", "taken"}
  /\ port.call \in {"none", "read", "write"} /\ port.asked \in Nat
  /\ 0 \notin port.open
  /\ port.line \in Seq(LineBytes) /\ port.taken \in Seq(LineBytes)
  /\ port.got \in Seq(LineBytes \cup {Junk}) /\ port.tempchar \in LineBytes \cup {Junk}

\* The handle is an open descriptor or none, and the only one unless that was overwritten.
DescriptorIsKnown ==
  /\ port.handle \in port.open \cup {0, -1}
  /\ ~port.replaced => port.open \subseteq {port.handle}

\* The last byte that was read, Junk before the first.
LastTaken(taken) == IF taken = <<>> THEN Junk ELSE taken[Len(taken)]

\* What is given out follows what is read, and tempchar is the byte that is given out when
\* nothing can be read.
BytesFollow ==
  /\ port.call = "write" => port.got = <<>>
  /\ port.got # <<>> \/ port.call = "read" =>
       Follows(port.got, port.taken) /\ port.tempchar = LastTaken(port.taken)

PortInv == PortTypeOK /\ DescriptorIsKnown /\ BytesFollow

\* Before anything is given out, nothing was read.
LEMMA NothingFollows == Follows(<<>>, <<>>)
<1> DEFINE at == [i \in 0 .. 0 |-> 0]
<1>1. at \in [0 .. 0 -> 0 .. 0] /\ at[0] = 0
  OBVIOUS
<1> HIDE DEF at
<1>2. Len(<<>>) = 0 /\ \A i \in 1 .. 0 : FALSE
  OBVIOUS
<1> QED
  BY <1>1, <1>2 DEF Follows

\* One byte more follows: one that is read now, or the last one again.
LEMMA OneMoreFollows ==
  ASSUME NEW got \in Seq(LineBytes \cup {Junk}), NEW taken \in Seq(LineBytes), Follows(got, taken)
  PROVE  /\ \A b \in LineBytes : Follows(Append(got, b), Append(taken, b))
         /\ Follows(Append(got, LastTaken(taken)), taken)
<1> DEFINE n == Len(got)
           m == Len(taken)
<1>1. /\ n \in Nat /\ m \in Nat /\ LastTaken(taken) \in LineBytes \cup {Junk}
      /\ \A i \in 1 .. m : taken[i] \in LineBytes
  <2>1. n \in Nat /\ m \in Nat /\ (taken # <<>> => m \in 1 .. m) /\ \A i \in 1 .. m : taken[i] \in LineBytes
    BY LenProperties, ElementOfSeq, EmptySeq
  <2> QED
    BY <2>1 DEF LastTaken
<1>2. PICK at \in [0 .. n -> 0 .. m] :
        /\ at[0] = 0 /\ at[n] = m
        /\ \A i \in 1 .. n : at[i] - at[i - 1] \in {0, 1} /\ got[i] = IF at[i] = 0 THEN Junk ELSE taken[at[i]]
  BY DEF Follows
<1>3. ASSUME NEW b \in LineBytes \cup {Junk}, NEW more \in Seq(LineBytes),
             \/ more = taken /\ b = LastTaken(taken)
             \/ b \in LineBytes /\ more = Append(taken, b)
      PROVE  Follows(Append(got, b), more)
  <2> DEFINE next == Append(got, b)
             k    == Len(more)
             to   == [i \in 0 .. n + 1 |-> IF i = n + 1 THEN k ELSE at[i]]
  <2>1. Len(next) = n + 1 /\ next[n + 1] = b /\ \A i \in 1 .. n : next[i] = got[i]
    BY AppendProperties
  <2>2. /\ k \in {m, m + 1} /\ \A i \in 1 .. m : more[i] = taken[i]
        /\ b = IF k = 0 THEN Junk ELSE more[k]
    <3>1. CASE more = taken /\ b = LastTaken(taken)
      BY <1>1, <3>1, EmptySeq DEF LastTaken
    <3>2. CASE b \in LineBytes /\ more = Append(taken, b)
      BY <1>1, <3>2, AppendProperties
    <3> QED
      BY <1>3, <3>1, <3>2
  <2> HIDE DEF next, k
  <2>3. /\ to \in [0 .. n + 1 -> 0 .. k] /\ to[n + 1] = k
        /\ \A i \in 0 .. n : to[i] = at[i] /\ at[i] \in 0 .. m
    <3>1. \A i \in 0 .. n : at[i] \in 0 .. m
      BY <1>2
    <3>2. k \in Nat /\ m <= k
      BY <1>1, <2>2
    <3>3. \A i \in 0 .. n + 1 : i # n + 1 => i \in 0 .. n
      BY <1>1
    <3>4. \A i \in 0 .. n : i \in 0 .. n + 1 /\ i # n + 1
      BY <1>1
    <3>5. \A i \in 0 .. n + 1 : (IF i = n + 1 THEN k ELSE at[i]) \in 0 .. k
      BY <1>1, <3>1, <3>2, <3>3
    <3>6. n + 1 \in 0 .. n + 1
      BY <1>1
    <3>7. to[n + 1] = k /\ \A i \in 0 .. n : to[i] = at[i]
      BY <3>4, <3>6
    <3> QED
      BY <3>1, <3>5, <3>7
  <2> HIDE DEF to
  <2>4. ASSUME NEW i \in 1 .. n + 1
        PROVE  to[i] - to[i - 1] \in {0, 1} /\ next[i] = IF to[i] = 0 THEN Junk ELSE more[to[i]]
    <3>1. CASE i = n + 1
      <4>1. to[i] = k /\ to[i - 1] = m /\ next[i] = b
        BY <1>1, <1>2, <2>1, <2>3, <3>1
      <4> QED
        BY <1>1, <2>2, <4>1
    <3>2. CASE i # n + 1
      <4>1. i \in 1 .. n /\ i - 1 \in 0 .. n /\ i \in 0 .. n
        BY <1>1, <3>2
      <4>2. to[i] = at[i] /\ to[i - 1] = at[i - 1] /\ next[i] = got[i] /\ at[i] \in 0 .. m
        BY <2>1, <2>3, <4>1
      <4>3. at[i] # 0 => more[at[i]] = taken[at[i]]
        BY <1>1, <2>2, <4>2
      <4> QED
        BY <1>2, <4>1, <4>2, <4>3
    <3> QED
      BY <3>1, <3>2
  <2>5. to[0] = 0 /\ to[Len(next)] = Len(more) /\ Len(next) = n + 1 /\ Len(more) = k
    BY <1>1, <1>2, <2>1, <2>3 DEF k
  <2>6. /\ to \in [0 .. Len(next) -> 0 .. Len(more)]
        /\ \A i \in 1 .. Len(next) :
             to[i] - to[i - 1] \in {0, 1} /\ next[i] = IF to[i] = 0 THEN Junk ELSE more[to[i]]
    BY <2>3, <2>4, <2>5
  <2>7. Follows(next, more)
    BY <2>5, <2>6 DEF Follows
  <2> QED
    BY <2>7 DEF next
<1>4. ASSUME NEW b \in LineBytes PROVE Append(taken, b) \in Seq(LineBytes)
  BY <1>4, AppendProperties
<1> QED
  BY <1>1, <1>3, <1>4

\* A byte is moved: it is given out if it was to be read, and is the last one that was read.
LEMMA ByteIsMoved ==
  ASSUME PortInv, NEW result \in {-1, 0, 1}, NEW byte \in LineBytes \cup {Junk},
         result = 1 => byte \in LineBytes,
         port.call = "read" /\ result # 1 => byte = port.tempchar,
         port.call # "none", port.asked > 0, port' = Moved(result, byte),
         result = 1 /\ port.call = "read" /\ port.handle \in port.open => port.line # <<>>
  PROVE  PortInv'
<1> DEFINE got   == IF port.call = "read" THEN Append(port.got, byte) ELSE port.got
           taken == IF result = 1 THEN Append(port.taken, byte) ELSE port.taken
           line  == IF result = 1 /\ port.call = "read" /\ port.handle \in port.open THEN Tail(port.line)
                    ELSE port.line
           count == (port.count + result) % Word
<1>1. PortTypeOK /\ DescriptorIsKnown /\ BytesFollow
  BY DEF PortInv
<1>2. port' = [port EXCEPT !.asked = @ - 1, !.count = count, !.tempchar = byte, !.got = got, !.taken = taken,
                           !.line = line]
  BY DEF Moved
<1>3. /\ port.call \in {"read", "write"} /\ port.asked \in Nat \ {0}
      /\ port.line \in Seq(LineBytes) /\ port.taken \in Seq(LineBytes) /\ port.got \in Seq(LineBytes \cup {Junk})
  BY <1>1 DEF PortTypeOK
<1>4. taken \in Seq(LineBytes) /\ got \in Seq(LineBytes \cup {Junk}) /\ line \in Seq(LineBytes)
  BY <1>3, AppendProperties, HeadTailProperties
<1>5. port.call = "read" => Follows(got, taken) /\ byte = LastTaken(taken)
  <2> SUFFICES ASSUME port.call = "read" PROVE Follows(got, taken) /\ byte = LastTaken(taken)
    OBVIOUS
  <2>1. Follows(port.got, port.taken) /\ port.tempchar = LastTaken(port.taken)
    BY <1>1 DEF BytesFollow
  <2>2. CASE result = 1
    <3>1. byte \in LineBytes /\ taken = Append(port.taken, byte) /\ got = Append(port.got, byte)
      BY <2>2
    <3>2. byte = LastTaken(taken)
      BY <1>3, <3>1, AppendProperties DEF LastTaken
    <3> QED
      BY <1>3, <2>1, <3>1, <3>2, OneMoreFollows
  <2>3. CASE result # 1
    <3>1. byte = LastTaken(port.taken) /\ taken = port.taken /\ got = Append(port.got, LastTaken(port.taken))
      BY <2>1, <2>3
    <3> QED
      BY <1>3, <2>1, <3>1, OneMoreFollows
  <2> QED
    BY <2>2, <2>3
<1>6. port.call = "write" => got = <<>>
  BY <1>1 DEF BytesFollow
<1> HIDE DEF got, taken, line, count
<1>7. /\ port'.handle = port.handle /\ port'.open = port.open /\ port'.line = line /\ port'.call = port.call
      /\ port'.asked = port.asked - 1 /\ port'.tempchar = byte /\ port'.got = got
      /\ port'.replaced = port.replaced /\ port'.taken = taken
      /\ DOMAIN port' = DOMAIN port
  BY <1>1, <1>2 DEF PortTypeOK
<1>8. PortTypeOK'
  BY <1>1, <1>3, <1>4, <1>7 DEF PortTypeOK
<1>9. DescriptorIsKnown'
  BY <1>1, <1>7 DEF DescriptorIsKnown
<1>10. BytesFollow'
  BY <1>3, <1>5, <1>6, <1>7 DEF BytesFollow
<1> QED
  BY <1>8, <1>9, <1>10 DEF PortInv

\* The bytes of the calls.
LEMMA BytesAreMoved ==
  ASSUME PortInv, ReadByte \/ WriteByte PROVE PortInv'
<1>1. PortTypeOK
  BY DEF PortInv
<1>2. ASSUME port.line # <<>> PROVE Head(port.line) \in LineBytes
  BY <1>1, <1>2, HeadTailProperties DEF PortTypeOK
<1>3. CASE ReadByte
  <2> USE DEF PortTypeOK
  <2>1. CASE port.handle \in port.open /\ port.line # <<>> /\ port' = Moved(1, Head(port.line))
    BY <1>2, <1>3, <2>1, ByteIsMoved DEF ReadByte
  <2>2. CASE port' \in {Moved(0, port.tempchar), Moved(-1, port.tempchar)}
    BY <1>1, <1>3, <2>2, ByteIsMoved DEF ReadByte
  <2>3. ASSUME NEW b \in LineBytes, port.handle = 0, port' = Moved(1, b), port.handle \notin port.open \/ port.line # <<>>
        PROVE  PortInv'
    BY <1>3, <2>3, ByteIsMoved DEF ReadByte
  <2> QED
    <3>1. \/ port.handle \in port.open /\ port.line # <<>> /\ port' = Moved(1, Head(port.line))
          \/ port' \in {Moved(0, port.tempchar), Moved(-1, port.tempchar)}
          \/ port.handle = 0 /\ \E b \in LineBytes : port' = Moved(1, b)
      BY <1>3 DEF ReadByte
    <3>2. PICK b : \/ port.handle \in port.open /\ port.line # <<>> /\ port' = Moved(1, Head(port.line))
                   \/ port' \in {Moved(0, port.tempchar), Moved(-1, port.tempchar)}
                   \/ port.handle = 0 /\ b \in LineBytes /\ port' = Moved(1, b)
      BY <3>1
    <3>3. CASE port.handle = 0 /\ b \in LineBytes /\ port' = Moved(1, b)
      BY <1>1, <2>3, <3>3
    <3> QED
      BY <2>1, <2>2, <3>2, <3>3
<1>4. CASE WriteByte
  <2>1. ASSUME NEW b \in LineBytes, NEW result \in {-1, 1}, port' = Moved(result, b)
        PROVE  PortInv'
    BY <1>4, <2>1, ByteIsMoved DEF WriteByte
  <2> QED
    BY <1>4, <2>1 DEF WriteByte
<1> QED
  BY <1>3, <1>4

\* The other calls, and the other end of the line.
LEMMA PortGoesOn ==
  ASSUME PortInv,
         \/ Initialize \/ ClosePort \/ EndBytes \/ Line
         \/ \E asked, room \in 0 .. MaxLine : StartBytes("read", asked, room)
         \/ \E len \in 0 .. MaxLine : StartBytes("write", len, len)
  PROVE  PortInv'
<1>1. PortTypeOK /\ DescriptorIsKnown /\ BytesFollow
  BY DEF PortInv
<1>2. CASE Initialize
  <2> DEFINE fresh == port.replaced \/ port.handle \in port.open
  <2>1. PICK fd, open : /\ port.handle \notin port.open => open \subseteq port.open \cup {fd}
                        /\ 0 \notin open /\ fd \in open \cup {0, -1}
                        /\ \/ port' = [port EXCEPT !.replaced = fresh, !.handle = fd, !.open = open]
                           \/ port' = [port EXCEPT !.replaced = fresh, !.handle = fd, !.open = open, !.line = <<>>]
    <3> DEFINE before == [port EXCEPT !.replaced = fresh]
    <3>1. /\ DOMAIN before = DOMAIN port /\ before.open = port.open /\ before.line = port.line
          /\ \/ port' = [before EXCEPT !.handle = -1]
             \/ \E fd \in Descriptors \ port.open :
                  \/ port' = [before EXCEPT !.handle = fd, !.open = @ \cup {fd}]
                  \/ port' = [[before EXCEPT !.handle = fd, !.open = @ \cup {fd}] EXCEPT !.line = <<>>]
      BY <1>1, <1>2 DEF Initialize, PortTypeOK
    <3> HIDE DEF fresh
    <3>2. CASE port' = [before EXCEPT !.handle = -1]
      <4>1. port' = [port EXCEPT !.replaced = fresh, !.handle = -1, !.open = port.open]
        BY <1>1, <3>1, <3>2 DEF PortTypeOK
      <4>2. 0 \notin port.open
        BY <1>1 DEF PortTypeOK
      <4> QED
        BY <4>1, <4>2
    <3>3. ASSUME NEW fd, \/ port' = [before EXCEPT !.handle = fd, !.open = @ \cup {fd}]
                         \/ port' = [[before EXCEPT !.handle = fd, !.open = @ \cup {fd}] EXCEPT !.line = <<>>]
          PROVE  \/ port' = [port EXCEPT !.replaced = fresh, !.handle = fd, !.open = port.open \cup {fd}]
                 \/ port' = [port EXCEPT !.replaced = fresh, !.handle = fd, !.open = port.open \cup {fd}, !.line = <<>>]
      BY <1>1, <3>1, <3>3 DEF PortTypeOK
    <3>4. 0 \notin Descriptors /\ 0 \notin port.open
      BY <1>1 DEF Descriptors, PortTypeOK
    <3> QED
      BY <3>1, <3>2, <3>3, <3>4
  <2> HIDE DEF fresh
  <2>2. /\ port'.handle = fd /\ port'.open = open /\ port'.line \in {port.line, <<>>} /\ port'.call = port.call
        /\ port'.asked = port.asked /\ port'.tempchar = port.tempchar /\ port'.got = port.got
        /\ port'.replaced = fresh /\ port'.taken = port.taken
        /\ DOMAIN port' = DOMAIN port
    BY <1>1, <2>1 DEF PortTypeOK
  <2>3. PortTypeOK'
    <3>1. <<>> \in Seq(LineBytes)
      OBVIOUS
    <3> QED
      BY <1>1, <2>1, <2>2, <3>1 DEF PortTypeOK
  <2>4. DescriptorIsKnown'
    BY <1>1, <2>1, <2>2 DEF DescriptorIsKnown, fresh
  <2>5. BytesFollow'
    BY <1>1, <2>2 DEF BytesFollow
  <2> QED
    BY <2>3, <2>4, <2>5 DEF PortInv
<1>3. CASE ClosePort
  BY <1>1, <1>3 DEF ClosePort, PortInv, PortTypeOK, DescriptorIsKnown, BytesFollow
<1>4. CASE EndBytes
  BY <1>1, <1>4 DEF EndBytes, PortInv, PortTypeOK, DescriptorIsKnown, BytesFollow, Resting
<1>5. CASE Line
  <2>1. PICK line \in Seq(LineBytes) : \E up : port' = [port EXCEPT !.line = line, !.up = up]
    <3>1. \A b \in LineBytes : Append(port.line, b) \in Seq(LineBytes)
      BY <1>1, AppendProperties DEF PortTypeOK
    <3>2. ASSUME NEW b \in LineBytes, port' = [port EXCEPT !.line = Append(@, b)]
          PROVE  port' = [port EXCEPT !.line = Append(port.line, b), !.up = port.up]
      BY <1>1, <3>2 DEF PortTypeOK
    <3>3. ASSUME port' = [port EXCEPT !.up = ~@]
          PROVE  port' = [port EXCEPT !.line = port.line, !.up = ~port.up]
      BY <1>1, <3>3 DEF PortTypeOK
    <3> QED
      BY <1>1, <1>5, <3>1, <3>2, <3>3 DEF Line, PortTypeOK
  <2> QED
    BY <1>1, <2>1 DEF PortInv, PortTypeOK, DescriptorIsKnown, BytesFollow
<1>6. ASSUME NEW call \in {"read", "write"}, NEW asked \in 0 .. MaxLine, NEW room \in 0 .. MaxLine,
             StartBytes(call, asked, room)
      PROVE  PortInv'
  <2>1. MaxLine \in Nat /\ Smaller(asked, room) \in 0 .. MaxLine /\ <<>> \in Seq(LineBytes)
        /\ <<>> \in Seq(LineBytes \cup {Junk}) /\ Len(<<>>) = 0
    BY TransfersAssumption DEF Smaller
  <2>2. /\ port'.handle = port.handle /\ port'.open = port.open /\ port'.line = port.line /\ port'.call = call
        /\ port'.asked = Smaller(asked, room) /\ port'.tempchar = Junk /\ port'.got = <<>>
        /\ port'.replaced = port.replaced /\ port'.taken = <<>>
        /\ DOMAIN port' = DOMAIN port
    BY <1>1, <1>6 DEF PortTypeOK, StartBytes
  <2> HIDE DEF Smaller
  <2>3. PortTypeOK'
    BY <1>1, <2>1, <2>2 DEF PortTypeOK
  <2>4. DescriptorIsKnown'
    BY <1>1, <2>2 DEF DescriptorIsKnown
  <2>5. BytesFollow'
    BY <2>2, NothingFollows DEF BytesFollow, LastTaken
  <2> QED
    BY <2>3, <2>4, <2>5 DEF PortInv
<1> QED
  BY <1>2, <1>3, <1>4, <1>5, <1>6

\* A handle is an open descriptor or none, and the only one open unless it was overwritten; and
\* what is given out is what was read, in order, or the byte before again.
THEOREM PortStaysHonest == PortSpec => []PortIsHonest
<1>1. PortInit => PortInv
  <2> SUFFICES ASSUME PortInit PROVE PortInv
    OBVIOUS
  <2>1. MaxLine \in Nat /\ <<>> \in Seq(LineBytes) /\ <<>> \in Seq(LineBytes \cup {Junk}) /\ Len(<<>>) = 0
    BY TransfersAssumption
  <2> QED
    BY <2>1 DEF PortInit, NewPort, PortInv, PortTypeOK, DescriptorIsKnown, BytesFollow
<1>2. PortInv /\ [PortNext]_<<files, transfer, port>> => PortInv'
  <2> SUFFICES ASSUME PortInv, [PortNext]_<<files, transfer, port>> PROVE PortInv'
    OBVIOUS
  <2>1. CASE PortNext
    BY <2>1, BytesAreMoved, PortGoesOn DEF PortNext
  <2>2. CASE UNCHANGED <<files, transfer, port>>
    <3>1. port' = port
      BY <2>2
    <3> QED
      BY <3>1 DEF PortInv, PortTypeOK, DescriptorIsKnown, BytesFollow
  <2> QED
    BY <2>1, <2>2
<1>3. PortInv => PortIsHonest
  BY DEF PortInv, DescriptorIsKnown, BytesFollow, PortIsHonest
<1> QED
  BY <1>1, <1>2, <1>3, PTL DEF PortSpec
=============================================================================
