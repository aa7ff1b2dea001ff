----------------------------- MODULE Encodings -----------------------------
(***************************************************************************)
(* What String (src/core/data_objects/string.cpp) knows of encodings:      *)
(* UTF-8 and the iterator over its characters, upper and lower case, base  *)
(* 64 and base 16.  A char is a byte from 0 to 255; the sign it has in C   *)
(* matters to none of these.                                               *)
(*                                                                         *)
(* And the XML of Variant and VariantTable (src/qt/data_objects), a        *)
(* sequence of start and end elements.  Texts are written in UTF-8 and     *)
(* base 64, numbers and identifiers as Qt prints and parses them: an       *)
(* attribute is a text, or the fields without the commas between them.     *)
(* What is read was made by WriteXml; if it is cut off, ReadXml looks for  *)
(* its end forever.                                                        *)
(***************************************************************************)
EXTENDS Integers, Sequences, FiniteSets

LOCAL INSTANCE SequencesExt
LOCAL INSTANCE FiniteSetsExt

CONSTANTS SampleBytes,   \* the bytes that strings are made of,
          MaxBytes,      \* how many at most,
          SamplePoints,  \* and the code points that are converted (bounds)
          Scalars,       \* variants that are neither lists nor maps (a bound),
          MapKeys,       \* the keys of maps, sequences of code points (a bound),
          MaxNesting     \* and how deep lists and maps are nested (a bound)

ASSUME SampleAssumption ==
  SampleBytes \subseteq 0 .. 255 /\ MaxBytes \in Nat /\ SamplePoints \subseteq Nat

ASSUME NestingAssumption == MaxNesting \in Nat

VARIABLES bytes,         \* a string of any bytes
          variant        \* <<its type, its value>>

NoValue == -1            \* GUINT32_MAX, or an exception
Pow(n)  == 2 ^ n

---------------------------------------------------------------------------
(* UTF-8 *)

IsContinuationByte(b) == b \div 64 = 2
IsStartByte(b)        == ~IsContinuationByte(b)

\* FSB8: the highest bit that is set.
HighBit(b) == CHOOSE k \in 0 .. 7 : b \div Pow(k) = 1

\* MultiByteLength: how many bits of the first byte are set before the first that is
\* not; FSB8 of nothing is 0xFF, the number -1.
MultiByteLength(b) == IF b = 255 THEN 8
                      ELSE IF HighBit(255 - b) = 7 THEN 1 ELSE 7 - HighBit(255 - b)

\* IsValidUTF8Sequence looks at the bytes from i to j - 1, also when they are not all
\* of them in the string: behind it there is the null.
ByteAt(s, i) == IF i \in 1 .. Len(s) THEN s[i] ELSE 0

IsValidSequence(s, i, j) ==
  IsStartByte(ByteAt(s, i)) /\ \A k \in i + 1 .. j - 1 : IsContinuationByte(ByteAt(s, k))

IsCharacterAt(s, i) == IsValidSequence(s, i, i + MultiByteLength(ByteAt(s, i)))

UnicodeValue(s, i, n) ==
  LET low(k) == ByteAt(s, k) % 64
  IN  IF n > 7 \/ ~IsStartByte(ByteAt(s, i)) THEN NoValue
      ELSE IF ByteAt(s, i) < 128 THEN ByteAt(s, i)
      ELSE IF \E k \in i + 1 .. i + n - 1 : ~IsContinuationByte(ByteAt(s, k)) THEN NoValue
      ELSE FoldLeft(LAMBDA v, k : v * 64 + low(k), ByteAt(s, i) % Pow(7 - n),
                    [k \in 1 .. n - 1 |-> i + k])

\* __get_utf8_bytes_necessary.
BytesNecessary(u) ==
  IF u < Pow(7) THEN 1 ELSE IF u < Pow(11) THEN 2 ELSE IF u < Pow(16) THEN 3
  ELSE IF u < Pow(21) THEN 4 ELSE IF u < Pow(26) THEN 5 ELSE 6

\* A bug to detect: the first byte says one byte less.
CharFromUnicodeShort(u) ==
  LET n == BytesNecessary(u)
  IN  [k \in 1 .. n |-> IF k = 1 THEN 256 - Pow(9 - n) + (u \div Pow(6 * (n - 1)))
                        ELSE 128 + ((u \div Pow(6 * (n - k))) % 64)]

CharFromUnicode(u) ==
  LET n == BytesNecessary(u)
  IN  IF n = 1 THEN <<u>>
      ELSE [k \in 1 .. n |-> IF k = 1 THEN 256 - Pow(8 - n) + (u \div Pow(6 * (n - 1)))
                             ELSE 128 + ((u \div Pow(6 * (n - k))) % 64)]

\* The iterator, at a byte from 1 on; Len(s) + 1 is the end.  A byte that begins no
\* character is passed by itself.
NextChar(s, i) ==
  LET n == MultiByteLength(ByteAt(s, i))
  IN  IF IsCharacterAt(s, i) /\ i + n <= Len(s) + 1 THEN i + n
      ELSE IF i <= Len(s) THEN i + 1 ELSE i

\* It goes back over the continuation bytes, and past the first character.
RECURSIVE PriorChar(_, _)
PriorChar(s, i) == IF i - 1 >= 1 /\ IsContinuationByte(ByteAt(s, i - 1)) THEN PriorChar(s, i - 1)
                   ELSE i - 1

RECURSIVE CharsFrom(_, _)
CharsFrom(s, i) == IF i > Len(s) THEN <<>> ELSE <<i>> \o CharsFrom(s, NextChar(s, i))

\* LengthUTF8() counts up to the null.  Bytes that are said to belong to a character are
\* not looked at, so that the null behind the string may be passed; then the result is
\* left open.
RECURSIVE LengthUTF8(_, _)
LengthUTF8(s, i) ==
  LET next == IF IsStartByte(ByteAt(s, i)) THEN i + MultiByteLength(ByteAt(s, i)) ELSE i + 1
  IN  IF ByteAt(s, i) = 0 THEN 0 ELSE 1 + LengthUTF8(s, next)

\* A null ends the iterator of IsValidUTF8, whatever follows it.
CharsToNull(s) ==
  LET chars == CharsFrom(s, 1)
  IN  SubSeq(chars, 1, Min({Len(chars)} \cup {k - 1 : k \in {j \in DOMAIN chars : s[chars[j]] = 0}}))

BadBytes(s) == Len(SelectSeq(CharsToNull(s), LAMBDA i : ~IsCharacterAt(s, i)))

IsValidUTF8(s) == BadBytes(s) = 0

\* ChopUTF8, for at most as many characters as there are: one more goes below the
\* beginning of the string.
ChopUTF8(s, n) ==
  LET back == FoldLeft(LAMBDA i, k : PriorChar(s, i), Len(s) + 1, [k \in 1 .. n |-> k])
  IN  IF n >= Len(s) THEN <<>> ELSE SubSeq(s, 1, back - 1)

IsWhitespaceAt(s, i) ==
  LET u == UnicodeValue(s, i, MultiByteLength(ByteAt(s, i)))
  IN  u # NoValue /\ (u <= 32 \/ u = 127)

RECURSIVE SkipBlanks(_, _)
SkipBlanks(s, i) == IF i <= Len(s) /\ IsWhitespaceAt(s, i) THEN SkipBlanks(s, NextChar(s, i)) ELSE i

RECURSIVE SkipBlanksBack(_, _)
SkipBlanksBack(s, i) == IF i >= 1 /\ IsWhitespaceAt(s, i) THEN SkipBlanksBack(s, PriorChar(s, i)) ELSE i

\* Trimmed: two iterators, from the first and from the last byte, that stop at what is
\* no blank; the second one then takes one step forward.  Behind only blanks and bytes
\* that begin no character it goes on before the beginning of the string.
TrimmedIsDefined(s) == SkipBlanks(s, 1) <= Len(s) => SkipBlanksBack(s, Len(s)) >= 1

\* A bug to detect: the second iterator stays where it stops.
TrimmedShort(s) ==
  LET front == SkipBlanks(s, 1)
  IN  IF front > Len(s) THEN <<>> ELSE SubSeq(s, front, SkipBlanksBack(s, Len(s)) - 1)

Trimmed(s) ==
  LET front == SkipBlanks(s, 1)
  IN  IF front > Len(s) THEN <<>> ELSE SubSeq(s, front, NextChar(s, SkipBlanksBack(s, Len(s))) - 1)

---------------------------------------------------------------------------
(* Upper and lower case *)

IsEven(u) == u % 2 = 0

\* Latin letters beyond the first 256: each upper case letter is followed by its lower
\* case, either from an even number on or from an odd one, or it stands by itself.
EvenUpper == 256 .. 310 \cup 330 .. 374 \cup 478 .. 494 \cup (500 .. 562 \ {544})
OddUpper  == 313 .. 327 \cup 377 .. 381 \cup 461 .. 475
LoneUpper == {386, 388, 391, 393, 395, 398, 400, 403, 406, 408, 410, 413, 416, 418,
              420, 423, 426, 428, 431, 433, 435, 437, 440}

PairedUpper(u) == (u \in EvenUpper /\ IsEven(u)) \/ (u \in OddUpper /\ ~IsEven(u)) \/ u \in LoneUpper
PairedLower(u) ==
  \/ u \in 257 .. 311 \cup 331 .. 375 \cup 479 .. 495 \cup (501 .. 563 \ {545}) /\ ~IsEven(u)
  \/ u \in 314 .. 328 \cup 378 .. 382 \cup 462 .. 476 /\ IsEven(u)
  \/ u - 1 \in LoneUpper

InLatin1Upper(u) == u \in 192 .. 222 \ {208, 215}

\* It is 240 that is left out here, not the division sign, 247.
InLatin1Lower(u) == u \in 224 .. 254 \ {223, 240}

\* 439 and 442 belong together; the Greek letters are at a distance of 32.
IsUpper(u) == \/ u \in 65 .. 90 \/ InLatin1Upper(u) \/ u = 439
              \/ PairedUpper(u) \/ u \in 913 .. 937
IsLower(u) == \/ u \in 97 .. 122 \/ InLatin1Lower(u) \/ u = 442
              \/ PairedLower(u) \/ u \in 945 .. 969

ToLower(u) == CASE u \in 65 .. 90 \/ InLatin1Upper(u) \/ u \in 913 .. 937 -> u + 32
                [] PairedUpper(u) -> u + 1
                [] u = 439        -> u + 3
                [] OTHER          -> u

\* The sigma at the end of a word, 962, is raised as the other one.
ToUpper(u) == CASE u = 962        -> 931
                [] u \in 97 .. 122 \/ InLatin1Lower(u) \/ u \in 945 .. 969 -> u - 32
                [] PairedLower(u) -> u - 1
                [] u = 442        -> u - 3
                [] OTHER          -> u

---------------------------------------------------------------------------
(* Base 64 and base 16 *)

Pad == -1                \* the digit '='

\* Each byte gives six bits of it and of the bits that are left over from the one
\* before; every third one a second digit.
ToBase64(s) ==
  LET nth(i)   == (i - 1) % 3
      left(i)  == s[i] % Pow(2 * (nth(i) + 1))             \* `mem`
      before(i) == IF nth(i) = 0 THEN 0 ELSE left(i - 1)
      digit(i) == before(i) * Pow(6 - 2 * nth(i)) + (s[i] \div Pow(2 * (nth(i) + 1)))
      r        == Len(s) % 3
  IN  FlattenSeq([i \in 1 .. Len(s) |-> IF i % 3 = 0 THEN <<digit(i), left(i)>> ELSE <<digit(i)>>])
      \o (IF r = 0 THEN <<>> ELSE <<left(Len(s)) * Pow(6 - 2 * r)>> \o [k \in 1 .. 3 - r |-> Pad])

\* Four digits at a time.  '=' in the first two places is taken as the number -1, in the
\* last two of an earlier group as the end of that group; only in the last place of an
\* earlier group and before a digit it is an exception.
FromDigits(a, b, c, d) ==
  <<(a * 4 + (b \div 16)) % 256>>
  \o (IF c = Pad THEN <<>> ELSE <<(b * 16 + (c \div 4)) % 256>>)
  \o (IF c = Pad \/ d = Pad THEN <<>> ELSE <<(c * 64 + d) % 256>>)

\* A bug to detect: no group may end early but the last, not even "xx==".
IsBase64Strict(s) == /\ Len(s) % 4 = 0
                     /\ \A i \in 1 .. Len(s) : s[i] = Pad => i > Len(s) - 1

IsBase64(s) == /\ Len(s) % 4 = 0
               /\ \A i \in 1 .. Len(s) : i % 4 = 0 =>
                    IF s[i - 1] = Pad THEN s[i] = Pad ELSE s[i] = Pad => i = Len(s)

FromBase64(s) ==
  IF ~IsBase64(s) THEN <<NoValue>>
  ELSE FlattenSeq([g \in 1 .. Len(s) \div 4 |->
         FromDigits(s[4 * g - 3], s[4 * g - 2], s[4 * g - 1], s[4 * g])])

\* HexToChar and CharToHex: capital letters; small ones are read as well.
HexDigit(n) == IF n < 10 THEN 48 + n ELSE 55 + n
HexValue(c) ==
  LET big == IF c >= 97 /\ c < 128 THEN c - 32 ELSE c
  IN  CASE big \in 48 .. 57 -> big - 48
        [] big \in 65 .. 70 -> big - 55
        [] OTHER            -> NoValue

ToBase16(s) == FlattenSeq([i \in 1 .. Len(s) |-> <<HexDigit(s[i] \div 16), HexDigit(s[i] % 16)>>])

FromBase16(s) ==
  IF Len(s) % 2 = 1 \/ \E i \in 1 .. Len(s) : HexValue(s[i]) = NoValue THEN <<NoValue>>
  ELSE [k \in 1 .. Len(s) \div 2 |-> HexValue(s[2 * k - 1]) * 16 + HexValue(s[2 * k])]

---------------------------------------------------------------------------
(* The XML of a Variant *)

Invalid == <<"Invalid", 0>>

XmlElement(name, attributes, inside) ==
  <<[tag |-> "start", name |-> name, attributes |-> attributes]>> \o inside
  \o <<[tag |-> "end", name |-> name, attributes |-> <<>>]>>

\* QString::arg prints six digits of a float.
Printed(float) == IF float < 1000000 THEN float ELSE ((float + 5) \div 10) * 10

KeysInOrder(map) == SetToSortSeq(DOMAIN map, LAMBDA k, l : k[1] < l[1])

\* The types whose values are not among the attributes, and what the attributes are otherwise.
Empty(type) == type \in {"Invalid", "Color"}

AttributesOf(type, value) ==
  CASE Empty(type)                      -> <<>>
    [] type = "Char"                    -> <<<<value>>>>
    [] type = "Bool"                    -> <<IF value THEN 1 ELSE 0>>
    [] type = "DateTime"                -> <<<<value.date, value.time, value.spec>>>>
    [] type = "BitArray"                -> <<Reverse(value)>>
    [] type \in {"StringList", "List"}  -> <<Len(value)>>
    [] type = "Map"                     -> <<Cardinality(DOMAIN value)>>
    [] type = "RegExp"                  -> <<value.pattern, <<value.sensitivity, value.syntax>>>>
    [] type = "float"                   -> <<Printed(value)>>
    [] OTHER                            -> <<value>>

RECURSIVE WriteXml(_)
WriteXml(v) ==
  LET value == v[2]
      keys  == KeysInOrder(value)
      items == CASE v[1] = "StringList" -> [i \in DOMAIN value |-> XmlElement("i", <<value[i]>>, <<>>)]
                 [] v[1] = "List" -> [i \in DOMAIN value |-> WriteXml(value[i])]
                 [] v[1] = "Map"  -> [i \in DOMAIN keys |->
                                       XmlElement("i", <<keys[i]>>, WriteXml(value[keys[i]]))]
                 [] OTHER         -> <<>>
  IN  XmlElement("GV", <<v[1]>> \o AttributesOf(v[1], value), FlattenSeq(items))

\* The reader has read the elements up to a place; it goes on to the next end, or to that of
\* an element.
EndAfter(xml, at) == CHOOSE i \in at + 1 .. Len(xml) : /\ xml[i].tag = "end"
                                                       /\ \A j \in at + 1 .. i - 1 : xml[j].tag # "end"

IsEndOf(token, name) == token.tag = "end" /\ token.name = name
EndOf(xml, name, at) == CHOOSE i \in at .. Len(xml) : /\ IsEndOf(xml[i], name)
                                                      /\ \A j \in at .. i - 1 : ~IsEndOf(xml[j], name)

ScalarOf(type, d, e) ==
  CASE type = "Char"      -> <<type, CharFromUnicode(d[1])[1]>>
    [] type = "Bool"      -> <<type, d = 1>>
    [] type = "DateTime"  -> <<type, [date |-> d[1], time |-> d[2], spec |-> d[3], offset |-> 0]>>
    [] type = "BitArray"  -> <<type, [i \in 1 .. Len(d) |-> d[Len(d) + 1 - i]]>>
    [] type = "RegExp"    -> <<type, [pattern |-> d, sensitivity |-> e[1], syntax |-> e[2], minimal |-> FALSE]>>
    [] OTHER              -> <<type, d>>

\* So many things from a place on, each read by `one`; and where the reader is then.
Joined(r, thing) == [items |-> Append(r.items, thing.value), at |-> thing.at]
Several(one(_), at, n) ==
  FoldLeft(LAMBDA r, k : Joined(r, one(r.at)), [items |-> <<>>, at |-> at], [k \in 1 .. n |-> k])

\* A bug to detect: the end of an entry of a map is left for what follows.
EntryLeftOpen(xml, key, inner) == [value |-> <<key, inner.value>>, at |-> inner.at]

Entry(xml, key, inner) == [value |-> <<key, inner.value>>, at |-> EndAfter(xml, inner.at)]

MapOf(entries) == [k \in {e[1] : e \in entries} |-> (CHOOSE e \in entries : e[1] = k)[2]]

Closed(xml, type, r) ==
  [value |-> <<type, IF type = "Map" THEN MapOf(ToSet(r.items)) ELSE r.items>>, at |-> EndAfter(xml, r.at)]

\* ReadXml: the variant that begins behind a place, and the place of its end.
RECURSIVE ReadXml(_, _)
ReadXml(xml, at) ==
  LET here == xml[at + 1].attributes
      type == here[1]
      text(i) == xml[i + 1].attributes[1]
      item(i) == CASE type = "StringList" -> [value |-> text(i), at |-> EndAfter(xml, i + 1)]
                   [] type = "List"       -> ReadXml(xml, i)
                   [] type = "Map"        -> Entry(xml, text(i), ReadXml(xml, i + 1))
  IN  IF type \in {"StringList", "List", "Map"} THEN Closed(xml, type, Several(item, at + 1, here[2]))
      ELSE [value |-> IF Empty(type) THEN Invalid
                      ELSE ScalarOf(type, here[2], IF type = "RegExp" THEN here[3] ELSE <<>>),
            at |-> EndAfter(xml, at + 1)]

\* VariantTable: name, columns and rows of variants.
WriteTable(t) ==
  LET text(x) == WriteXml(<<"String", x>>)
      column(i) == XmlElement("c", <<>>, text(t.columns[i].key) \o text(t.columns[i].name))
      row(i)    == XmlElement("r", <<>>, FlattenSeq([j \in DOMAIN t.rows[i] |-> WriteXml(t.rows[i][j])]))
  IN  XmlElement("GUtil_Table", <<t.name, Len(t.rows), Len(t.columns)>>,
              FlattenSeq([i \in DOMAIN t.columns |-> column(i)]) \o FlattenSeq([i \in DOMAIN t.rows |-> row(i)]))

\* The reader goes on to the end of the row.
CellsOf(xml, r)    == [value |-> r.items, at |-> EndOf(xml, "r", r.at)]
ColumnOf(xml, r) == [value |-> [key |-> r.items[1][2], name |-> r.items[2][2]], at |-> EndAfter(xml, r.at)]

ReadTable(xml) ==
  LET head        == xml[1].attributes
      cells(i, n) == Several(LAMBDA j : ReadXml(xml, j), i + 1, n)
      rows(at)    == Several(LAMBDA i : CellsOf(xml, cells(i, head[3])), at, head[2])
      table(columns) == [name |-> head[1], columns |-> columns.items, rows |-> rows(columns.at).items]
  IN  table(Several(LAMBDA i : ColumnOf(xml, cells(i, 2)), 1, head[3]))

---------------------------------------------------------------------------
(* Specification *)

BytesInit == bytes = <<>>

BytesNext == \/ \E b \in SampleBytes : Len(bytes) < MaxBytes /\ bytes' = Append(bytes, b)
             \/ bytes' = ChopUTF8(bytes, 1) /\ Len(CharsFrom(bytes, 1)) > 0
             \/ TrimmedIsDefined(bytes) /\ bytes' = Trimmed(bytes)

VariantInit == variant = Invalid

RECURSIVE Nesting(_)
Nesting(v) == CASE v[1] = "List" -> 1 + Max({0} \cup {Nesting(v[2][i]) : i \in DOMAIN v[2]})
                [] v[1] = "Map"  -> 1 + Max({0} \cup {Nesting(v[2][k]) : k \in DOMAIN v[2]})
                [] OTHER         -> 0

\* A variant is set, put into a list or map, or joined there by another item.
VariantNext ==
  \/ \E v \in Scalars : variant' = v
  \/ /\ Nesting(variant) < MaxNesting
     /\ variant' \in {<<"List", <<variant>>>>} \cup {<<"Map", [j \in {k} |-> variant]>> : k \in MapKeys}
  \/ /\ variant[1] = "List" /\ Len(variant[2]) = 1
     /\ \E v \in {Invalid, variant[2][1]} : variant' = <<"List", Append(variant[2], v)>>
  \/ /\ variant[1] = "Map"
     /\ \E k \in MapKeys : variant' = <<"Map", [j \in DOMAIN variant[2] \cup {k} |->
                                             IF j = k THEN Invalid ELSE variant[2][j]]>>

---------------------------------------------------------------------------
(* Properties *)

\* Every letter has another case, the two are inverse to each other and are encoded in as
\* many bytes, so that a string can be converted in place; except for the two sigmas,
\* and the division sign, which the code takes for the lower case of the times sign.
CasesArePaired ==
  \A u \in 0 .. 1024 :
    /\ IsUpper(u) = (ToLower(u) # u) /\ IsLower(u) = (ToUpper(u) # u)
    /\ ~(IsUpper(u) /\ IsLower(u))
    /\ BytesNecessary(ToLower(u)) = BytesNecessary(u) /\ BytesNecessary(ToUpper(u)) = BytesNecessary(u)
    /\ (IsUpper(u) /\ u # 930) => IsLower(ToLower(u)) /\ ToUpper(ToLower(u)) = u
    /\ (IsLower(u) /\ u \notin {247, 962}) => IsUpper(ToUpper(u)) /\ ToLower(ToUpper(u)) = u

\* The bytes are whole characters, nulls included.
AreCharacters(s) == \A i \in ToSet(CharsFrom(s, 1)) : IsCharacterAt(s, i)

\* Every code point is encoded in the bytes that UTF-8 has for it, and read back: by its
\* value, by the iterator in one step forward and one step back, and by the counting; and the
\* cases are paired.
CharactersRoundTrip ==
  /\ CasesArePaired
  /\ \A u \in SamplePoints :
    LET c == CharFromUnicode(u)
    IN  /\ UnicodeValue(c, 1, MultiByteLength(c[1])) = u
        /\ \A i \in DOMAIN c : IsContinuationByte(c[i]) = (i > 1)
        /\ NextChar(c \o bytes, 1) = Len(c) + 1
        /\ PriorChar(bytes \o c, Len(bytes) + Len(c) + 1) = Len(bytes) + 1
        /\ AreCharacters(bytes) /\ u > 0 =>
             /\ IsValidUTF8(bytes \o c)
             /\ 0 \notin ToSet(bytes) => LengthUTF8(bytes \o c, 1) = LengthUTF8(bytes, 1) + 1
             /\ ChopUTF8(bytes \o c, 1) = (IF Len(bytes \o c) = 1 THEN <<>> ELSE bytes)

\* Any bytes can be walked over forwards and, if they are whole characters, backwards by
\* the same places, and are as many as are counted if there is no null among them.
\* Trimming takes the blanks from both ends and nothing else, unless bytes that are no
\* characters stand before the last blanks.  What was written to base 64 and base 16 is
\* read back.
AnyBytesAreWalked ==
  LET chars == CharsFrom(bytes, 1)
      last  == Len(bytes)
      blank(i) == IsWhitespaceAt(bytes, i)
      t     == Trimmed(bytes)
  IN  /\ \A k \in 2 .. Len(chars) :
           AreCharacters(bytes) => PriorChar(bytes, chars[k]) = chars[k - 1]
      /\ IsValidUTF8(bytes) /\ 0 \notin ToSet(bytes) => LengthUTF8(bytes, 1) = Len(chars)
      /\ \A i \in 1 .. last : IsValidUTF8(bytes) /\ 0 \notin ToSet(SubSeq(bytes, 1, i)) =>
           IsContinuationByte(bytes[i]) = (i \notin ToSet(chars))
      /\ IF \A i \in 1 .. last : blank(i) THEN t = <<>>
         ELSE AreCharacters(bytes) \/ ~blank(last) =>
              /\ ~IsWhitespaceAt(t, 1) /\ (AreCharacters(bytes) => ~IsWhitespaceAt(t, Len(t)))
              /\ \E i \in 0 .. last - Len(t) :
                   /\ SubSeq(bytes, i + 1, i + Len(t)) = t
                   /\ \A k \in 1 .. last : k \notin i + 1 .. i + Len(t) => blank(k)
      /\ FromBase64(ToBase64(bytes)) = bytes
      /\ FromBase16(ToBase16(bytes)) = bytes
      /\ Len(ToBase64(bytes)) = 4 * ((Len(bytes) + 2) \div 3)

\* What the XML of a variant must keep.  Nothing is said of the types that the switch has no
\* case for, of characters beyond ASCII, the seventh digit of a float, the offset of a time
\* and the greed of an expression, which the code loses.
RECURSIVE Kept(_)
Kept(v) ==
  CASE Empty(v[1])       -> Invalid
    [] v[1] = "Char"     -> <<"Char", IF v[2] < 128 THEN v[2] ELSE NoValue>>
    [] v[1] = "float"    -> <<"float", Printed(v[2])>>
    [] v[1] = "DateTime" -> <<"DateTime", [v[2] EXCEPT !.offset = 0]>>
    [] v[1] = "RegExp"   -> <<"RegExp", [v[2] EXCEPT !.minimal = FALSE]>>
    [] v[1] \in {"List", "Map"} -> <<v[1], [i \in DOMAIN v[2] |-> Kept(v[2][i])]>>
    [] OTHER             -> v

\* A variant, lists in maps in lists included, comes back from its XML with all that Kept
\* asks for, and the reader stands at its end; so does a table of variants.
VariantsComeBack ==
  LET xml == WriteXml(variant)
      key == CHOOSE k \in MapKeys : TRUE
      table(v) == [name |-> key, columns |-> <<[key |-> key, name |-> <<>>], [key |-> <<98>>, name |-> key]>>,
                   rows |-> <<<<v, Invalid>>, <<Invalid, v>>>>]
      read     == ReadXml(xml, 0)
      again    == ReadTable(WriteTable(table(variant)))
      kept(r)  == [j \in DOMAIN r |-> Kept(r[j])]
  IN  /\ Kept(read.value) = Kept(variant) /\ read.at = Len(xml)
      /\ [again EXCEPT !.rows = [i \in DOMAIN @ |-> kept(@[i])]] = table(Kept(variant))
=============================================================================
