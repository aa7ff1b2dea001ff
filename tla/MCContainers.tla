---------------------------- MODULE MCContainers ----------------------------
(* The instance of the containers, strings and other data, and of two views of   *)
(* data, that TLC checks.  A behaviour exercises one of them, so that their       *)
(* state spaces add up.                                                           *)
EXTENDS Vector, LinkedLists, PagedList, Collections, Strings, Encodings, Cards, Tables,
        DataStore, DateRange, Timeline

VARIABLE subject       \* what this behaviour exercises

\* Every length of UTF-8, at both ends.
MCSamplePoints == {0, 1, 127, 128, 233, 2047, 2048, 8364, 65535, 65536, 128512, 2097151,
                   2097152, 67108863, 67108864, 2147483647}

\* Ranges of every kind, half open ones, one that is refused, and those that are shown
\* as another range than they are.
MCRanges == {<<NoDate, NoDate>>, <<NoDate, 9>>, <<3, NoDate>>, <<32, 32>>, <<3, 9>>, <<1, 32>>,
             <<1, 31>>, <<1, 366>>, <<32, 397>>, <<9, 3>>}

\* A variant of every shape, those that are not kept whole included.
MCScalars == {<<"Invalid", 0>>, <<"Color", 7>>, <<"String", <<>>>>, <<"String", <<97, 233, 8364>>>>,
              <<"ByteArray", <<0, 255>>>>, <<"Char", 97>>, <<"Char", 233>>, <<"Bool", TRUE>>,
              <<"Bool", FALSE>>, <<"Int", -5>>, <<"Rect", <<1, 2, 3, 4>>>>,
              <<"DateTime", [date |-> <<2015, 2, 28>>, time |-> <<23, 59, 0, 1>>, spec |-> 2, offset |-> 3600]>>,
              <<"BitArray", <<TRUE, FALSE, FALSE>>>>, <<"StringList", <<<<>>, <<98>>>>>>,
              <<"RegExp", [pattern |-> "p", sensitivity |-> 1, syntax |-> 0, minimal |-> TRUE]>>,
              <<"float", 12>>, <<"float", 1234567>>}

\* The line of time: a day, a later start, and a line that ends before it starts.
MCWindows == {<<0, 3>>, <<1, 3>>, <<3, 0>>}

MCCircleEnds == -1 .. 2

MCMapKeys == {<<97>>, <<233, 97>>}

MCSubjects == {"vector", "dlist", "slist", "list", "heap", "collection", "bits", "flags",
               "circle", "text", "bytes", "variant", "cards", "table", "flat",
               "store", "range", "timeline"}

\* Each but the subject starts in one state.
MCInit ==
  /\ subject \in MCSubjects
  /\ VectorInit /\ (subject # "vector" => vector.movable)
  /\ DListInit /\ SListInit /\ ListInit /\ CollectionInit
  /\ HeapInit /\ (subject # "heap" => biggestFirst)
  /\ BitsInit /\ (subject # "bits" => bits = OfBits(FALSE, 0))
  /\ FlagsInit /\ (subject # "flags" => flags.word = {})
  /\ CircleInit /\ (subject # "circle" => circle = [value |-> 0, min |-> 0, max |-> 0])
  /\ TextInit /\ BytesInit /\ VariantInit
  /\ DeckInit /\ (subject # "cards" => deck = NewDeck(0, "empty", FALSE))
  /\ TableInit /\ (subject # "table" => table = NewTable)
  /\ FlatInit
  /\ StoreInit /\ (subject # "store" => store.file = "table")
  /\ ControlInit /\ (subject # "range" => control.combo = "Day")
  /\ TimelineInit

OnlyOf(s) ==
  /\ subject = s /\ UNCHANGED subject
  /\ s # "vector" => UNCHANGED vector
  /\ s # "dlist" => UNCHANGED <<dlist, cursor>>
  /\ s # "slist" => UNCHANGED <<slist, place>>
  /\ s # "list" => UNCHANGED list
  /\ s # "heap" => UNCHANGED <<heap, biggestFirst>>
  /\ s # "collection" => UNCHANGED collection
  /\ s # "bits" => UNCHANGED bits
  /\ s # "flags" => UNCHANGED flags
  /\ s # "circle" => UNCHANGED circle
  /\ s # "text" => UNCHANGED text
  /\ s # "bytes" => UNCHANGED bytes
  /\ s # "variant" => UNCHANGED variant
  /\ s # "cards" => UNCHANGED deck
  /\ s # "table" => UNCHANGED table
  /\ s # "flat" => UNCHANGED flat
  /\ s # "store" => UNCHANGED store
  /\ s # "range" => UNCHANGED control
  /\ s # "timeline" => UNCHANGED view

MCNext ==
  \/ OnlyOf("vector") /\ VectorNext
  \/ OnlyOf("dlist") /\ DListNext
  \/ OnlyOf("slist") /\ SListNext
  \/ OnlyOf("list") /\ ListNext
  \/ OnlyOf("heap") /\ HeapNext
  \/ OnlyOf("collection") /\ CollectionNext
  \/ OnlyOf("bits") /\ BitsNext
  \/ OnlyOf("flags") /\ FlagsNext
  \/ OnlyOf("circle") /\ CircleNext
  \/ OnlyOf("text") /\ TextNext
  \/ OnlyOf("bytes") /\ BytesNext
  \/ OnlyOf("variant") /\ VariantNext
  \/ OnlyOf("cards") /\ DeckNext
  \/ OnlyOf("table") /\ TableNext
  \/ OnlyOf("flat") /\ FlatNext
  \/ OnlyOf("store") /\ StoreNext
  \/ OnlyOf("range") /\ ControlNext
  \/ OnlyOf("timeline") /\ TimelineNext

MCVars == <<subject, vector, dlist, cursor, slist, place, list, heap, biggestFirst, collection,
            bits, flags, circle, text, bytes, variant, deck, table, flat, store, control, view>>

MCSpec == MCInit /\ [][MCNext]_MCVars

---------------------------------------------------------------------------
(* Properties *)

\* The four sequences: after any calls each is what its calls say, its memory or links
\* are in order, and every further call, sorting and removal included, does to it what
\* it does to a sequence, but for the calls that VectorKeepsItsElements and its like
\* leave out.  A heap is a bag with its least item on top; the observers
\* of a collection know what is in it, the bits of a vector and the flags of a word are
\* those that were set, and a circular number rolls over; and of a deck of cards none gets
\* lost, nor is there twice, however it is dealt and collected.
ContainersAreKept ==
  /\ subject = "vector" => VectorKeepsItsElements
  /\ subject = "dlist" => DListKeepsItsElements
  /\ subject = "slist" => SListKeepsItsElements
  /\ subject = "list" => PagedListKeepsItsElements
  /\ subject = "heap" => HeapIsABag
  /\ subject = "collection" => CollectionIsObserved
  /\ subject = "bits" => BitsAreKept
  /\ subject = "flags" => FlagsAreKept
  /\ subject = "circle" => CircleRolls
  /\ subject = "cards" => CardsAreKept

\* A string is its characters with a null behind them, and its searches find the places
\* that a search from the definition finds.  UTF-8, the cases of letters, base 64 and base
\* 16 are read as they were written, the iterators pass over any bytes, and variants come
\* back from their XML.
StringsAreKept ==
  /\ subject = "text" => EveryCallTerminates /\ SearchesAgree
  /\ subject = "bytes" => CharactersRoundTrip /\ AnyBytesAreWalked
  /\ subject = "variant" => VariantsComeBack

\* Columns, their numbers and the cells of the rows agree, and a table knows whether it has
\* changed; the list made of a tree has its items in order; a version tells whether another
\* instance has changed the data of a store; and a control shows the range that is selected.
DataAgree ==
  /\ subject = "table" => TableIsSound
  /\ subject = "flat" => FlatIsInOrder
  /\ subject = "store" => VersionsTell
  /\ subject = "range" => RangeIsShown

\* Items that conflict share the width of the view, and a drag by press, moves and release,
\* between which rows come and go, changes them as it should.
TimelineStaysRight == subject = "timeline" => TimelineIsRight
=============================================================================
