\* Three elements, of which two are equivalent to the comparer; sequences of four.
CONSTANT Elements = {1, 2, 3}
CONSTANT MaxLength = 4
\* Heaps of three levels.
CONSTANT MaxHeap = 7
\* Two observers, of whom one may be added twice; words of two bits, and two words full.
CONSTANT Observers = {"first", "second"}
CONSTANT Things = {1, 2}
CONSTANT DefaultThing = 1
CONSTANT MaxThings = 3
CONSTANT MaxObserving = 2
CONSTANT WordBits = 2
CONSTANT MaxBits = 5
\* Flags with ranges of one and of two; circles of up to four numbers.
CONSTANT FlagBits = 4
CONSTANT CircleEnds <- MCCircleEnds
\* Three letters, of which two are the cases of one.
CONSTANT Letters = {1, 2, 3}
CONSTANT MaxText = 4
\* A null, a blank, a letter, a continuation byte, and first bytes of two to four and
\* of eight bytes.
CONSTANT SampleBytes = {0, 32, 97, 195, 169, 226, 240, 255}
CONSTANT MaxBytes = 4
CONSTANT SamplePoints <- MCSamplePoints
\* Variants of all types, lists in maps in lists.
CONSTANT Scalars <- MCScalars
CONSTANT MapKeys <- MCMapKeys
CONSTANT MaxNesting = 2
\* Three cards, three hands.
CONSTANT Suits = {2}
CONSTANT Values = {1, 9, 13}
CONSTANT MaxHands = 3
CONSTANT MaxHeld = 3
\* Two columns, two rows, two changes.
CONSTANT ColumnKeys = {0, 1}
CONSTANT Cells = {0, 1}
CONSTANT MaxTableRows = 2
CONSTANT MaxChanges = 2
\* Four items in a tree.
CONSTANT Nodes = {1, 2, 3, 4}
\* A store with two instances, two data, two ids and three versions.
CONSTANT Agents = {"a", "b"}
CONSTANT Datas = {0, 1}
CONSTANT MaxVersions = 3
CONSTANT MaxIds = 2
\* Dates of January, of another week and of another month.
CONSTANT Dates = {1, 9, 60}
CONSTANT SetRanges <- MCRanges
\* Four items, two of them when the mouse is used; the line is 45 pixels for three units
\* of time, so that pixels are rounded; the mouse goes to its ends and between the units.
CONSTANT MaxTime = 3
CONSTANT MaxRows = 4
CONSTANT BusyRows = 2
CONSTANT Height = 45
CONSTANT Windows <- MCWindows
CONSTANT Xs = {0, 300}
CONSTANT Ys = {0, 15, 22, 30, 45}
SPECIFICATION MCSpec
INVARIANTS
  ContainersAreKept
  StringsAreKept
  DataAgree
  TimelineStaysRight
CHECK_DEADLOCK FALSE
