\* The console: three lines written, two typed.
CONSTANT MaxLines = 3
CONSTANT MaxTyped = 2
\* Three file devices or indicators, of which two devices are used, by three threads; a
\* message in two pieces, and two modifications of files.
CONSTANT deviceA = deviceA
CONSTANT deviceB = deviceB
CONSTANT deviceC = deviceC
CONSTANT truncater = truncater
CONSTANT sender1 = sender1
CONSTANT sender2 = sender2
CONSTANT Lockers = {deviceA, deviceB, deviceC}
CONSTANT Threads = {truncater, sender1, sender2}
CONSTANT DeviceOf <- MCDeviceOf
CONSTANT CallsOf <- MCCallsOf
CONSTANT NamesOf <- MCNamesOf
CONSTANT LockFiles = {"first", "second", "status"}
CONSTANT StatusFile = "status"
CONSTANT NoOwner = NoOwner
CONSTANT Stale = Stale
CONSTANT Chunks = 2
CONSTANT MaxClock = 3
\* Three pointers and as many objects.
CONSTANT Pointers = {"p", "q", "r"}
CONSTANT Addresses = {"x", "y", "z"}
CONSTANT Null = Null
\* Two threads with a stopwatch.
CONSTANT Users = {"u", "v"}
CONSTANT MaxNow = 3
CONSTANT MaxMarks = 2
\* A fade of 9 events, one of 26, and one that is too long; with and without a delay.
CONSTANT FadeDurations = {333, 1000, 10201}
CONSTANT FadeDelays = {0, 50}
CONSTANT Ports = {1, 2}
\* Two files that are moved two bytes at a time; a number that fits into an int is below
\* four.  A serial line on which two bytes may wait.
CONSTANT ChunkSize = 2
CONSTANT IntLimit = 4
CONSTANT FileNames = {"a", "b"}
CONSTANT FileContents <- MCFileContents
CONSTANT NoFile = NoFile
CONSTANT LineBytes = {10, 1}
CONSTANT MaxLine = 2
CONSTANT Junk = Junk
CONSTANT Word = 256
\* A file of three bytes; a portable safe file of two payloads of up to two units.
CONSTANT FileBytes = {10, 1}
CONSTANT MaxFileLength = 3
CONSTANT KeyfileContents <- MCKeyfileContents
CONSTANT Payloads <- MCPayloads
CONSTANT UserData = {0, 1}
CONSTANT MaxPayloads = 2
CONSTANT AllCredentials <- MCAllCredentials
CONSTANT Owner <- MCOwner
\* The end of a line, a blank and a digit; lines longer than the buffer of two characters.
CONSTANT Typeable = {10, 32, 49}
CONSTANT MaxInput = 4
CONSTANT ConsoleBuffer = 2
CONSTANT SubMenus <- MCSubMenus
CONSTANT MenuRoot = "main"
SPECIFICATION MCSpec
INVARIANTS
  LinesInOrder
  AnswersAreTrue
  MessagesStayWhole
  UpdatesAreSeen
  CallsLeaveNothing
  StatusIsShared
  CountsAreExact
  TimersAreRight
  FilesAreTrue
PROPERTIES
  CallsReturn
CHECK_DEADLOCK FALSE
