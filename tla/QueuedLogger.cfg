\* Two producers with up to three entries each: a chain of three exceptions
\* fits, and the queue holds several entries while one is being written.
CONSTANTS
  Producers = {p1, p2}
  MaxEntries = 3
SPECIFICATION Spec
INVARIANTS
  InOrder
  NoLostWakeup
  AllOrNothing
PROPERTIES
  DestructorReturns
  EntriesAreWritten
  ImplementsChannel
