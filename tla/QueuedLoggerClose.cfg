CONSTANTS
  Producers = {p1}
  MaxEntries = 2
SPECIFICATION Spec
INVARIANT EverythingIsLogged
