SPECIFICATION Spec
CONSTANTS
  z1 = z1
  z2 = z2
  a = a
  b = b
  p1 = p1
  p2 = p2
  Slot = {z1, z2}
  Student = {a, b}
  Session = {p1, p2}
  Hour = {3, 5}
  Places = {1, 2}
  BookAhead = 2
  MaxTime = 4
  MaxCalls = 4
  None = None
SYMMETRY MCSymmetry
INVARIANTS
  TypeOK
PROPERTIES
  ReopenedOnlyByStale
  OverbookedOnlyByRace
  OrphansOnlyByRace
\* When the calls and the clock have run out nothing happens any more.
CHECK_DEADLOCK FALSE
