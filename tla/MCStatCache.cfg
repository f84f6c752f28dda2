\* Two threads, a limit of no entry at all, so that every insertion resets the
\* cache, and more paths than it may hold, one of which changes.
CONSTANTS
  Threads = {t1, t2}
  Paths = {p1, p2, p3}
  Changing = {p1}
  NoPath = NoPath
  TTL = 1
  MaxEntries = 0
  MaxClock = 2
  MaxChanges = 1
SYMMETRY Symmetry
SPECIFICATION Spec
INVARIANTS TypeOK MemoryBounded
PROPERTIES StalenessBounded
