SPECIFICATION Spec
CONSTANTS
  Threads = {"low", "mid", "other", "high"}
  Idle = "idle"
  Mutexes = {1, 2, 3}
  RealPrio <- MCRealPrio
  None = None
INVARIANTS OnePlaceEach PriorityIsExact HighestRuns
PROPERTIES ImplementsLock
