SPECIFICATION FairSpec
CONSTANTS
  Fields = {"interval", "attitude"}
  OutputSize = 1
  NoThread = NoThread
INVARIANTS BusIsExclusive PriorityIsInherited
  NoPriorityInversion ReadersSeeOnePublication ConsistentUnlessOverlapped
PROPERTIES EstimatorPublishes ControlDrivesServos ShellGetsTheBus
