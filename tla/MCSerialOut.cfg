SPECIFICATION Spec
CONSTANTS
  Writers = {main, shell}
  Sleepers = {estimator}
  Size = 2
  Timeouts = {1}
  Sleeps = {2}
  Infinite = infinite
  None = none
INVARIANTS NoWaiterForgotten TimersOnTime
PROPERTIES WaitsEnd BytesLeave ImplementsFifo
