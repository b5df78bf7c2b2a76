SPECIFICATION Spec
CONSTANTS
  Axes = {"x", "y"}
  MaxReadings = 3
INVARIANTS ShellPrintsOwnOrNewer OneReadingUnlessShell
PROPERTIES PublishedIsUsed
