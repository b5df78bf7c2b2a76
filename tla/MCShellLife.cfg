SPECIFICATION LifeSpec
CONSTANTS
  Statics <- RegistryAtStart
  Blocks = {shell1, shell2}
  NoThread = NoThread
INVARIANTS CursorIsRegistered RefsAreExact HeapIsWhole
PROPERTIES ShellComesBack
