SPECIFICATION Spec
CONSTANTS
  Bytes = 2
  Faults = {"AF", "ARLO", "BERR"}
INVARIANTS AnswerIsTrue NothingOutlivesTheCall
PROPERTIES CallsEnd
CHECK_DEADLOCK FALSE
