\* One unit stands for 100 microseconds; 262143 is the width -1.
SPECIFICATION MixSpec
CONSTANTS
  BaseVal = 15
  CorrMax = 2
  Corrections = {0, 2}
  Period = 200
  Word = 262144
  HalfWord = 512
  ShellServos = {1, 2, 5}
  ShellWidths = {10, 600, 262143}
INVARIANTS PinShowsLastCommand MotorsInServoRange MotorsHoldThePass
