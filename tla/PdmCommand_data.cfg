SPECIFICATION Spec
CONSTANTS
  Leds = {"a"}
  Mcus = 1
  Verbs = {"reset", "command"}
  Numbers <- OneDigit
  MaxWords = 3
  MaxBytes = 2
  WriteMax = 4
  MaxMoves = 0
INVARIANT DataIsWritten
CHECK_DEADLOCK FALSE
