\* The reader waits without a limit: jobs and images.
CONSTANTS
  bufSize = 6
  Sizes <- MCSizes
  MaxCommands = 5
  Timed = FALSE
  Spurious = FALSE
SPECIFICATION Spec
PROPERTIES WriteReturns
CHECK_DEADLOCK FALSE
