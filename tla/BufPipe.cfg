\* Both kinds of writer; waits that have a limit.
CONSTANTS
  bufSize = 6
  Sizes <- MCSizes
  MaxCommands = 5
  Timed = TRUE
  Spurious = TRUE
SPECIFICATION Spec
INVARIANTS TypeOK
PROPERTIES Implements WriteReturns
