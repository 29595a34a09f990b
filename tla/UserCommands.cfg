SPECIFICATION Spec
CONSTANTS
  CMD_BACKUP = 4
  Lag = 2
  Ahead = 0
  ClockJumps = TRUE
  cg_predict_optimize = TRUE
  MaxMove = 5
  MaxTime = 3
  MaxLost = 1
  MaxFlight = 1
CHECK_DEADLOCK FALSE
INVARIANTS TypeOK OnceAsMade NothingSkipped PredictsAll
