\* The level changes at any point of the handshake or of the game; strings of two sizes
\* share commands; a ring of two is overflowed by three typed commands.
CONSTANTS
  MAX_RELIABLE_COMMANDS = 2
  Reserve = 1
  MAX_CONFIGSTRINGS = 1
  CsRoom = 2
  Sizes <- MCTwoSizes
  MaxLevels = 2
  MaxBroadcasts = 3
  MaxUserCommands = 3
  MaxLoss = 1
  MaxEvents = 3
  MaxToServer = 2
  MaxToClient = 1
  MayQuit = FALSE
SPECIFICATION Safety
INVARIANTS TypeOK ConfigCurrent NotStranded
PROPERTY TypedOnce
\* Two ends that have parted have nothing left to do.
CHECK_DEADLOCK FALSE
