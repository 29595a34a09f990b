\* The level changes at any point, the player may leave at any time, and a window
\* of two overflows when a change of level finds a command in it.
CONSTANTS
  MAX_RELIABLE_COMMANDS = 2
  Reserve = 1
  MAX_CONFIGSTRINGS = 1
  CsRoom = 1
  Sizes <- MCOneSize
  MaxLevels = 2
  MaxBroadcasts = 0
  MaxUserCommands = 0
  MaxLoss = 1
  MaxEvents = 2
  MaxToServer = 2
  MaxToClient = 2
  MayQuit = TRUE
SPECIFICATION Spec
PROPERTIES Connects EndsAgree
\* Two ends that have parted have nothing left to do.
CHECK_DEADLOCK FALSE
