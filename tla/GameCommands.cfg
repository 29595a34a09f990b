SPECIFICATION Spec
CONSTANTS
  a = a
  b = b
  NumEnts = 2
  Vals = {a, b}
  Gone = Gone
  Garbage = Garbage
  Worlds <- MCOneWorld
  Shadowable = {}
  UPDATE_BACKUP = 4
  MAX_SNAP_ENTITIES = 2
  maxclients = 2
  OtherTakes = {0}
  MAX_RELIABLE_COMMANDS = 2
  COMMAND_FRAMES = 256
  Flood = TRUE
  Reliable = FALSE
  MaxFrame = 5
  MaxCommand = 2
  Asks = {3}
  MaxFlight = 1
CHECK_DEADLOCK FALSE
INVARIANTS CommandsOnce
