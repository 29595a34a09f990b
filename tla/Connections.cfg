\* Two machines, behind one address or two; one keeps trying, bots take what is free.
CONSTANTS
  m1 = m1
  m2 = m2
  h1 = h1
  h2 = h2
  Machines = {m1, m2}
  Hosts = {h1, h2}
  Placements <- MCPlacements
  Keen = {m1}
  Bot = Bot
  Nobody = Nobody
  maxclients = 2
  MAX_CHALLENGES = 1
  sv_iplimit = 2
  sv_reconnectlimit = 1
  sv_zombietime = 0
  sv_timeout = 1
  Resend = 1
  MaxResend = 1
  MaxFaults = 1
  MaxActs = 3
  FaultWeight = 2
  MaxFlight = 1
SPECIFICATION Spec
INVARIANTS TypeOK OneSlotEach GameKnows
PROPERTIES NotDisplaced NoReplay GetsIn Reclaimed
