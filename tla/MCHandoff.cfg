SPECIFICATION FairSpec
CONSTANTS
  h1 = h1
  h2 = h2
  n1 = n1
  net = net
  self = self
  local = local
  early = early
  again = again
  None = None
  Hosts = {h1, h2}
  Subnets = {n1}
  Calls = {net, self, local, early, again}
  Target <- MCTarget
  Session <- MCSession
  After <- MCAfter
  Early = {early}
  Modes = {"server_poll", "daemon_poll"}
  MaxSessions = 2
  MaxFaults = 1
INVARIANTS
  TypeOK
  ConfirmedIsStored
  ReturnedIsStored
  ScannedIsExact
PROPERTY WaitingIsAnswered
CHECK_DEADLOCK FALSE
