SPECIFICATION FairSpec
CONSTANTS
  s1 = s1
  s2 = s2
  s3 = s3
  c1 = c1
  c2 = c2
  d1 = d1
  d2 = d2
  n1 = n1
  None = None
  SessionIds = {s1, s2}
  Discoveries = {c1}
  Daemons = {d1}
  Networks = {n1}
  DaemonOf <- OneDiscovery
  NetworkOf <- OneDaemonNetwork
  Outcomes = {"Complete"}
  Cancellable = {}
  Deletable = {}
  Snapshotted = {n1}
  Lapsing = {s1, s2}
  Unsavable = {}
  MaxReleasing = 1
  MaxRestarts = 1
INVARIANTS
  AwaitingIsCovered
  StartSeesSnapshot
PROPERTIES
  LostDispatchRecovered
  AwaitingIsReleased
