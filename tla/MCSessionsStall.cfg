SPECIFICATION Spec
CONSTANTS
  s1 = s1
  s2 = s2
  s3 = s3
  c1 = c1
  c2 = c2
  d1 = d1
  d2 = d2
  n1 = n1
  None = None
  SessionIds = {s1, s2}
  Discoveries = {c1, c2}
  Daemons = {d1}
  Networks = {n1}
  DaemonOf <- OneDaemon
  NetworkOf <- OneDaemonNetwork
  Outcomes = {"Complete"}
  Cancellable = {s1}
  Deletable = {d1}
  Snapshotted = {}
  Lapsing = {s1}
  Unsavable = {s1}
  MaxReleasing = 1
  MaxRestarts = 1
CHECK_DEADLOCK FALSE
INVARIANTS
  TypeOK
  GuardNotLeaked
  StallClockTicks
  NoDuplicateInQueue
  QueueCoversSessions
  OutcomeRecorded
