SPECIFICATION Spec
CONSTANTS
  s1 = s1
  s2 = s2
  r1 = r1
  r2 = r2
  None = None
  Sessions = {s1, s2}
  Slots = {r1, r2}
  Modes = {"server_poll", "daemon_poll"}
  Cancellable = {s1}
  MaxFaults = 1
INVARIANTS
  TypeOK
  OneRunAtATime
PROPERTIES
  PayloadKept
  NewRunNotCancelled
  ImplementsWorker
