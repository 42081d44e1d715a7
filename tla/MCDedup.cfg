SPECIFICATION Spec
CONSTANTS
  a = a
  a2 = a2
  b = b
  v = v
  ma = ma
  mb = mb
  mv = mv
  router1 = router1
  router2 = router2
  vip = vip
  NoMac = NoMac
  None = None
  u1 = u1
  d1 = d1
  d2 = d2
  t = t
  f1 = f1
  f2 = f2
  h1 = h1
  h2 = h2
  h3 = h3
  h4 = h4
  h5 = h5
  Hosts = {h1, h2, h3, h4, h5}
  Reports = {d1, d2, t, f1, f2}
  Claimed <- MCClaimed
  Device <- MCDevice
  Payload <- MCPayload
  Typed = {t}
  Floating = {vip}
  VirtualMacs = {mv}
  Loopbacks = {}
  Users = {u1}
  MaxFaults = 1
SYMMETRY Alike
CHECK_DEADLOCK FALSE
INVARIANTS
  TypeOK
  OneHostPerAddress
  PeersApart
  OneFloatingHost
  ReportedIsKept
PROPERTIES
  ConsolidationKeeps
