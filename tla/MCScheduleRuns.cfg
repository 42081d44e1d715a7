SPECIFICATION Spec
CONSTANTS
  t1 = t1
  t2 = t2
  u1 = u1
  j1 = j1
  j2 = j2
  j3 = j3
  noon = noon
  night = night
  blue = blue
  red = red
  None = None
  Crons = {noon, night}
  Tasks = {t1}
  Users = {u1}
  JobIds = {j1}
  Configs = {blue}
  Inputs <- NoonInputs
  Via = {"api", "server"}
  Firing = TRUE
  Failing = FALSE
  MaxScans = 1
  MaxRestarts = 0
CHECK_DEADLOCK FALSE
PROPERTY DeletedStaysDeleted
