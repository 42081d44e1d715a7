SPECIFICATION FairSpec
CONSTANTS
  t1 = t1
  t2 = t2
  u1 = u1
  j1 = j1
  j2 = j2
  j3 = j3
  noon = noon
  night = night
  blue = blue
  red = red
  None = None
  Crons = {noon, night}
  Tasks = {t1}
  Users = {}
  JobIds = {j1, j2}
  Configs = {blue}
  Inputs <- TimedInputs
  Via = {"server"}
  Firing = FALSE
  Failing = TRUE
  MaxScans = 0
  MaxRestarts = 1
CHECK_DEADLOCK FALSE
INVARIANT EnabledHasJob
PROPERTY ScheduleRestored
