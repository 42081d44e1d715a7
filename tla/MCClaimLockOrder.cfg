SPECIFICATION Spec
CONSTANTS
  t1 = t1
  t2 = t2
  Tasks = {t1, t2}
  Programs <- AllPrograms
INVARIANT DocumentedLockOrder
CHECK_DEADLOCK FALSE
