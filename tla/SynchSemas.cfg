CONSTANTS
  Threads = {t1, t2, t3}
  Main = t1
  Idle = idle
  Locks = {l1}
  Semas = {s1}
  Conds = {c1}
  CondLock <- MCCondLock
  TryLocks = {}
  IntrSemas = {s1}
  InitValue <- MCInitValue
  Priorities = {0, 1, 2}
  DefaultPri = 1
  MaxValue = 2
  None = none
SPECIFICATION Spec
INVARIANTS WakeupsKept
CHECK_DEADLOCK FALSE
