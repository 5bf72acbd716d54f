CONSTANTS
  Threads = {t1, t2, t3}
  Main = t1
  Idle = idle
  Locks = {l1, l2}
  Semas = {}
  Conds = {}
  CondLock <- MCCondLock
  TryLocks = {l1, l2}
  IntrSemas = {}
  InitValue <- MCInitValue
  Priorities = {0, 1, 2}
  DefaultPri = 1
  MaxValue = 1
  None = none
SPECIFICATION Spec
SYMMETRY MCSymmetry
INVARIANTS TypeOK LockExclusive DonationRight HighestRuns
PROPERTIES DonationLasts ImplementsLocks
CHECK_DEADLOCK FALSE
