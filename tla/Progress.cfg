CONSTANTS
  Sleepers = {"a", "b", "c"}
  MaxSleep = 2
  Users = {t1, t2}
  BufSize = 3
  Bytes = {0, 1}
  Nobody = none
  Requesters = {t1, t2}
  Places = {1, 2}
  Data = {0, 1}
  MaxSpurious = 1
  Unowned = none
  Threads = {t1, t2, t3}
  Main = t1
  Idle = idle
  Locks = {l1}
  Priorities = {0, 1, 2}
  DefaultPri = 1
  None = null
SPECIFICATION Spec
INVARIANTS SleepersRight QueueRight DiskRight
PROPERTIES Answered 
CHECK_DEADLOCK FALSE
