CONSTANTS
  Threads = {t1, t2, t3}
  Main = t1
  Idle = idle
  Locks = {l1, l2}
  Priorities = {0, 1, 2}
  DefaultPri = 1
  MaxDepth = 8
  Allowed = {{"set", l1}, {"set", l2}, {l1, l2}, {"sleep", l1, l2}, {"set", l1, l2},
             {"window", l1}, {"window", l2}, {"sleep", "set", l1}, {"sleep", "set", l2}}
  None = none
  MlfqsThreads = {m1, m2, m3}
  NiceVals = {0, 3}
  F = 16384
  PriMax = 63
  NiceMax = 2
  Slice = 2
  Freq = 4
  MaxTicks = 9
  MaxCalls = 1
  KeySet = {0, 1, 2}
  MaxLen = 5
  W = 3
  WordBits = 4
  PgSize = 2
  PhysBase = 12
  FileLen = 7
  NameMax = 2
  StackSizes = {20, 24, 28, 32, 36}
SPECIFICATION SpecOne
SYMMETRY MCSymmetry
INVARIANTS LocksRight DonationsRight HighestRuns OutrankedBriefly AlgorithmsRight
PROPERTIES HighestDispatched
CHECK_DEADLOCK FALSE
