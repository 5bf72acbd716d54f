CONSTANTS
  Names = {n1}
  Handles = {h1}
  Execs = {}
  Unlocked = {}
  SectorCnt = 42
  SectorSize = 2
  Direct = 1
  Indirect = 1
  Ptrs = 2
  MaxLength = 15
  MaxCreates = 2
  InitLengths = {0, 5}
  MaxHalts = 0
  None = none
  FewNames = {n2, n3}
  FewHandles = {h2, h3, e1}
  FewExecs = {e1}
  FewSectors = 26
  FewSectorSize = 1
  FewMaxLength = 2
  FewInitLengths = {0}
  FewMaxHalts = 1
  a = a
  p1 = p1
  p2 = p2
  Procs = {p1, p2}
  First = p2
  DirNames = {a}
  DirSectors = 3
  DirHandles = {d1}
  DirCalls <- MCCalls
  DirWalks <- MCWalks
  MaxLeaks = 1
SPECIFICATION SpecOne
SYMMETRY MCSymmetry
INVARIANTS SectorsRight InodesRight TreeRight NoneLost
PROPERTIES ExecutableFixed
CHECK_DEADLOCK FALSE
