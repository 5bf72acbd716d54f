CONSTANTS
  p1 = p1
  p2 = p2
  s1 = s1
  x1 = x1
  s2 = s2
  Procs = {p1, p2}
  First = p1
  Pages = {s1, x1, s2}
  Owner <- MCOwner
  Kinds <- MCKinds
  Start <- MCStart
  Calls <- MCCalls
  Frames = {f1, f2}
  Slots = {w1, w2}
  Values = {0, 1}
  Inputs = {1}
  Zero = 0
  None = none
  Tasks = {main, c1, c2, c3}
  Main = main
  Callers = {t1, t2}
  PageCnt = 3
  Descs = {d2, d3}
  BigPages = {2}
  MaxHeld = 2
  Keys = {0, 1, 2, 3, 4}
  Copies = {1, 2}
  MinBuckets = 1
  BestElems = 1
SPECIFICATION SpecOne
SYMMETRY MCSymmetry
INVARIANTS  StoresKept NeverStuck  HeapRight TableRight
CHECK_DEADLOCK FALSE
