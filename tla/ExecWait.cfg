CONSTANTS
  Procs = {main, c1, c2, c3}
  Main = main
  NoTid = none
SPECIFICATION LiveSpec
PROPERTIES WaitReturns
CHECK_DEADLOCK FALSE
