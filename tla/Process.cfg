CONSTANTS
  Procs = {main, p1, p2}
  Main = main
  Codes = {7}
  MaxFds = 1
  None = none
SPECIFICATION LiveSpec
INVARIANTS TypeOK RefsCounted NoUseAfterFree AllFreed LoadGuarded
PROPERTIES ImplementsWait CallsReturn
