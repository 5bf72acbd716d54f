CONSTANTS
  Users = {t1}
  Unlocked = {}
  Daemon = daemon
  Halter = main
  WriteBack = FALSE
  Removal = TRUE
  Sectors = {s1, s2, s3}
  Offsets = {1}
  Values = {0, 1}
  Zero = 0
  Blocks = {b1, b2}
  CacheSize = 2
  None = none
SPECIFICATION Spec
INVARIANT ReadsSeeWrites
