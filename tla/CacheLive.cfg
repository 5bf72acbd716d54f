CONSTANTS
  Users = {t1}
  Unlocked = {}
  Daemon = daemon
  Halter = main
  WriteBack = TRUE
  Removal = TRUE
  Sectors = {s1, s2, s3}
  Offsets = {1}
  Values = {0}
  Zero = 0
  Blocks = {b1, b2}
  CacheSize = 2
  None = none
SPECIFICATION LiveSpec
INVARIANT OneBlockPerSector
PROPERTIES CacheMoves
