SPECIFICATION Spec
CONSTANTS
  Threads = {t1, t2}
  Nobody = Nobody
  NoFile = NoFile
  RotateSize = 3
  MaxLine = 2
  MaxRate = 3
  MaxCalls = 3
  MaxTime = 2
  MaxLives = 3
SYMMETRY ThreadSymmetry
INVARIANTS
  CounterIsSizePlusLost
  FilesBounded
PROPERTIES
  ArchivesKept
  ImplementsLog
CHECK_DEADLOCK FALSE
