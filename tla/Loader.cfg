CONSTANTS
  BPS = 11
  FATSZ = 5
  ROOT = 2
  EPS = 3
  SPT = 12
  CYLS = 2
  FATBUF = 6
  SEG = 8
  Disks <- Floppies
SPECIFICATION Spec
INVARIANT RunsWhatWasLoaded
PROPERTY Boots
CHECK_DEADLOCK FALSE
