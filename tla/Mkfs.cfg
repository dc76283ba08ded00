CONSTANTS
  NR_PART = 2
  NR_SUB = 3
  MINOR_hd1a = 6
  LBA = 100
  WORD = 400
  Table <- Tables
  ROOT_DEV = {1, 2, 6, 9}
  BITS = 16
  INODE_SECTS = 2
  FILE = 9
  NR_CONSOLES = 3
  MaxStops = 1
SPECIFICATION Spec
INVARIANT Formatted
PROPERTIES OpenFinds WalkDone StaysInPartition
CHECK_DEADLOCK FALSE
