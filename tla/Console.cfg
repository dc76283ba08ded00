\* The user types on both consoles and looks at them, the processes print on the second.
\* A console has two lines and a cell of a third, the window one line.
CONSTANTS
  NR = 2
  WIDTH = 2
  SCREEN = 2
  LIMIT = 5
  VMEM = 10
  MOD = 17
  Printed = {1}
SPECIFICATION Spec
INVARIANTS OwnMemory StaysInside ShowsCurrent
PROPERTIES ImplementsScreen FollowsCursor LoopScrolls
