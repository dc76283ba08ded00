CONSTANTS
  Procs = {p, d}
  Pollers = {d}
  Wants = {5}
  MAX_TICKS = 11
  HALF = 12
  SEC = 2
  HZ = 1
  SLOW = 2
SPECIFICATION Spec
INVARIANTS TypeOK DelayLongEnough
PROPERTY DelayEnds
