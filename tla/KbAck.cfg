\* A key that sets the LEDs.
CONSTANTS
  Keys = {"A", "CAPS_LOCK"}
  KB_IN_BYTES = 3
  MaxDown = 2
  TTY_IN_BYTES = 1
  NR = 1
SPECIFICATION Spec
\* Once a byte has been dropped the user stops, and the driver may wait for ever.
CHECK_DEADLOCK FALSE
PROPERTY AckSeen
