\* Characters with Shift and Caps Lock, two consoles, the right Ctrl and Alt, whose
\* codes are those of the left ones with a prefix, and the two long codes.
CONSTANTS
  Keys = {"A", "SHIFT_L", "CAPS_LOCK", "F1", "F2", "CTRL_R", "ALT_R",
          "PRINTSCREEN", "PAUSEBREAK"}
  KB_IN_BYTES = 4
  MaxDown = 2
  TTY_IN_BYTES = 1
  NR = 2
SPECIFICATION Spec
\* Once a byte has been dropped the user stops, and the driver may wait for ever.
CHECK_DEADLOCK FALSE
INVARIANTS KeysInOrder NoKeyLost ModifiersTrack SequenceComes
