\* All requests; what is read and written, and when requests are answered.
CONSTANTS
  Kinds = {"DEV_OPEN", "DEV_CLOSE", "DEV_READ", "DEV_WRITE", "DEV_IOCTL"}
  NSect = 3
  Val = {v, w}
  NOISE = NOISE
  Tables = {1, 3}
  U8 = 2
  MaxOpen = 2
SPECIFICATION Spec
\* A failed assertion or a drive that does not get ready stops the machine.
CHECK_DEADLOCK FALSE
INVARIANTS TypeOK QuietBetweenRequests
PROPERTIES ReadsSectors WritesSectors AnsweredOrStopped
