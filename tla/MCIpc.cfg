\* Three processes and the disk task, one message type.
CONSTANTS
  HD = hd
  Proc = {hd, p1, p2, p3}
  ANY = ANY   INTERRUPT = INTERRUPT   NO_TASK = NO_TASK   NULL = NULL
  SENDING = SENDING   RECEIVING = RECEIVING
  Type = {t1}
  HARD_INT = HARD_INT
SPECIFICATION Spec
SYMMETRY Symmetry
\* A failed assertion or a panic stops the machine.
CHECK_DEADLOCK FALSE
INVARIANTS TypeOK QueueExact SendAcyclic NoMissedRendezvous NoLostWakeup AssertsOnlyForHD
PROPERTY ReleasedWithMessage
