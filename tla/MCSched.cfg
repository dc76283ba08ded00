\* Processes 0 (task_tty), 1 (task_hd) and 2 (task_fs) need not call the kernel; 3 is a
\* user process.
CONSTANTS
  N = 4
  Prio <- MCPrio
  HD = 1
  Spinners = {0, 1, 2}
SPECIFICATION FairSpec
INVARIANTS SchedTypeOK RunsRunnable
PROPERTIES RefillWhenSpent StarvedOnlyByStuck
