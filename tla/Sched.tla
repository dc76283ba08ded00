------------------------------- MODULE Sched -------------------------------
(***************************************************************************)
(* schedule() of kernel/proc.c, clock_handler of kernel/clock.c and the     *)
(* entry and exit paths of kernel/kernel.asm that lead to them.             *)
(*                                                                          *)
(* A process runs until it blocks in a system call or until a clock tick in *)
(* user mode calls schedule().  System calls and interrupt handlers run     *)
(* with interrupts enabled (kernel.asm:127, 218, 403), so clock ticks come  *)
(* in the middle of them, and of schedule() itself, where they only charge  *)
(* the process p_proc_ready points to; and the disk's interrupt makes the   *)
(* disk task runnable at any moment.  Why a process blocks and who wakes it *)
(* is the business of module Ipc: here a call does either, at will.         *)
(*                                                                          *)
(* Names that module Clock uses as well have a prefix here, because one     *)
(* module of proofs extends both.                                           *)
(***************************************************************************)
EXTENDS Integers, FiniteSets

CONSTANTS N,        \* NR_TASKS + NR_PROCS
          Prio,     \* [0..N-1 -> Nat], p->priority: 15 for tasks, 5 for users
          HD,       \* TASK_HD, the task the disk's interrupt wakes
          Spinners  \* processes that may compute for ever without a system call

Proc == 0 .. N-1

ASSUME SchedAssumption ==
  /\ N \in Nat \ {0}
  /\ Prio \in [Proc -> Nat \ {0}]
  /\ HD \in Proc
  /\ Spinners \subseteq Proc

VARIABLES
  blocked,   \* the processes with p_flags # 0
  p_ticks,   \* [Proc -> Nat], what is left of each slice
  current,   \* p_proc_ready
  mode,      \* what the processor is doing, see Mode
  masked,    \* the clock's line is masked: schedule() was called by its handler
  i,         \* schedule(): the loop's index
  greatest   \* schedule(): greatest_ticks

loop == <<masked, i, greatest>>
sched == <<blocked, p_ticks, current, mode, masked, i, greatest>>

Mode == {"user",      \* current runs
         "kernel",    \* in a system call of current
         "scan",      \* schedule(): looking at process i
         "take",      \* schedule(): process i has been found better
         "refill",    \* schedule(): giving process i a new slice
         "leaving"}   \* on the way back to user mode

SchedInit ==
  /\ blocked = {} /\ p_ticks = Prio /\ current = 0
  /\ mode = "user" /\ masked = FALSE /\ i = 0 /\ greatest = 0

----------------------------------------------------------------------------
(* System calls *)

SysCall ==
  /\ mode = "user" /\ mode' = "kernel"
  /\ UNCHANGED <<blocked, p_ticks, current, loop>>

\* The call blocks nobody; it may release a process that waits for the caller.
CallReturns ==
  /\ mode = "kernel" /\ mode' = "leaving"
  /\ \E S \in {{}} \cup {{q} : q \in blocked} : blocked' = blocked \ S
  /\ UNCHANGED <<p_ticks, current, loop>>

\* Mutant of CallBlocks: the caller's slice is renewed.
CallBlocksRenewed ==
  /\ mode = "kernel" /\ mode' = "scan"
  /\ blocked' = blocked \cup {current}
  /\ p_ticks' = [p_ticks EXCEPT ![current] = Prio[current]]
  /\ i' = 0 /\ greatest' = 0
  /\ UNCHANGED <<current, masked>>

\* The call blocks its caller, and block() calls schedule().
CallBlocks ==
  /\ mode = "kernel" /\ mode' = "scan"
  /\ blocked' = blocked \cup {current}
  /\ i' = 0 /\ greatest' = 0
  /\ UNCHANGED <<p_ticks, current, masked>>

\* restart: the process p_proc_ready points to goes on.
Return ==
  /\ mode = "leaving" /\ mode' = "user"
  /\ UNCHANGED <<blocked, p_ticks, current, loop>>

----------------------------------------------------------------------------
(* Interrupts *)

\* An interrupt that wakes nobody (the keyboard's) interrupts a process.
Interrupt ==
  /\ mode = "user" /\ mode' = "leaving"
  /\ UNCHANGED <<blocked, p_ticks, current, loop>>

\* The disk's interrupt, in whatever it comes: inform_int wakes the disk task
\* and does not schedule.
DiskInterrupt ==
  /\ HD \in blocked /\ blocked' = blocked \ {HD}
  /\ mode' = IF mode = "user" THEN "leaving" ELSE mode
  /\ UNCHANGED <<p_ticks, current, loop>>

\* A tick while a process runs.  With nothing left of the slice the handler
\* returns at once (clock.c:36), which changes nothing.
TickUser ==
  /\ mode = "user" /\ p_ticks[current] > 0
  /\ p_ticks' = [p_ticks EXCEPT ![current] = @ - 1]
  /\ mode' = "scan" /\ masked' = TRUE /\ i' = 0 /\ greatest' = 0
  /\ UNCHANGED <<blocked, current>>

\* Mutant of TickNested: the test of clock.c:35 is missing.
TickNestedUnchecked ==
  /\ mode # "user" /\ ~masked
  /\ p_ticks' = [p_ticks EXCEPT ![current] = @ - 1]
  /\ UNCHANGED <<blocked, current, mode, loop>>

\* A tick in the middle of a call, of schedule() or of another handler
\* (k_reenter # 0): the slice is charged and nothing is scheduled.
TickNested ==
  /\ mode # "user" /\ ~masked /\ p_ticks[current] > 0
  /\ p_ticks' = [p_ticks EXCEPT ![current] = @ - 1]
  /\ UNCHANGED <<blocked, current, mode, loop>>

ClockTick == TickUser \/ TickNested

----------------------------------------------------------------------------
(* schedule() *)

\* Mutant of Better: p_flags is not tested.
BetterBlocked(p) == p_ticks[p] > greatest

\* Process p is the best so far.
Better(p) == p \notin blocked /\ p_ticks[p] > greatest

Scan ==
  /\ mode = "scan" /\ i < N
  /\ \/ Better(i) /\ mode' = "take" /\ UNCHANGED i
     \/ ~Better(i) /\ i' = i + 1 /\ UNCHANGED mode
  /\ UNCHANGED <<blocked, p_ticks, current, masked, greatest>>

\* Mutant of Take: greatest_ticks is not set.
TakeWithoutRecord ==
  /\ mode = "take" /\ mode' = "scan"
  /\ current' = i /\ i' = i + 1
  /\ UNCHANGED <<blocked, p_ticks, masked, greatest>>

\* p->ticks is read a second time: a tick may have come since the comparison.
Take ==
  /\ mode = "take" /\ mode' = "scan"
  /\ greatest' = p_ticks[i] /\ current' = i /\ i' = i + 1
  /\ UNCHANGED <<blocked, p_ticks, masked>>

\* All processes have been looked at, and one was found.
Found ==
  /\ mode = "scan" /\ i = N /\ greatest > 0
  /\ mode' = IF masked THEN "user" ELSE "leaving"
  /\ masked' = FALSE /\ i' = 0 /\ greatest' = 0
  /\ UNCHANGED <<blocked, p_ticks, current>>

\* None was: those that are runnable get a new slice, one after the other.
NoneFound ==
  /\ mode = "scan" /\ i = N /\ greatest = 0
  /\ mode' = "refill" /\ i' = 0
  /\ UNCHANGED <<blocked, p_ticks, current, masked, greatest>>

Refill ==
  /\ mode = "refill"
  /\ IF i < N
     THEN /\ p_ticks' = IF i \in blocked THEN p_ticks ELSE [p_ticks EXCEPT ![i] = Prio[i]]
          /\ i' = i + 1 /\ UNCHANGED mode
     ELSE i' = 0 /\ mode' = "scan" /\ UNCHANGED p_ticks
  /\ UNCHANGED <<blocked, current, masked, greatest>>

Schedule == Scan \/ Take \/ Found \/ NoneFound \/ Refill

SchedNext ==
  \/ SysCall \/ CallReturns \/ CallBlocks \/ Return
  \/ Interrupt \/ DiskInterrupt \/ ClockTick \/ Schedule

\* The processor never idles; the timer keeps ticking, and a tick that comes
\* while its line is masked is kept by the 8259A until it is not; a process that
\* is not a spinner calls again and again, and not all of its calls return at
\* once (the loops of task_sys and procA-C contain a RECEIVE).  Spinners are
\* task_tty, which polls the keyboard, task_fs, which ends in spin("FS")
\* (fs/main.c:57), and task_hd, which spins after a message it does not know
\* (hd.c:85).
Fairness ==
  /\ WF_sched(Schedule) /\ WF_sched(Return) /\ WF_sched(CallReturns \/ CallBlocks)
  /\ SF_sched(ClockTick)
  /\ \A p \in Proc \ Spinners : /\ SF_sched(current = p /\ SysCall)
                                /\ SF_sched(current = p /\ CallBlocks)

SchedSpec == SchedInit /\ [][SchedNext]_sched
FairSpec == SchedSpec /\ Fairness

----------------------------------------------------------------------------
(* Properties *)

\* The variables keep their types; no slice is longer than the priority or less
\* than nothing.
SchedTypeOK ==
  /\ blocked \subseteq Proc
  /\ p_ticks \in [Proc -> Nat] /\ \A p \in Proc : p_ticks[p] <= Prio[p]
  /\ current \in Proc
  /\ mode \in Mode /\ masked \in BOOLEAN
  /\ i \in 0 .. N /\ greatest \in Nat

\* What runs is runnable: restart never goes on with a process whose p_flags is
\* set, although processes block, and the disk task wakes, while schedule() is
\* choosing among them (proc.c:44-70, 231-235).
RunsRunnable == mode \in {"user", "kernel", "leaving"} => current \notin blocked

\* A process is given a new slice only when it has used up the old one, whatever
\* comes between the search that found nobody and the refill.  The exception is
\* the disk task, which may become runnable in between (proc.c:49-69).
RefillWhenSpent ==
  [][\A p \in Proc \ {HD} : p_ticks'[p] > p_ticks[p] => p_ticks[p] = 0]_sched

\* The running process need not enter the kernel, and its slice was used up by a
\* tick that came while it was in an interrupt: no later tick calls schedule().
Stuck == mode = "user" /\ current \in Spinners /\ p_ticks[current] = 0

\* A process that stays runnable runs again and again, unless a spinning process
\* is stuck with an empty slice: a sleep does not gain a process so much that
\* two of them could share the processor between them (clock.c:27-43).
StarvedOnlyByStuck ==
  \A p \in Proc : []<>(p \in blocked \/ current = p \/ Stuck)

----------------------------------------------------------------------------
(* The inductive invariant behind RunsRunnable and RefillWhenSpent. *)

\* All processes below k that stayed runnable have no slice left.
SpentBelow(k) == \A p \in Proc \ {HD} : p < k /\ p \notin blocked => p_ticks[p] = 0

\* schedule() has found `current', or found nobody so far.
ScanCoherent ==
  /\ mode \in {"scan", "take"} /\ greatest > 0 => current < i /\ current \notin blocked
  /\ mode = "take" => /\ i < N /\ i \notin blocked
                      /\ p_ticks[i] > greatest \/ (greatest = 0 /\ current = i)
  /\ mode \in {"scan", "take"} /\ greatest = 0 => SpentBelow(i)

\* What remains to be refilled is spent.
RefillCoherent ==
  mode = "refill" =>
    /\ greatest = 0
    /\ \A p \in Proc \ {HD} : p >= i /\ p \notin blocked => p_ticks[p] = 0

\* The clock's line stays masked only inside schedule().
MaskCoherent == masked => mode \in {"scan", "take", "refill"}

SchedInv == SchedTypeOK /\ RunsRunnable /\ ScanCoherent /\ RefillCoherent /\ MaskCoherent
=============================================================================
