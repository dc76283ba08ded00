------------------------------- MODULE Clock -------------------------------
(***************************************************************************)
(* The counter of the clock (kernel/clock.c), the system task that hands it *)
(* out (kernel/systask.c), and the two loops that wait by it: milli_delay   *)
(* and the disk driver's waitfor (kernel/hd.c:235).                         *)
(*                                                                          *)
(* A question for the time is a message to the system task and one back     *)
(* (send_recv(BOTH)): the answer may be old when it arrives.  The counter   *)
(* goes back to 0 at MAX_TICKS, below the largest int, and the loops        *)
(* compute the milliseconds in an int that wraps (kernel built without      *)
(* -ftrapv or optimisation: the processor's imul and idiv).                 *)
(***************************************************************************)
EXTENDS IntC

CONSTANTS Procs,      \* those who wait
          Pollers,    \* those of them who wait for the drive (waitfor)
          Wants,      \* how many milliseconds they wait
          MAX_TICKS,  \* where the counter goes back to 0
          HALF,       \* an int holds -HALF .. HALF - 1
          SEC, HZ,    \* milliseconds and ticks of a second
          SLOW        \* bound: the ticks from one reading for a loop to the next

ASSUME ClockAssumption ==
  /\ {MAX_TICKS, HALF, SEC, HZ, SLOW} \subseteq Nat \ {0}
  /\ MAX_TICKS <= HALF /\ SEC % 2 = 0
  /\ Pollers \subseteq Procs
  /\ Wants \subseteq Nat /\ \A m \in Wants : m * HZ < HALF

VARIABLES
  ticks,    \* the counter
  pc,       \* a waiting process: "idle", "asking", "asked", "answered", "over"
  want, t,  \* the argument and the local t of its loop; t is -1 before it is read
  now,      \* the answer it has got last
  sys,      \* task_sys: the answer it is about to send, or {}
  due,      \* history: the ticks to come until the process has waited long enough
  wrapped,  \* history: the counter has gone back to 0 since t was read
  slow      \* the ticks since the counter was last read for the process

vars == <<ticks, pc, want, t, now, sys, due, wrapped, slow>>

Init ==
  /\ ticks \in 0 .. MAX_TICKS - 1
  /\ pc = [p \in Procs |-> "idle"]
  /\ want = [p \in Procs |-> 0] /\ t = [p \in Procs |-> -1] /\ now = [p \in Procs |-> 0]
  /\ sys = {}
  /\ due = [p \in Procs |-> 0] /\ wrapped = [p \in Procs |-> FALSE]
  /\ slow = [p \in Procs |-> 0]

----------------------------------------------------------------------------
(* The arithmetic *)

\* Mutant of Elapsed: the tick that has begun is counted.
ElapsedUp(b, a) == Quot(Word(Word(b - a + 1, HALF) * SEC, HALF), HZ)

\* The milliseconds from a to b, as the loops compute them.
Elapsed(b, a) == Quot(Word(Word(b - a, HALF) * SEC, HALF), HZ)

\* The ticks that really make m milliseconds.
TicksOf(m) == (m * HZ + SEC - 1) \div SEC

\* What a loop gains when the counter goes back to 0 meanwhile.
Gain == HALF - MAX_TICKS

----------------------------------------------------------------------------
(* The clock and the system task *)

\* Mutant of Tick: the counter reaches MAX_TICKS.
TickPast ==
  /\ \A p \in Procs : pc[p] \in {"idle", "over"} \/ slow[p] < SLOW
  /\ ticks' = IF ticks >= MAX_TICKS THEN 0 ELSE ticks + 1
  /\ due' = [p \in Procs |-> IF due[p] > 0 THEN due[p] - 1 ELSE 0]
  /\ wrapped' = [p \in Procs |-> wrapped[p] \/ ticks' = 0]
  /\ slow' = [p \in Procs |-> IF pc[p] \in {"idle", "over"} THEN 0 ELSE slow[p] + 1]
  /\ UNCHANGED <<pc, want, t, now, sys>>

\* clock_handler counts.
Tick ==
  /\ \A p \in Procs : pc[p] \in {"idle", "over"} \/ slow[p] < SLOW
  /\ ticks' = IF ticks + 1 >= MAX_TICKS THEN 0 ELSE ticks + 1
  /\ due' = [p \in Procs |-> IF due[p] > 0 THEN due[p] - 1 ELSE 0]
  /\ wrapped' = [p \in Procs |-> wrapped[p] \/ ticks' = 0]
  /\ slow' = [p \in Procs |-> IF pc[p] \in {"idle", "over"} THEN 0 ELSE slow[p] + 1]
  /\ UNCHANGED <<pc, want, t, now, sys>>

\* task_sys has received a question and reads the counter.  The first time the
\* wait of the process begins here.
SysReads(p) ==
  /\ sys = {} /\ pc[p] = "asking"
  /\ pc' = [pc EXCEPT ![p] = "asked"]
  /\ sys' = {[to |-> p, RETVAL |-> ticks]}
  /\ slow' = [slow EXCEPT ![p] = 0]
  /\ IF t[p] = -1
     THEN /\ due' = [due EXCEPT ![p] = TicksOf(want[p])]
          /\ wrapped' = [wrapped EXCEPT ![p] = FALSE]
     ELSE UNCHANGED <<due, wrapped>>
  /\ UNCHANGED <<ticks, want, t, now>>

\* ... and sends what it has read.
SysSends ==
  \E m \in sys :
    /\ sys' = {}
    /\ pc' = [pc EXCEPT ![m.to] = "answered"]
    /\ now' = [now EXCEPT ![m.to] = m.RETVAL]
    /\ UNCHANGED <<ticks, want, t, due, wrapped, slow>>

----------------------------------------------------------------------------
(* milli_delay and waitfor *)

\* A process begins to wait m milliseconds and asks for the time.
Begin(p, m) ==
  /\ pc[p] \in {"idle", "over"} /\ pc' = [pc EXCEPT ![p] = "asking"]
  /\ want' = [want EXCEPT ![p] = m] /\ t' = [t EXCEPT ![p] = -1]
  /\ slow' = [slow EXCEPT ![p] = 0]
  /\ UNCHANGED <<ticks, now, sys, due, wrapped>>

\* Mutant of First: the time is asked for again in every round of the loop.
FirstAgain(p) ==
  /\ pc[p] = "answered" /\ t[p] = -1
  /\ pc' = [pc EXCEPT ![p] = "asking"]
  /\ UNCHANGED <<ticks, want, t, now, sys, due, wrapped, slow>>

\* The first answer becomes t, and the condition of the loop asks again.
First(p) ==
  /\ pc[p] = "answered" /\ t[p] = -1
  /\ t' = [t EXCEPT ![p] = now[p]] /\ pc' = [pc EXCEPT ![p] = "asking"]
  /\ UNCHANGED <<ticks, want, now, sys, due, wrapped, slow>>

\* Every other answer is compared: the wait is over, or the drive is ready, or it
\* goes on.
Compare(p) ==
  /\ pc[p] = "answered" /\ t[p] # -1
  /\ IF Elapsed(now[p], t[p]) >= want[p]
     THEN pc' = [pc EXCEPT ![p] = "over"]
     ELSE \/ pc' = [pc EXCEPT ![p] = "asking"]
          \/ p \in Pollers /\ pc' = [pc EXCEPT ![p] = "idle"]
  /\ UNCHANGED <<ticks, want, t, now, sys, due, wrapped, slow>>

Next ==
  \/ Tick \/ SysSends
  \/ \E p \in Procs : \/ SysReads(p) \/ First(p) \/ Compare(p)
                      \/ \E m \in Wants : Begin(p, m)

\* The timer goes on; task_sys serves the questions in turn (its queue is first
\* in, first out) and those who wait are scheduled.
Spec ==
  /\ Init /\ [][Next]_vars
  /\ SF_vars(Tick) /\ WF_vars(SysSends)
  /\ \A p \in Procs : SF_vars(SysReads(p)) /\ WF_vars(First(p)) /\ WF_vars(Compare(p))

----------------------------------------------------------------------------
(* Properties *)

\* The variables keep their types; the counter stays below MAX_TICKS.
TypeOK ==
  /\ ticks \in 0 .. MAX_TICKS - 1
  /\ pc \in [Procs -> {"idle", "asking", "asked", "answered", "over"}]
  /\ want \in [Procs -> Wants \cup {0}]
  /\ t \in [Procs -> -1 .. MAX_TICKS - 1] /\ now \in [Procs -> 0 .. MAX_TICKS - 1]
  /\ sys \in SUBSET [to : Procs, RETVAL : 0 .. MAX_TICKS - 1]
  /\ due \in [Procs -> Nat] /\ wrapped \in [Procs -> BOOLEAN] /\ slow \in [Procs -> Nat]

\* Whoever leaves milli_delay, or gives up in waitfor, has waited as long as he
\* wanted; but if the counter has gone back to 0 meanwhile, up to Gain ticks less.
DelayLongEnough ==
  \A p \in Procs : pc[p] = "over" => due[p] <= IF wrapped[p] THEN Gain ELSE 0

\* Those who wait a time that fits an int, with what a loop may miss in between.
Waiting == {p \in Procs : pc[p] = "asking" /\ want[p] * HZ + (Gain + SLOW) * SEC < HALF}

\* Every such wait ends, also across the end of the counter.
DelayEnds == \A p \in Procs : p \in Waiting ~> pc[p] \in {"idle", "over"}
=============================================================================
