----------------------------- MODULE ClockProofs -----------------------------
(***************************************************************************)
(* Proofs about module Clock, for the units of the kernel and every value   *)
(* of MAX_TICKS that comes round more slowly than the longest wait, and      *)
(* about module Sched, whose slices the same interrupt charges.              *)
(***************************************************************************)
EXTENDS Clock, Sched, TLAPS

\* int is 32 bits wide; irq.h HZ, and a second has 1000 ms.  The counter does not come
\* round twice within a wait (0x7FFFABCD in time.h).
Units ==
  /\ HALF = 2147483648 /\ SEC = 1000 /\ HZ = 100
  /\ MAX_TICKS \in Nat /\ 2147485 <= MAX_TICKS /\ MAX_TICKS <= 2147483648

----------------------------------------------------------------------------
(* Types *)

LEMMA Quotient == ASSUME NEW x \in Nat, NEW d \in Nat \ {0} PROVE x \div d \in Nat
BY SMT

LEMMA Product == ASSUME NEW x \in Nat, NEW d \in Nat PROVE x * d \in Nat
BY SMT

LEMMA TicksType == ASSUME NEW m \in Nat PROVE TicksOf(m) \in Nat
<1>1. m * HZ + SEC - 1 \in Nat /\ SEC \in Nat \ {0}
  BY Product, ClockAssumption
<1> QED
  BY <1>1, Quotient DEF TicksOf

\* The counter stays below MAX_TICKS and the answers with it, whatever the constants.
LEMMA TypeStep == ASSUME TypeOK, [Next]_vars PROVE TypeOK'
<1>1. CASE Tick
  <2>1. ticks' \in 0 .. MAX_TICKS - 1
    BY <1>1, ClockAssumption DEF Tick, TypeOK
  <2>2. due' \in [Procs -> Nat] /\ slow' \in [Procs -> Nat]
    BY <1>1 DEF Tick, TypeOK
  <2>3. wrapped' \in [Procs -> BOOLEAN]
    BY <1>1 DEF Tick, TypeOK
  <2> QED
    BY <1>1, <2>1, <2>2, <2>3 DEF Tick, TypeOK
<1>2. CASE SysSends
  BY <1>2 DEF SysSends, TypeOK
<1>3. ASSUME NEW p \in Procs, SysReads(p)
      PROVE  TypeOK'
  <2>1. pc' \in [Procs -> {"idle", "asking", "asked", "answered", "over"}]
    BY <1>3 DEF SysReads, TypeOK
  <2>2. sys' \in SUBSET [to : Procs, RETVAL : 0 .. MAX_TICKS - 1]
    BY <1>3 DEF SysReads, TypeOK
  <2>3. TicksOf(want[p]) \in Nat
    BY ClockAssumption, TicksType DEF TypeOK
  <2>4. due' \in [Procs -> Nat] /\ slow' \in [Procs -> Nat]
    BY <1>3, <2>3 DEF SysReads, TypeOK
  <2>5. wrapped' \in [Procs -> BOOLEAN]
    BY <1>3 DEF SysReads, TypeOK
  <2> QED
    BY <1>3, <2>1, <2>2, <2>4, <2>5 DEF SysReads, TypeOK
<1>4. ASSUME NEW p \in Procs, First(p)
      PROVE  TypeOK'
  BY <1>4 DEF First, TypeOK
<1>5. ASSUME NEW p \in Procs, Compare(p)
      PROVE  TypeOK'
  BY <1>5 DEF Compare, TypeOK
<1>6. ASSUME NEW p \in Procs, NEW m \in Wants, Begin(p, m)
      PROVE  TypeOK'
  BY <1>6, ClockAssumption DEF Begin, TypeOK
<1>7. CASE UNCHANGED vars
  BY <1>7 DEF vars, TypeOK
<1> QED
  BY <1>1, <1>2, <1>3, <1>4, <1>5, <1>6, <1>7 DEF Next

\* The counter stays below MAX_TICKS and the answers with it, whatever the constants.
THEOREM TypeCorrect == Spec => []TypeOK
<1>1. Init => TypeOK
  BY ClockAssumption DEF Init, TypeOK
<1>2. TypeOK /\ [Next]_vars => TypeOK'
  BY TypeStep
<1> QED
  BY <1>1, <1>2, PTL DEF Spec

----------------------------------------------------------------------------
(* Arithmetic *)

\* Fewer than the ticks of m milliseconds are less than m milliseconds.
LEMMA Short ==
  ASSUME Units, NEW m \in Nat, m * 100 < 2147483648, NEW k \in Nat, k < TicksOf(m)
  PROVE  1000 * k < 100 * m
BY SMT DEF TicksOf, Units

\* Within its range an int is what it is.
LEMMA Fits ==
  ASSUME NEW x \in Int, x >= -2147483648, x < 2147483648
  PROVE  Word(x, 2147483648) = x
BY SMT DEF Word

\* Without a wrap the loop sees the milliseconds that have passed.
LEMMA ElapsedPlain ==
  ASSUME Units, NEW a \in Int, NEW b \in Int, NEW k \in Nat, b - a = k, 1000 * k < 2147483648
  PROVE  Elapsed(b, a) = 10 * k
<1>1. Word(b - a, HALF) = k /\ Word(k * SEC, HALF) = 1000 * k
  BY Fits, SMT DEF Units
<1>2. (1000 * k) \div 100 = 10 * k
  BY SMT
<1> QED
  BY <1>1, <1>2, SMT DEF Elapsed, Quot, Units

\* Across the wrap it sees Gain ticks more: SEC is even, so that the product loses
\* whole words.
LEMMA ElapsedWrapped ==
  ASSUME Units, NEW a \in Int, NEW b \in Int, NEW k \in Nat, b - a = k - MAX_TICKS, k <= MAX_TICKS,
         1000 * (k + Gain) < 2147483648
  PROVE  Elapsed(b, a) = 10 * (k + Gain)
<1>1. PICK g \in Nat : g = Gain /\ MAX_TICKS = 2147483648 - g
  BY SMT DEF Gain, Units
<1>2. Word(b - a, HALF) = k + g - 2147483648
  BY <1>1, Fits, SMT DEF Units
<1>3. Word((k + g - 2147483648) * SEC, HALF) = 1000 * (k + g)
  <2>1. (k + g - 2147483648) * 1000 = 1000 * (k + g) - 500 * 4294967296
    BY SMT
  <2>2. (1000 * (k + g) - 500 * 4294967296 + 2147483648) % 4294967296 = 1000 * (k + g) + 2147483648
    BY <1>1, SMT
  <2> QED
    BY <2>1, <2>2, SMT DEF Word, Units
<1>4. (1000 * (k + g)) \div 100 = 10 * (k + g)
  BY SMT
<1> QED
  BY <1>1, <1>2, <1>3, <1>4, SMT DEF Elapsed, Quot, Units

\* A wait is shorter than the counter's round, and so long as its ticks are not over
\* the loop sees less than it wants.
LEMMA WantsFit ==
  ASSUME Units, NEW m \in Wants \cup {0}
  PROVE  /\ m \in Nat /\ m * 100 < 2147483648
         /\ TicksOf(m) \in Nat /\ TicksOf(m) < MAX_TICKS
<1>1. m \in Nat /\ m * HZ < HALF
  BY ClockAssumption, SMT DEF Units
<1>2. m * 100 < 2147483648
  BY <1>1, SMT DEF Units
<1> QED
  BY <1>1, <1>2, SMT DEF Units, TicksOf

\* What the comparison lets pass: without a wrap nothing too early, across it Gain.
LEMMA Early ==
  ASSUME Units, NEW m \in Wants \cup {0}, NEW a \in Int, NEW k \in Nat, k < TicksOf(m)
  PROVE  /\ Elapsed(a + k, a) < m
         /\ Elapsed(a + k - MAX_TICKS, a) >= m => TicksOf(m) - k <= Gain
<1>1. m \in Nat /\ m * 100 < 2147483648 /\ TicksOf(m) \in Nat /\ TicksOf(m) < MAX_TICKS
  BY WantsFit
<1>2. 1000 * k < 100 * m
  BY <1>1, Short
<1>3. Elapsed(a + k, a) < m
  <2>1. Elapsed(a + k, a) = 10 * k
    <3>1. PICK b \in Int : b = a + k
      BY SMT
    <3>2. b - a = k /\ 1000 * k < 2147483648
      BY <1>1, <1>2, <3>1, SMT
    <3>3. Elapsed(b, a) = 10 * k
      BY <3>2, ElapsedPlain, SMT
    <3> QED
      BY <3>1, <3>3, SMT
  <2> QED
    BY <1>1, <1>2, <2>1, SMT
<1>4. PICK g \in Nat : g = Gain
  BY SMT DEF Gain, Units
<1>5. TicksOf(m) = (m * 100 + 999) \div 1000
  BY <1>1, SMT DEF TicksOf, Units
<1>6. CASE 1000 * (k + g) < 2147483648
  <2>1. MAX_TICKS \in Nat
    BY SMT DEF Units
  <2>2. Elapsed(a + k - MAX_TICKS, a) = 10 * (k + g)
    <3>1. (a + k - MAX_TICKS) - a = k - MAX_TICKS /\ k <= MAX_TICKS
          /\ a + k - MAX_TICKS \in Int
      BY <1>1, <2>1, SMT
    <3> QED
      BY <3>1, <1>4, <1>6, ElapsedWrapped, SMT
  <2>3. 10 * (k + g) >= m => (m * 100 + 999) \div 1000 - k <= g
    BY <1>1, SMT
  <2> QED
    BY <1>3, <1>4, <1>5, <2>2, <2>3, SMT
<1>7. CASE 1000 * (k + g) >= 2147483648
  <2>1. (m * 100 + 999) \div 1000 - k <= g
    BY <1>1, <1>7, SMT
  <2> QED
    BY <1>3, <1>4, <1>5, <2>1, SMT
<1> QED
  BY <1>6, <1>7, SMT

----------------------------------------------------------------------------
(* The inductive invariant *)

\* The ticks since the wait of p began, and the counter then.
Past(p) == TicksOf(want[p]) - due[p]
Base(p) == ticks - Past(p) + IF wrapped[p] THEN MAX_TICKS ELSE 0

\* The wait of p has begun and is not long enough yet.
Live(p) ==
  /\ due[p] > 0
  /\ pc[p] \in {"asked", "answered"} \/ (pc[p] = "asking" /\ t[p] # -1)

\* The counter was r when the wait of p began, or at some time since.
Recent(r, p) ==
  IF t[p] = -1 THEN r = Base(p)
  ELSE \E k \in Nat : /\ k <= Past(p)
                      /\ r = Base(p) + k \/ (wrapped[p] /\ r = Base(p) + k - MAX_TICKS)

LiveCoherent ==
  \A p \in Procs : Live(p) =>
    /\ Past(p) \in Nat /\ Base(p) \in 0 .. MAX_TICKS - 1
    /\ t[p] # -1 => t[p] = Base(p)
    /\ pc[p] = "answered" => Recent(now[p], p)

SysCoherent ==
  \A m \in sys : pc[m.to] = "asked" /\ (due[m.to] > 0 => Recent(m.RETVAL, m.to))

IInv == TypeOK /\ DelayLongEnough /\ LiveCoherent /\ SysCoherent

----------------------------------------------------------------------------
(* Every step keeps it *)

LEMMA WaitType ==
  ASSUME Units, TypeOK, NEW p \in Procs
  PROVE  /\ want[p] \in Wants \cup {0}
         /\ TicksOf(want[p]) \in Nat /\ TicksOf(want[p]) < MAX_TICKS
         /\ due[p] \in Nat /\ ticks \in Nat /\ ticks < MAX_TICKS /\ MAX_TICKS \in Nat
<1>1. want[p] \in Wants \cup {0} /\ due[p] \in Nat
  BY DEF TypeOK
<1>2. MAX_TICKS \in Nat
  BY SMT DEF Units
<1>3. ticks \in Nat /\ ticks < MAX_TICKS
  BY <1>2, SMT DEF TypeOK
<1> QED
  BY <1>1, <1>2, <1>3, WantsFit

\* The counter may go on and even begin again: it tells the same of the beginning.
LEMMA BaseKept ==
  ASSUME Units, IInv, Tick, NEW p \in Procs, Live(p)'
  PROVE  /\ Live(p) /\ Past(p) \in Nat /\ Past(p)' = Past(p) + 1
         /\ Base(p) \in Int /\ Base(p)' = Base(p)
<1> USE DEF IInv
<1>1. PICK n \in Nat, d \in Nat : n = TicksOf(want[p]) /\ d = due[p] /\ n < MAX_TICKS
  BY WaitType
<1>2. ticks \in Nat /\ ticks < MAX_TICKS /\ MAX_TICKS \in Nat
  BY WaitType
<1>3. due'[p] = IF d > 0 THEN d - 1 ELSE 0
  BY <1>1 DEF Tick
<1>4. d > 1 /\ due'[p] = d - 1 /\ Live(p)
  BY <1>1, <1>3, SMT DEF Live, Tick
<1>5. Past(p) = n - d /\ n - d \in Nat
  BY <1>1, <1>4 DEF LiveCoherent, Past
<1>6. Past(p)' = n - d + 1
  BY <1>1, <1>4, SMT DEF Past, Tick, TicksOf
<1>7. Base(p) = ticks - (n - d) + (IF wrapped[p] THEN MAX_TICKS ELSE 0) /\ Base(p) \in 0 .. MAX_TICKS - 1
  BY <1>4, <1>5 DEF LiveCoherent, Base
<1>8. wrapped'[p] = (wrapped[p] \/ ticks' = 0)
  BY DEF Tick, TypeOK
<1>9. Base(p)' = ticks' - (n - d + 1) + (IF wrapped[p] \/ ticks' = 0 THEN MAX_TICKS ELSE 0)
  BY <1>6, <1>8 DEF Base
<1>10. ticks' = IF ticks + 1 >= MAX_TICKS THEN 0 ELSE ticks + 1
  BY DEF Tick
<1>11. Base(p)' = Base(p)
  <2>1. CASE ticks + 1 >= MAX_TICKS
    <3>1. ~wrapped[p]
      BY <1>1, <1>2, <1>5, <1>7, <2>1, SMT
    <3> QED
      BY <1>2, <1>5, <1>7, <1>9, <1>10, <2>1, <3>1, SMT
  <2>2. CASE ~(ticks + 1 >= MAX_TICKS)
    BY <1>2, <1>5, <1>7, <1>9, <1>10, <2>2, SMT
  <2> QED
    BY <2>1, <2>2
<1> QED
  BY <1>2, <1>4, <1>5, <1>6, <1>7, <1>11, SMT

LEMMA TickStep == ASSUME Units, IInv, Tick PROVE DelayLongEnough' /\ LiveCoherent' /\ SysCoherent'
<1> USE DEF IInv
<1>1. ASSUME NEW p \in Procs, Live(p)', NEW r, Recent(r, p)
      PROVE  Recent(r, p)'
  <2>1. Past(p) \in Nat /\ Past(p)' = Past(p) + 1 /\ Base(p)' = Base(p)
    BY <1>1, BaseKept
  <2>2. t' = t /\ (wrapped[p] => wrapped'[p])
    BY DEF Tick, TypeOK
  <2>3. CASE t[p] = -1
    BY <1>1, <2>1, <2>2, <2>3 DEF Recent
  <2>4. CASE t[p] # -1
    <3>1. PICK k \in Nat : k <= Past(p) /\ (r = Base(p) + k \/ (wrapped[p] /\ r = Base(p) + k - MAX_TICKS))
      BY <1>1, <2>4 DEF Recent
    <3>2. k <= Past(p)'
      BY <2>1, <3>1, SMT
    <3> QED
      BY <2>1, <2>2, <2>4, <3>1, <3>2 DEF Recent
  <2> QED
    BY <2>3, <2>4
<1>2. LiveCoherent'
  <2> SUFFICES ASSUME NEW p \in Procs, Live(p)'
               PROVE  /\ Past(p)' \in Nat /\ Base(p)' \in 0 .. MAX_TICKS - 1
                      /\ t'[p] # -1 => t'[p] = Base(p)'
                      /\ pc'[p] = "answered" => Recent(now[p], p)'
    BY DEF LiveCoherent
  <2>1. Live(p) /\ Past(p) \in Nat /\ Past(p)' = Past(p) + 1 /\ Base(p)' = Base(p)
    BY BaseKept
  <2>2. Base(p) \in 0 .. MAX_TICKS - 1 /\ (t[p] # -1 => t[p] = Base(p)) /\ (pc[p] = "answered" => Recent(now[p], p))
    BY <2>1 DEF LiveCoherent
  <2>3. pc' = pc /\ t' = t /\ now' = now
    BY DEF Tick
  <2>4. Past(p)' \in Nat
    BY <2>1, SMT
  <2>5. Recent(now[p], p) => Recent(now[p], p)'
    BY <1>1, <2>3
  <2> QED
    BY <2>1, <2>2, <2>3, <2>4, <2>5
<1>3. SysCoherent'
  <2> SUFFICES ASSUME NEW m \in sys
               PROVE  pc[m.to] = "asked" /\ (due'[m.to] > 0 => Recent(m.RETVAL, m.to)')
    BY DEF SysCoherent, Tick
  <2>1. m.to \in Procs /\ pc[m.to] = "asked" /\ (due[m.to] > 0 => Recent(m.RETVAL, m.to))
    BY DEF SysCoherent, TypeOK
  <2>2. ASSUME due'[m.to] > 0
        PROVE  Recent(m.RETVAL, m.to)'
    <3>1. Live(m.to)'
      BY <2>1, <2>2 DEF Live, Tick
    <3>2. due[m.to] > 0
      BY <2>1, <3>1, BaseKept DEF Live
    <3> QED
      BY <1>1, <2>1, <3>1, <3>2
  <2> QED
    BY <2>1, <2>2
<1>4. DelayLongEnough'
  <2> SUFFICES ASSUME NEW p \in Procs, pc[p] = "over"
               PROVE  due'[p] <= IF wrapped'[p] THEN Gain ELSE 0
    BY DEF DelayLongEnough, Tick
  <2>1. due[p] <= (IF wrapped[p] THEN Gain ELSE 0) /\ (wrapped[p] => wrapped'[p])
    BY DEF DelayLongEnough, Tick, TypeOK
  <2>2. due[p] \in Nat /\ due'[p] = IF due[p] > 0 THEN due[p] - 1 ELSE 0
    BY DEF Tick, TypeOK
  <2>3. Gain \in Nat
    BY SMT DEF Gain, Units
  <2> QED
    BY <2>1, <2>2, <2>3, SMT
<1> QED
  BY <1>2, <1>3, <1>4

\* Those whom a step leaves alone.
LEMMA Alone ==
  ASSUME IInv, NEW p \in Procs,
         pc'[p] = pc[p], t'[p] = t[p], want'[p] = want[p], due'[p] = due[p], wrapped'[p] = wrapped[p],
         now'[p] = now[p], ticks' = ticks
  PROVE  /\ Live(p)' => /\ Past(p)' \in Nat /\ Base(p)' \in 0 .. MAX_TICKS - 1
                        /\ t'[p] # -1 => t'[p] = Base(p)'
                        /\ pc'[p] = "answered" => Recent(now[p], p)'
         /\ \A r : Recent(r, p) => Recent(r, p)'
<1>1. Past(p)' = Past(p) /\ Live(p)' = Live(p)
  BY DEF Past, Live, TicksOf
<1>2. Base(p)' = Base(p)
  BY <1>1 DEF Base
<1>3. \A r : Recent(r, p)' = Recent(r, p)
  BY <1>1, <1>2 DEF Recent
<1> QED
  BY <1>1, <1>2, <1>3 DEF IInv, LiveCoherent

LEMMA ReadStep ==
  ASSUME Units, IInv, NEW p \in Procs, SysReads(p)
  PROVE  DelayLongEnough' /\ LiveCoherent' /\ SysCoherent'
<1> USE DEF IInv
<1>1. PICK n \in Nat : n = TicksOf(want[p])
  BY WaitType
<1>2. ticks \in Nat /\ ticks < MAX_TICKS /\ MAX_TICKS \in Nat /\ due[p] \in Nat /\ ticks' = ticks
  BY WaitType DEF SysReads
<1>3. pc[p] = "asking" /\ pc'[p] = "asked" /\ t' = t /\ want' = want /\ now' = now
  BY DEF SysReads, TypeOK
<1>4. \A q \in Procs \ {p} : pc'[q] = pc[q] /\ due'[q] = due[q] /\ wrapped'[q] = wrapped[q]
  BY DEF SysReads, TypeOK
<1>5. ASSUME due'[p] > 0
      PROVE  /\ Past(p)' \in Nat /\ Base(p)' \in 0 .. MAX_TICKS - 1 /\ (t[p] # -1 => t[p] = Base(p)')
             /\ Recent(ticks, p)'
  <2>1. CASE t[p] = -1
    <3>1. due'[p] = n /\ ~wrapped'[p]
      BY <1>1, <2>1 DEF SysReads, TypeOK
    <3>2. Past(p)' = 0
      BY <1>1, <1>3, <3>1 DEF Past, TicksOf
    <3>3. Base(p)' = ticks
      BY <1>2, <3>1, <3>2 DEF Base
    <3> QED
      BY <1>2, <1>3, <2>1, <3>2, <3>3 DEF Recent
  <2>2. CASE t[p] # -1
    <3>1. due' = due /\ wrapped' = wrapped
      BY <2>2 DEF SysReads
    <3>2. Past(p)' = Past(p)
      BY <1>3, <3>1 DEF Past, TicksOf
    <3>3. Base(p)' = Base(p)
      BY <1>2, <3>1, <3>2 DEF Base
    <3>4. Live(p)
      BY <1>3, <1>5, <2>2, <3>1 DEF Live
    <3>5. Past(p) \in Nat /\ Base(p) \in 0 .. MAX_TICKS - 1 /\ t[p] = Base(p)
      BY <2>2, <3>4 DEF LiveCoherent
    <3>6. PICK k \in Nat : k = Past(p)
      BY <3>5
    <3>7. Base(p) = ticks - k + (IF wrapped[p] THEN MAX_TICKS ELSE 0)
      BY <3>6 DEF Base
    <3>8. CASE wrapped[p]
      <4>1. ticks = Base(p) + k - MAX_TICKS
        BY <1>2, <3>7, <3>8, SMT
      <4>2. k <= Past(p)' /\ t'[p] # -1 /\ wrapped'[p]
        BY <1>3, <2>2, <3>1, <3>2, <3>6, <3>8, SMT
      <4>3. Recent(ticks, p)'
        BY <1>2, <3>3, <4>1, <4>2 DEF Recent
      <4> QED
        BY <3>2, <3>3, <3>5, <4>3
    <3>9. CASE ~wrapped[p]
      <4>1. ticks = Base(p) + k
        BY <1>2, <3>7, <3>9, SMT
      <4>2. k <= Past(p)' /\ t'[p] # -1
        BY <1>3, <2>2, <3>1, <3>2, <3>6, SMT
      <4>3. Recent(ticks, p)'
        BY <1>2, <3>3, <4>1, <4>2 DEF Recent
      <4> QED
        BY <3>2, <3>3, <3>5, <4>3
    <3> QED
      BY <3>8, <3>9
  <2> QED
    BY <2>1, <2>2
<1>6. LiveCoherent'
  <2>1. ASSUME NEW q \in Procs \ {p}, Live(q)'
        PROVE  /\ Past(q)' \in Nat /\ Base(q)' \in 0 .. MAX_TICKS - 1 /\ (t'[q] # -1 => t'[q] = Base(q)')
               /\ (pc'[q] = "answered" => Recent(now[q], q)')
    BY <1>2, <1>3, <1>4, <2>1, Alone
  <2>2. ASSUME Live(p)'
        PROVE  /\ Past(p)' \in Nat /\ Base(p)' \in 0 .. MAX_TICKS - 1 /\ (t'[p] # -1 => t'[p] = Base(p)')
               /\ pc'[p] # "answered"
    BY <1>3, <1>5, <2>2 DEF Live
  <2> QED
    BY <2>1, <2>2 DEF LiveCoherent
<1>7. SysCoherent'
  <2>1. sys' = {[to |-> p, RETVAL |-> ticks]}
    BY DEF SysReads
  <2>2. ASSUME NEW m \in sys'
        PROVE  pc'[m.to] = "asked" /\ (due'[m.to] > 0 => Recent(m.RETVAL, m.to)')
    <3>1. m.to = p /\ m.RETVAL = ticks
      BY <2>1, <2>2
    <3>2. due'[p] > 0 => Recent(m.RETVAL, p)'
      BY <1>2, <1>5, <3>1 DEF Recent
    <3> QED
      BY <1>3, <3>1, <3>2
  <2> QED
    BY <2>2 DEF SysCoherent
<1>8. DelayLongEnough'
  BY <1>3, <1>4 DEF DelayLongEnough
<1> QED
  BY <1>6, <1>7, <1>8

LEMMA SendStep == ASSUME IInv, SysSends PROVE DelayLongEnough' /\ LiveCoherent' /\ SysCoherent'
<1> USE DEF IInv
<1>1. PICK m \in sys : /\ sys' = {} /\ pc' = [pc EXCEPT ![m.to] = "answered"]
                       /\ now' = [now EXCEPT ![m.to] = m.RETVAL]
                       /\ UNCHANGED <<ticks, want, t, due, wrapped, slow>>
  BY DEF SysSends
<1>2. m.to \in Procs /\ pc[m.to] = "asked" /\ (due[m.to] > 0 => Recent(m.RETVAL, m.to))
  BY DEF SysCoherent, TypeOK
<1>3. pc'[m.to] = "answered" /\ now'[m.to] = m.RETVAL
  BY <1>1, <1>2 DEF TypeOK
<1>4. \A q \in Procs \ {m.to} : pc'[q] = pc[q] /\ now'[q] = now[q]
  BY <1>1 DEF TypeOK
<1>5. LiveCoherent'
  <2>1. ASSUME NEW q \in Procs \ {m.to}, Live(q)'
        PROVE  /\ Past(q)' \in Nat /\ Base(q)' \in 0 .. MAX_TICKS - 1 /\ (t'[q] # -1 => t'[q] = Base(q)')
               /\ (pc'[q] = "answered" => Recent(now[q], q)')
    BY <1>1, <1>4, <2>1, Alone
  <2>2. ASSUME Live(m.to)'
        PROVE  /\ Past(m.to)' \in Nat /\ Base(m.to)' \in 0 .. MAX_TICKS - 1
               /\ (t'[m.to] # -1 => t'[m.to] = Base(m.to)') /\ Recent(now[m.to], m.to)'
    <3>1. Past(m.to)' = Past(m.to) /\ Base(m.to)' = Base(m.to)
      BY <1>1 DEF Past, Base, TicksOf
    <3>2. Live(m.to)
      BY <1>1, <1>2, <2>2 DEF Live
    <3>3. due[m.to] > 0
      BY <3>2 DEF Live
    <3>4. Recent(now[m.to], m.to)'
      BY <1>1, <1>2, <1>3, <3>1, <3>3 DEF Recent
    <3>5. Past(m.to) \in Nat /\ Base(m.to) \in 0 .. MAX_TICKS - 1 /\ (t[m.to] # -1 => t[m.to] = Base(m.to))
      BY <1>2, <3>2 DEF LiveCoherent
    <3> QED
      BY <1>1, <3>1, <3>4, <3>5
  <2> QED
    BY <1>2, <2>1, <2>2 DEF LiveCoherent
<1>6. SysCoherent'
  BY <1>1 DEF SysCoherent
<1>7. DelayLongEnough'
  BY <1>1, <1>3, <1>4 DEF DelayLongEnough
<1> QED
  BY <1>5, <1>6, <1>7

\* A step of p in which the system task has no answer for p.
LEMMA SysAlone ==
  ASSUME IInv, NEW p \in Procs, pc[p] # "asked", sys' = sys, ticks' = ticks,
         \A q \in Procs \ {p} : /\ pc'[q] = pc[q] /\ t'[q] = t[q] /\ want'[q] = want[q] /\ due'[q] = due[q]
                                /\ wrapped'[q] = wrapped[q] /\ now'[q] = now[q]
  PROVE  SysCoherent'
<1> SUFFICES ASSUME NEW m \in sys
             PROVE  pc'[m.to] = "asked" /\ (due'[m.to] > 0 => Recent(m.RETVAL, m.to)')
  BY DEF SysCoherent
<1>1. m.to \in Procs \ {p} /\ pc[m.to] = "asked" /\ (due[m.to] > 0 => Recent(m.RETVAL, m.to))
  BY DEF IInv, SysCoherent, TypeOK
<1>2. Recent(m.RETVAL, m.to) => Recent(m.RETVAL, m.to)'
  BY <1>1, Alone
<1> QED
  BY <1>1, <1>2

LEMMA BeginStep ==
  ASSUME IInv, NEW p \in Procs, NEW m \in Wants, Begin(p, m)
  PROVE  DelayLongEnough' /\ LiveCoherent' /\ SysCoherent'
<1>1. pc[p] # "asked" /\ pc'[p] = "asking" /\ t'[p] = -1 /\ UNCHANGED <<ticks, now, sys, due, wrapped>>
  BY DEF Begin, IInv, TypeOK
<1>2. \A q \in Procs \ {p} : pc'[q] = pc[q] /\ t'[q] = t[q] /\ want'[q] = want[q]
  BY DEF Begin, IInv, TypeOK
<1>3. ASSUME NEW q \in Procs \ {p}, Live(q)'
      PROVE  /\ Past(q)' \in Nat /\ Base(q)' \in 0 .. MAX_TICKS - 1 /\ (t'[q] # -1 => t'[q] = Base(q)')
             /\ (pc'[q] = "answered" => Recent(now[q], q)')
  BY <1>1, <1>2, <1>3, Alone
<1>4. ~Live(p)'
  BY <1>1 DEF Live
<1>5. SysCoherent'
  BY <1>1, <1>2, SysAlone
<1>6. DelayLongEnough'
  BY <1>1, <1>2 DEF IInv, DelayLongEnough
<1> QED
  BY <1>3, <1>4, <1>5, <1>6 DEF LiveCoherent

LEMMA FirstStep ==
  ASSUME IInv, NEW p \in Procs, First(p)
  PROVE  DelayLongEnough' /\ LiveCoherent' /\ SysCoherent'
<1>1. /\ pc[p] = "answered" /\ pc'[p] = "asking" /\ t[p] = -1 /\ t'[p] = now[p]
      /\ UNCHANGED <<ticks, want, now, sys, due, wrapped>>
  BY DEF First, IInv, TypeOK
<1>2. \A q \in Procs \ {p} : pc'[q] = pc[q] /\ t'[q] = t[q]
  BY DEF First, IInv, TypeOK
<1>3. ASSUME NEW q \in Procs \ {p}, Live(q)'
      PROVE  /\ Past(q)' \in Nat /\ Base(q)' \in 0 .. MAX_TICKS - 1 /\ (t'[q] # -1 => t'[q] = Base(q)')
             /\ (pc'[q] = "answered" => Recent(now[q], q)')
  BY <1>1, <1>2, <1>3, Alone
<1>4. ASSUME Live(p)'
      PROVE  Past(p)' \in Nat /\ Base(p)' \in 0 .. MAX_TICKS - 1 /\ t'[p] = Base(p)'
  <2>1. Live(p)
    BY <1>1, <1>4 DEF Live
  <2>2. Past(p) \in Nat /\ Base(p) \in 0 .. MAX_TICKS - 1 /\ Recent(now[p], p)
    BY <1>1, <2>1 DEF IInv, LiveCoherent
  <2>3. Past(p)' = Past(p) /\ Base(p)' = Base(p)
    BY <1>1 DEF Past, Base, TicksOf
  <2> QED
    BY <1>1, <2>2, <2>3 DEF Recent
<1>5. SysCoherent'
  BY <1>1, <1>2, SysAlone
<1>6. DelayLongEnough'
  BY <1>1, <1>2 DEF IInv, DelayLongEnough
<1> QED
  BY <1>1, <1>3, <1>4, <1>5, <1>6 DEF LiveCoherent

LEMMA CompareStep ==
  ASSUME Units, IInv, NEW p \in Procs, Compare(p)
  PROVE  DelayLongEnough' /\ LiveCoherent' /\ SysCoherent'
<1>1. pc[p] = "answered" /\ t[p] # -1 /\ UNCHANGED <<ticks, want, t, now, sys, due, wrapped>>
  BY DEF Compare
<1>2. \A q \in Procs \ {p} : pc'[q] = pc[q]
  BY DEF Compare, IInv, TypeOK
<1>3. CASE Elapsed(now[p], t[p]) >= want[p] /\ pc'[p] = "over"
  <2>1. due[p] <= IF wrapped[p] THEN Gain ELSE 0
    <3>1. PICK n \in Nat, d \in Nat : n = TicksOf(want[p]) /\ d = due[p]
      BY WaitType DEF IInv
    <3>2. PICK g \in Nat : g = Gain
      BY SMT DEF Gain, Units
    <3>3. CASE d = 0
      BY <3>1, <3>2, <3>3, SMT
    <3>4. CASE d > 0
      <4>1. Live(p)
        BY <1>1, <3>1, <3>4 DEF Live
      <4>2. Past(p) = n - d /\ n - d \in Nat
        BY <3>1, <4>1 DEF IInv, LiveCoherent, Past
      <4>3. Base(p) \in 0 .. MAX_TICKS - 1 /\ t[p] = Base(p) /\ Recent(now[p], p)
        BY <1>1, <4>1 DEF IInv, LiveCoherent
      <4>4. PICK a \in Int : a = t[p]
        BY DEF IInv, TypeOK
      <4>5. PICK k \in Nat : k <= n - d /\ (now[p] = a + k \/ (wrapped[p] /\ now[p] = a + k - MAX_TICKS))
        BY <1>1, <4>2, <4>3, <4>4 DEF Recent
      <4>6. k < n
        BY <3>4, <4>2, <4>5, SMT
      <4>7. PICK m \in Wants \cup {0} : m = want[p]
        BY DEF IInv, TypeOK
      <4>8. Elapsed(a + k, a) < m /\ (Elapsed(a + k - MAX_TICKS, a) >= m => n - k <= g)
        BY <3>1, <3>2, <4>6, <4>7, Early
      <4>9. now[p] # a + k
        <5>1. SUFFICES ASSUME now[p] = a + k
                       PROVE  FALSE
          OBVIOUS
        <5>2. Elapsed(a + k, a) >= m
          BY <1>3, <4>4, <4>7, <5>1
        <5>3. Elapsed(a + k, a) \in Int /\ m \in Int
          <6>1. m \in Int
            BY <4>7, WantsFit
          <6> QED
            BY <4>8, <6>1, SMT DEF Elapsed, Quot, Word, Units
        <5> QED
          BY <4>8, <5>2, <5>3, SMT
      <4>10. wrapped[p] /\ n - k <= g
        BY <1>3, <4>4, <4>5, <4>7, <4>8, <4>9
      <4> QED
        BY <3>1, <3>2, <4>2, <4>5, <4>10, SMT
    <3> QED
      BY <3>1, <3>3, <3>4, SMT
  <2>2. DelayLongEnough'
    BY <1>1, <1>2, <2>1 DEF IInv, DelayLongEnough, Gain
  <2>3. LiveCoherent'
    <3>1. ASSUME NEW q \in Procs \ {p}, Live(q)'
          PROVE  /\ Past(q)' \in Nat /\ Base(q)' \in 0 .. MAX_TICKS - 1 /\ (t'[q] # -1 => t'[q] = Base(q)')
                 /\ (pc'[q] = "answered" => Recent(now[q], q)')
      BY <1>1, <1>2, <3>1, Alone
    <3>2. ~Live(p)'
      BY <1>3 DEF Live
    <3> QED
      BY <3>1, <3>2 DEF LiveCoherent
  <2>4. SysCoherent'
    BY <1>1, <1>2, SysAlone
  <2> QED
    BY <2>2, <2>3, <2>4
<1>4. CASE pc'[p] \in {"asking", "idle"}
  <2>1. DelayLongEnough'
    BY <1>1, <1>2, <1>4 DEF IInv, DelayLongEnough, Gain
  <2>2. LiveCoherent'
    <3>1. ASSUME NEW q \in Procs \ {p}, Live(q)'
          PROVE  /\ Past(q)' \in Nat /\ Base(q)' \in 0 .. MAX_TICKS - 1 /\ (t'[q] # -1 => t'[q] = Base(q)')
                 /\ (pc'[q] = "answered" => Recent(now[q], q)')
      BY <1>1, <1>2, <3>1, Alone
    <3>2. ASSUME Live(p)'
          PROVE  Past(p)' \in Nat /\ Base(p)' \in 0 .. MAX_TICKS - 1 /\ t'[p] = Base(p)' /\ pc'[p] # "answered"
      <4>1. Live(p) /\ Past(p)' = Past(p) /\ Base(p)' = Base(p)
        BY <1>1, <3>2 DEF Live, Past, Base, TicksOf
      <4> QED
        BY <1>1, <1>4, <4>1 DEF IInv, LiveCoherent
    <3> QED
      BY <3>1, <3>2 DEF LiveCoherent
  <2>3. SysCoherent'
    BY <1>1, <1>2, SysAlone
  <2> QED
    BY <2>1, <2>2, <2>3
<1> QED
  BY <1>3, <1>4 DEF Compare, IInv, TypeOK

----------------------------------------------------------------------------
(* The theorem *)

\* Whoever leaves milli_delay, or gives up in waitfor, has waited as long as he wanted,
\* but for what the loop gains at the end of the counter: with the units of the kernel,
\* for any processes, waits and answers however late.
THEOREM DelayCorrect == ASSUME Units PROVE Spec => []DelayLongEnough
<1>1. Init => IInv
  <2> SUFFICES ASSUME Init
               PROVE  IInv
    OBVIOUS
  <2>1. TypeOK
    BY ClockAssumption DEF Init, TypeOK
  <2> QED
    BY <2>1 DEF Init, IInv, DelayLongEnough, LiveCoherent, SysCoherent, Live
<1>2. IInv /\ [Next]_vars => IInv'
  <2> SUFFICES ASSUME IInv, [Next]_vars
               PROVE  IInv'
    OBVIOUS
  <2>1. TypeOK'
    BY TypeStep DEF IInv
  <2>2. CASE Next
    <3>1. DelayLongEnough' /\ LiveCoherent' /\ SysCoherent'
      BY <2>2, TickStep, SendStep, ReadStep, FirstStep, CompareStep, BeginStep DEF Next
    <3> QED
      BY <2>1, <3>1 DEF IInv
  <2>3. CASE UNCHANGED vars
    <3>1. SysCoherent'
      BY <2>3 DEF vars, IInv, SysCoherent, Recent, Base, Past, TicksOf
    <3>2. LiveCoherent'
      <4>1. ASSUME NEW p \in Procs, Live(p)'
            PROVE  /\ Past(p)' \in Nat /\ Base(p)' \in 0 .. MAX_TICKS - 1 /\ (t'[p] # -1 => t'[p] = Base(p)')
                   /\ (pc'[p] = "answered" => Recent(now[p], p)')
        BY <2>3, <4>1, Alone DEF vars
      <4> QED
        BY <4>1 DEF LiveCoherent
    <3>3. DelayLongEnough'
      BY <2>3 DEF vars, IInv, DelayLongEnough
    <3> QED
      BY <2>1, <3>1, <3>2, <3>3 DEF IInv
  <2> QED
    BY <2>2, <2>3
<1>3. IInv => DelayLongEnough
  BY DEF IInv
<1> QED
  BY <1>1, <1>2, <1>3, PTL DEF Spec

----------------------------------------------------------------------------
(* The scheduler: any number of processes, any priorities, any set of spinning *)
(* processes                                                                    *)

\* At boot every slice is full and process 0 runs (main.c:83, 98).
LEMMA SchedInitInv == SchedInit => SchedInv
<1> SUFFICES ASSUME SchedInit PROVE SchedInv
  OBVIOUS
<1> USE SchedAssumption DEF SchedInit, Proc
<1>1. SchedTypeOK
  <2>1. masked \in BOOLEAN
    OBVIOUS
  <2>2. p_ticks \in [Proc -> Nat] /\ \A p \in Proc : p_ticks[p] <= Prio[p]
    OBVIOUS
  <2>3. current \in Proc /\ i \in 0 .. N /\ greatest \in Nat /\ mode \in Mode
    BY DEF Mode
  <2> QED
    BY <2>1, <2>2, <2>3 DEF SchedTypeOK
<1>2. RunsRunnable /\ ScanCoherent /\ RefillCoherent /\ MaskCoherent
  BY DEF RunsRunnable, ScanCoherent, RefillCoherent, MaskCoherent
<1> QED
  BY <1>1, <1>2 DEF SchedInv

\* Every step keeps the types: a slice is charged only while there is something
\* left of it, and refilled to the priority.
LEMMA SchedTypeStep ==
  ASSUME SchedInv, [SchedNext]_sched
  PROVE  SchedTypeOK'
<1>1. masked' \in BOOLEAN
  <2>1. ASSUME SysCall \/ CallReturns \/ CallBlocks \/ Return \/ Interrupt \/ DiskInterrupt
        PROVE  masked' = masked
    BY <2>1 DEF SysCall, CallReturns, CallBlocks, Return, Interrupt, DiskInterrupt, loop
  <2>2. ASSUME ClockTick
        PROVE  masked' = masked \/ masked' = TRUE
    BY <2>2 DEF ClockTick, TickUser, TickNested, loop
  <2>3. ASSUME Schedule
        PROVE  masked' = masked \/ masked' = FALSE
    BY <2>3 DEF Schedule, Scan, Take, Found, NoneFound, Refill
  <2>4. ASSUME UNCHANGED sched
        PROVE  masked' = masked
    BY <2>4 DEF sched
  <2> QED
    BY <2>1, <2>2, <2>3, <2>4, Zenon DEF SchedInv, SchedTypeOK, SchedNext
<1>2. p_ticks' \in [Proc -> Nat] /\ \A p \in Proc : p_ticks'[p] <= Prio[p]
  <2> USE SchedAssumption DEF SchedInv, SchedTypeOK, Proc
  <2>1. ASSUME ClockTick
        PROVE  p_ticks' \in [Proc -> Nat] /\ \A p \in Proc : p_ticks'[p] <= Prio[p]
    <3>1. p_ticks[current] \in Nat \ {0} /\ p_ticks' = [p_ticks EXCEPT ![current] = @ - 1]
      BY <2>1 DEF ClockTick, TickUser, TickNested
    <3> QED
      BY <3>1
  <2>2. ASSUME Refill
        PROVE  p_ticks' \in [Proc -> Nat] /\ \A p \in Proc : p_ticks'[p] <= Prio[p]
    <3>1. CASE p_ticks' = p_ticks
      BY <3>1
    <3>2. CASE i \in Proc /\ p_ticks' = [p_ticks EXCEPT ![i] = Prio[i]]
      BY <3>2
    <3> QED
      BY <2>2, <3>1, <3>2 DEF Refill
  <2>3. ASSUME UNCHANGED p_ticks
        PROVE  p_ticks' \in [Proc -> Nat] /\ \A p \in Proc : p_ticks'[p] <= Prio[p]
    BY <2>3
  <2> QED
    BY <2>1, <2>2, <2>3 DEF SchedNext, Schedule, SysCall, CallReturns, CallBlocks, Return,
       Interrupt, DiskInterrupt, Scan, Take, Found, NoneFound, sched
<1>3. blocked' \subseteq Proc
  BY SchedAssumption DEF SchedInv, SchedTypeOK, SchedNext, SysCall, CallReturns, CallBlocks, Return,
     Interrupt, DiskInterrupt, ClockTick, TickUser, TickNested, Schedule, Scan, Take, Found,
     NoneFound, Refill, loop, sched
<1>4. current' \in Proc /\ i' \in 0 .. N /\ greatest' \in Nat
  <2> USE SchedAssumption DEF SchedInv, SchedTypeOK, Proc
  <2>1. ASSUME SysCall \/ CallReturns \/ CallBlocks \/ Return \/ Interrupt
               \/ DiskInterrupt \/ ClockTick \/ UNCHANGED sched
        PROVE  current' = current /\ (i' = i \/ i' = 0) /\ (greatest' = greatest \/ greatest' = 0)
    BY <2>1 DEF SysCall, CallReturns, CallBlocks, Return, Interrupt, DiskInterrupt,
       ClockTick, TickUser, TickNested, loop, sched
  <2>2. ASSUME Scan \/ Found \/ NoneFound
        PROVE  current' = current /\ i' \in 0 .. N /\ (greatest' = greatest \/ greatest' = 0)
    BY <2>2 DEF Scan, Found, NoneFound
  <2>3. ASSUME Refill
        PROVE  current' = current /\ i' \in 0 .. N /\ greatest' = greatest
    BY <2>3 DEF Refill
  <2>4. ASSUME Take
        PROVE  current' \in Proc /\ i' \in 0 .. N /\ greatest' \in Nat
    BY <2>4 DEF Take, ScanCoherent
  <2> QED
    BY <2>1, <2>2, <2>3, <2>4 DEF SchedNext, Schedule
<1>5. mode' \in Mode
  BY DEF SchedInv, SchedTypeOK, SchedNext, SysCall, CallReturns, CallBlocks, Return, Interrupt,
     DiskInterrupt, ClockTick, TickUser, TickNested, Schedule, Scan, Take, Found, NoneFound,
     Refill, loop, sched, Mode
<1> QED
  BY <1>1, <1>2, <1>3, <1>4, <1>5 DEF SchedTypeOK

\* A process that blocks leaves the processor in schedule(), which ends only with
\* a process that was runnable when it was found and cannot block before it runs.
LEMMA RunsStep ==
  ASSUME SchedInv, [SchedNext]_sched
  PROVE  RunsRunnable'
<1> USE SchedAssumption DEF SchedInv, SchedTypeOK, Proc, RunsRunnable
<1>1. ASSUME SysCall \/ CallReturns \/ CallBlocks \/ Return \/ Interrupt \/ DiskInterrupt
      PROVE  RunsRunnable'
  BY <1>1 DEF SysCall, CallReturns, CallBlocks, Return, Interrupt, DiskInterrupt
<1>2. ASSUME ClockTick \/ Scan \/ Take \/ NoneFound \/ Refill
      PROVE  RunsRunnable'
  BY <1>2 DEF ClockTick, TickUser, TickNested, Scan, Take, NoneFound, Refill
<1>3. ASSUME Found
      PROVE  RunsRunnable'
  BY <1>3 DEF Found, ScanCoherent
<1>4. CASE UNCHANGED sched
  BY <1>4 DEF sched
<1> QED
  BY <1>1, <1>2, <1>3, <1>4 DEF SchedNext, Schedule

\* While schedule() is looking for the longest slice, greatest_ticks is not 0 only
\* when p_proc_ready is a process it has found, and as long as it is 0 what it has
\* passed is spent: a tick in between charges p_proc_ready, which is either the
\* process just found, before its slice is read again, or none of those
\* that made greatest_ticks what it is.
LEMMA ScanStep ==
  ASSUME SchedInv, [SchedNext]_sched
  PROVE  ScanCoherent'
<1> USE SchedAssumption DEF SchedInv, SchedTypeOK, Proc, ScanCoherent, SpentBelow
<1>1. ASSUME SysCall \/ CallReturns \/ CallBlocks \/ Return \/ Interrupt
      PROVE  ScanCoherent'
  BY <1>1 DEF SysCall, CallReturns, CallBlocks, Return, Interrupt, loop
<1>2. ASSUME DiskInterrupt
      PROVE  ScanCoherent'
  BY <1>2 DEF DiskInterrupt, loop
<1>3. ASSUME ClockTick
      PROVE  ScanCoherent'
  <2>1. CASE TickUser
    BY <2>1 DEF TickUser
  <2>2. CASE TickNested
    <3>1. /\ UNCHANGED <<blocked, current, mode, masked, i, greatest>>
          /\ p_ticks'[current] = p_ticks[current] - 1
          /\ \A p \in Proc : p # current => p_ticks'[p] = p_ticks[p]
          /\ p_ticks[current] \in Nat /\ p_ticks[current] > 0
      BY <2>2 DEF TickNested, loop
    <3> QED
      BY <3>1
  <2> QED
    BY <1>3, <2>1, <2>2 DEF ClockTick
<1>4. ASSUME Scan
      PROVE  ScanCoherent'
  BY <1>4 DEF Scan, Better
<1>5. ASSUME Take
      PROVE  ScanCoherent'
  BY <1>5 DEF Take
<1>6. ASSUME Found \/ NoneFound \/ Refill
      PROVE  ScanCoherent'
  BY <1>6 DEF Found, NoneFound, Refill, RefillCoherent
<1>7. CASE UNCHANGED sched
  BY <1>7 DEF sched
<1> QED
  BY <1>1, <1>2, <1>3, <1>4, <1>5, <1>6, <1>7 DEF SchedNext, ClockTick, Schedule

\* While schedule() refills, what it has not yet reached is spent, but for the
\* disk task, and the clock's line is masked only in schedule().
LEMMA RefillStep ==
  ASSUME SchedInv, [SchedNext]_sched
  PROVE  RefillCoherent' /\ MaskCoherent'
<1> USE SchedAssumption DEF SchedInv, SchedTypeOK, Proc, RefillCoherent, MaskCoherent
<1>1. ASSUME SysCall \/ CallReturns \/ CallBlocks \/ Return \/ Interrupt \/ DiskInterrupt
      PROVE  RefillCoherent' /\ MaskCoherent'
  <2>1. CASE SysCall \/ CallReturns \/ CallBlocks \/ Return \/ Interrupt
    BY <2>1 DEF SysCall, CallReturns, CallBlocks, Return, Interrupt, loop
  <2>2. CASE DiskInterrupt
    BY <2>2 DEF DiskInterrupt, loop
  <2> QED
    BY <1>1, <2>1, <2>2
<1>2. ASSUME ClockTick
      PROVE  RefillCoherent' /\ MaskCoherent'
  BY <1>2 DEF ClockTick, TickUser, TickNested, loop
<1>3. ASSUME Scan \/ Take \/ Found
      PROVE  RefillCoherent' /\ MaskCoherent'
  BY <1>3 DEF Scan, Take, Found
<1>4. ASSUME NoneFound
      PROVE  RefillCoherent' /\ MaskCoherent'
  BY <1>4 DEF NoneFound, ScanCoherent, SpentBelow
<1>5. ASSUME Refill
      PROVE  RefillCoherent' /\ MaskCoherent'
  BY <1>5 DEF Refill
<1>6. CASE UNCHANGED sched
  BY <1>6 DEF sched
<1> QED
  BY <1>1, <1>2, <1>3, <1>4, <1>5, <1>6 DEF SchedNext, Schedule

\* The inductive invariant of the scheduler holds in every reachable state.
THEOREM SchedInvariance == SchedSpec => []SchedInv
<1>1. SchedInv /\ [SchedNext]_sched => SchedInv'
  BY SchedTypeStep, RunsStep, ScanStep, RefillStep DEF SchedInv
<1> QED
  BY SchedInitInv, <1>1, PTL DEF SchedSpec

\* Type correctness: every slice stays between 0 and the priority.
THEOREM SchedTypeCorrect == SchedSpec => []SchedTypeOK
<1>1. SchedInv => SchedTypeOK
  BY DEF SchedInv
<1> QED
  BY SchedInvariance, <1>1, PTL

\* What the processor runs is never blocked.
THEOREM RunsCorrect == SchedSpec => []RunsRunnable
<1>1. SchedInv => RunsRunnable
  BY DEF SchedInv
<1> QED
  BY SchedInvariance, <1>1, PTL

\* Only the disk task may be given a new slice before the old one is used up.
THEOREM RefillCorrect == SchedSpec => RefillWhenSpent
<1>1. ASSUME SchedInv, [SchedNext]_sched, NEW p \in Proc \ {HD}, p_ticks'[p] > p_ticks[p]
      PROVE  p_ticks[p] = 0
  <2> USE SchedAssumption, <1>1 DEF SchedInv, SchedTypeOK, Proc
  <2>1. p_ticks[p] \in Nat
    OBVIOUS
  <2>2. CASE ClockTick
    <3>1. p_ticks[current] \in Nat /\ p_ticks' = [p_ticks EXCEPT ![current] = @ - 1]
      BY <2>2 DEF ClockTick, TickUser, TickNested
    <3> QED
      BY <3>1, <2>1
  <2>3. CASE Refill
    BY <2>3 DEF Refill, RefillCoherent
  <2>4. CASE UNCHANGED p_ticks
    BY <2>4, <2>1
  <2> QED
    BY <2>2, <2>3, <2>4 DEF SchedNext, Schedule, SysCall, CallReturns, CallBlocks, Return,
       Interrupt, DiskInterrupt, Scan, Take, Found, NoneFound, sched
<1>2. SchedInv /\ [SchedNext]_sched =>
        [\A p \in Proc \ {HD} : p_ticks'[p] > p_ticks[p] => p_ticks[p] = 0]_sched
  BY <1>1
<1> QED
  BY SchedInvariance, <1>2, PTL DEF SchedSpec, RefillWhenSpent
=============================================================================
