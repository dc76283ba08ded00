---------------------------- MODULE ConsoleProofs ----------------------------
(***************************************************************************)
(* Proofs about module Console, for any number and size of the consoles     *)
(* that the 32 bits of their addresses have room for, and any of them       *)
(* printed on: task_tty and sys_printx, cut at every access to a CONSOLE,   *)
(* implement Screen; cursor and window of every console that is not spoilt  *)
(* stay in its memory, the display shows the current one, and the loop of   *)
(* out_char ends with the cursor in the window.  A console that is spoilt   *)
(* misses its memory by a few cells at most, and the loop of sys_printx     *)
(* ends nevertheless.  The lemmas go from what the operators of Screen make *)
(* of a console record, by the actions of task_tty, on a console that is    *)
(* not spoilt and on one that is, and of sys_printx, to the consequences of *)
(* the invariant; last is where the cursor of a spoilt console can be.      *)
(***************************************************************************)
EXTENDS Console, WellFoundedInduction, TLAPS

Con == [cursor : Nat, start : Nat]

\* Console record q is as it should be for console d: also, the window has been
\* moved by whole lines.
Good(d, q) ==
  /\ q \in Con
  /\ S!Orig(d) <= q.cursor /\ q.cursor < S!End(d)
  /\ S!Orig(d) <= q.start /\ q.start + SCREEN < S!End(d) + WIDTH
  /\ \E j \in Nat : q.start = S!Orig(d) + WIDTH * j

OutPc == {"enter", "full", "top", "top_start", "clear", "top_again", "switch", "line",
          "line_set", "line_top", "line_start", "back", "back_set", "char", "char_set"}
LoopPc == {"loop", "loop_test"}
ScrollPc == {"down", "down_by", "up", "up_by", "moved"}
ShowPc == {"flush_cursor", "flush_load", "flush_start"}
FlushPc == {"flush"} \cup ShowPc
BusyPc == OutPc \cup LoopPc \cup ScrollPc \cup FlushPc
TaskType == [pc : {"idle"} \cup BusyPc, c : S!Consoles, ch : S!Char, at : Nat, r : Nat,
             back : {"idle", "done", "loop"}, old : Con]

\* What becomes of record o when it is full.
Room(d, o) == IF S!Full(d, o.cursor) THEN S!Top(d) ELSE o

\* The character of task t is in: when the window has followed, record q will be what
\* S!OutChar makes of the old one.
Written(t, q) == Good(t.c, q) /\ S!Follow(t.c, q) = S!OutChar(t.c, t.old, t.ch)

\* What flush() has to show.
Shows(t, q) ==
  IF t.back = "loop" THEN Written(t, q)
  ELSE IF t.back = "done" THEN q = S!OutChar(t.c, t.old, t.ch)
  ELSE q = t.old \/ q = S!ScrollUp(t.c, t.old) \/ q = S!ScrollDown(t.c, t.old)

\* Task t has got with record q of its console, x being displayed, as far as t.pc says:
\* in out_char up to the loop,
OutOK(t, q) ==
  /\ t.pc \in OutPc => t.back = "done"
  /\ t.pc \in {"enter", "full", "top"} => q = t.old
  /\ t.pc \in {"top", "top_start", "clear", "top_again"} => S!Full(t.c, t.old.cursor)
  /\ t.pc = "top_start" => q = [t.old EXCEPT !.cursor = S!Orig(t.c)]
  /\ t.pc \in {"clear", "top_again"} => q = S!Top(t.c)
  /\ t.pc \in {"switch", "line", "line_set", "line_top", "back", "back_set", "char", "char_set"}
       => q = Room(t.c, t.old)
  /\ t.pc \in {"full", "switch", "back", "back_set", "char", "char_set"} => t.at = q.cursor
  /\ t.pc \in {"line", "line_set"} => t.ch = "newline" /\ q.cursor < S!End(t.c) - WIDTH
  /\ t.pc = "line_set" => t.r = S!NextLine(t.c, q.cursor)
  /\ t.pc \in {"line_top", "line_start"} =>
       t.ch = "newline" /\ ~(Room(t.c, t.old).cursor < S!End(t.c) - WIDTH)
  /\ t.pc = "line_start" => q = [Room(t.c, t.old) EXCEPT !.cursor = S!Orig(t.c)]
  /\ t.pc \in {"back", "back_set"} => t.ch = "backspace" /\ q.cursor > S!Orig(t.c)
  /\ t.pc = "back_set" => t.r = (q.cursor - 1) % MOD
  /\ t.pc \in {"char", "char_set"} => t.ch = "char" /\ ~S!Full(t.c, q.cursor)
  /\ t.pc = "char_set" => t.r = (q.cursor + 1) % MOD

\* in the loop and in scroll_screen,
ScrollOK(t, q) ==
  /\ t.pc \in LoopPc => Written(t, q) /\ t.back # "idle"
  /\ t.pc = "loop_test" => t.r = q.cursor
  /\ t.pc \in {"down", "down_by"} =>
       IF t.back = "loop" THEN Written(t, q) /\ ~(q.cursor < S!WindowEnd(q.start))
       ELSE t.back = "idle" /\ q = t.old
  /\ t.pc = "down_by" => S!CanScroll(t.c, q.start)
  /\ t.pc \in {"up", "up_by"} => t.back = "idle" /\ q = t.old
  /\ t.pc = "up_by" => q.start > S!Orig(t.c)
  /\ t.pc = "moved" => Shows(t, [q EXCEPT !.start = t.r])

\* and in flush, where n is the current console.
FlushOK(t, q, x, n) ==
  /\ t.pc \in FlushPc => Shows(t, q)
  /\ t.back = "idle" \/ t.pc \in ShowPc => t.c = n
  /\ t.pc = "flush_cursor" => t.r = q.cursor
  /\ t.pc \in {"flush_load", "flush_start"} => x.cursor = q.cursor
  /\ t.pc = "flush_start" => t.r = q.start

TaskOK(t, q, x, n) ==
  /\ Good(t.c, t.old)
  /\ OutOK(t, q) /\ ScrollOK(t, q) /\ FlushOK(t, q, x, n)

\* The invariant: what is not spoilt is good unless task_tty works on it, and then it
\* is as far as it has got; what is displayed is the current console unless task_tty is
\* at it.
IInv ==
  /\ con \in [S!Consoles -> Con] /\ current \in S!Consoles /\ crtc \in Con
  /\ spoilt \subseteq S!Consoles /\ task \in TaskType
  /\ \A d \in S!Consoles \ spoilt : Busy(d) \/ Good(d, con[d])
  /\ Busy(current) \/ current \in spoilt \/ crtc = con[current]
  /\ task.pc \in ShowPc => task.c = current
  /\ task.pc # "idle" /\ task.c \notin spoilt => TaskOK(task, con[task.c], crtc, current)

----------------------------------------------------------------------------
(* Arithmetic *)

LEMMA Products ==
  ASSUME NEW w \in Nat, NEW a \in Nat, NEW b \in Nat
  PROVE  /\ w * a \in Nat /\ w * (a + 1) = w * a + w /\ w * (a + b) = w * a + w * b
         /\ a <= b => w * a <= w * b
         /\ w >= 1 => a <= w * a
<1>1. w * a \in Nat /\ w * (a + 1) = w * a + w /\ w * (a + b) = w * a + w * b
  OBVIOUS
<1>2. a <= b => w * a <= w * b
  OBVIOUS
<1>3. w >= 1 => a <= w * a
  OBVIOUS
<1> QED
  BY <1>1, <1>2, <1>3

LEMMA Division ==
  ASSUME NEW w \in Nat, w >= 1, NEW u \in Nat
  PROVE  u \div w \in Nat /\ w * (u \div w) <= u /\ u < w * (u \div w) + w
OBVIOUS

LEMMA Sizes ==
  ASSUME S!ScreenAssumption, NEW d \in S!Consoles
  PROVE  /\ WIDTH \in Nat /\ SCREEN \in Nat /\ LIMIT \in Nat /\ MOD \in Nat
         /\ 1 <= WIDTH /\ WIDTH <= SCREEN /\ SCREEN < LIMIT /\ WIDTH + 1 < LIMIT
         /\ d \in Nat /\ S!Orig(d) \in Nat /\ S!End(d) = S!Orig(d) + LIMIT /\ S!Orig(0) = 0
         /\ S!End(d) + SCREEN + WIDTH < MOD
<1>1. d \in Nat /\ NR \in Nat /\ LIMIT \in Nat /\ d + 1 <= NR
  BY DEF S!Consoles, S!ScreenAssumption
<1>2. LIMIT * (d + 1) <= LIMIT * NR /\ LIMIT * (d + 1) = LIMIT * d + LIMIT /\ LIMIT * d \in Nat
  BY <1>1, Products
<1>3. d * LIMIT = LIMIT * d /\ NR * LIMIT = LIMIT * NR /\ 0 * LIMIT = 0
  BY <1>1
<1> QED
  BY <1>1, <1>2, <1>3 DEF S!Orig, S!End, S!ScreenAssumption

LEMMA Memory ==
  ASSUME S!ScreenAssumption, NEW d \in S!Consoles
  PROVE  NR * LIMIT \in Nat /\ S!End(d) <= NR * LIMIT
<1>1. d \in Nat /\ NR \in Nat /\ LIMIT \in Nat /\ d + 1 <= NR
  BY DEF S!Consoles, S!ScreenAssumption
<1>2. LIMIT * (d + 1) <= LIMIT * NR /\ LIMIT * (d + 1) = LIMIT * d + LIMIT /\ LIMIT * d \in Nat
  BY <1>1, Products
<1>3. d * LIMIT = LIMIT * d /\ NR * LIMIT = LIMIT * NR /\ LIMIT * NR \in Nat
  BY <1>1, Products
<1> QED
  BY <1>1, <1>2, <1>3 DEF S!Orig, S!End

\* A set of numbers has a least one.
Below == {ss \in Nat \X Nat : ss[1] < ss[2]}

LEMMA MinFacts ==
  ASSUME NEW T, T \subseteq Nat, T # {}
  PROVE  S!Min(T) \in T /\ \A y \in T : S!Min(T) <= y
<1>1. IsWellFoundedOn(OpToRel(<, Nat), Nat)
  BY NatLessThanWellFounded
<1>2. OpToRel(<, Nat) = Below
  BY DEF OpToRel, Below
<1>3. IsWellFoundedOn(Below, Nat)
  BY <1>1, <1>2
<1>4. PICK x \in T : \A y \in T : ~(<<y, x>> \in Below)
  BY <1>3, WFMin
<1>5. ASSUME NEW y \in T PROVE x <= y
  <2>1. x \in Nat /\ y \in Nat
    OBVIOUS
  <2>2. ~(<<y, x>> \in Below)
    BY <1>4
  <2> QED
    BY <2>1, <2>2 DEF Below
<1> QED
  BY <1>5 DEF S!Min

----------------------------------------------------------------------------
(* The parts of out_char *)

LEMMA TopGood ==
  ASSUME S!ScreenAssumption, NEW d \in S!Consoles
  PROVE  Good(d, S!Top(d))
<1>1. PICK o \in Nat : o = S!Orig(d)
  BY Sizes
<1>2. S!Top(d) = [cursor |-> o, start |-> o]
  BY <1>1 DEF S!Top
<1>3. o = S!Orig(d) + WIDTH * 0
  BY <1>1, Sizes
<1> QED
  BY <1>1, <1>2, <1>3, Sizes DEF Good, Con

\* The cursor moves within the memory.
LEMMA CursorGood ==
  ASSUME S!ScreenAssumption, NEW d \in S!Consoles, NEW q, Good(d, q),
         NEW x \in Nat, S!Orig(d) <= x, x < S!End(d), NEW p, p = [q EXCEPT !.cursor = x]
  PROVE  Good(d, p) /\ p.cursor = x
<1>1. p \in Con /\ p.cursor = x /\ p.start = q.start
  BY DEF Good, Con
<1> QED
  BY <1>1 DEF Good

\* The window moves within the memory, by lines.
LEMMA StartGood ==
  ASSUME S!ScreenAssumption, NEW d \in S!Consoles, NEW q, Good(d, q),
         NEW j \in Nat, NEW x, x = S!Orig(d) + WIDTH * j, x + SCREEN < S!End(d) + WIDTH,
         NEW p, p = [q EXCEPT !.start = x]
  PROVE  Good(d, p) /\ p.cursor = q.cursor /\ p.start = x
<1>1. WIDTH * j \in Nat /\ S!Orig(d) \in Nat
  BY Sizes, Products
<1>2. x \in Nat /\ S!Orig(d) <= x
  BY <1>1
<1>3. p \in Con /\ p.cursor = q.cursor /\ p.start = x
  BY <1>2 DEF Good, Con
<1> QED
  BY <1>2, <1>3 DEF Good

LEMMA NewLineGood ==
  ASSUME S!ScreenAssumption, NEW d \in S!Consoles, NEW q, Good(d, q)
  PROVE  Good(d, S!NewLine(d, q))
<1>1. CASE q.cursor < S!End(d) - WIDTH
  <2>1. PICK u \in Nat : u = q.cursor - S!Orig(d)
    BY Sizes DEF Good, Con
  <2>2. u + WIDTH < LIMIT /\ u % MOD = u
    BY <1>1, <2>1, Sizes DEF Good, Con
  <2>3. PICK n \in Nat : n = u \div WIDTH /\ WIDTH * n <= u /\ u < WIDTH * n + WIDTH
    BY <2>1, Sizes, Division
  <2>4. PICK x \in Nat : x = S!Orig(d) + WIDTH * (n + 1)
    BY <2>3, Sizes, Products
  <2>5. x <= S!Orig(d) + u + WIDTH
    BY <2>3, <2>4, Sizes, Products
  <2>6. S!Orig(d) <= x /\ x < S!End(d) /\ x < MOD
    BY <2>2, <2>4, <2>5, Sizes, Products
  <2>7. S!NextLine(d, q.cursor) = x
    <3>1. S!NextLine(d, q.cursor) = x % MOD
      BY <2>1, <2>2, <2>3, <2>4 DEF S!NextLine
    <3> QED
      BY <2>6, <3>1, Sizes
  <2>8. S!NewLine(d, q) = [q EXCEPT !.cursor = x]
    BY <1>1, <2>7 DEF S!NewLine
  <2> QED
    BY <2>6, <2>8, CursorGood
<1>2. CASE ~(q.cursor < S!End(d) - WIDTH)
  BY <1>2, TopGood DEF S!NewLine
<1> QED
  BY <1>1, <1>2

LEMMA BackSpaceGood ==
  ASSUME S!ScreenAssumption, NEW d \in S!Consoles, NEW q, Good(d, q)
  PROVE  Good(d, S!BackSpace(d, q))
<1>1. CASE q.cursor > S!Orig(d)
  <2>1. PICK x \in Nat : x = q.cursor - 1 /\ S!Orig(d) <= x /\ x < S!End(d)
    BY <1>1, Sizes DEF Good, Con
  <2>2. S!BackSpace(d, q) = [q EXCEPT !.cursor = x]
    BY <1>1, <2>1 DEF S!BackSpace
  <2> QED
    BY <2>1, <2>2, CursorGood
<1>2. CASE ~(q.cursor > S!Orig(d))
  BY <1>2 DEF S!BackSpace
<1> QED
  BY <1>1, <1>2

LEMMA PutGood ==
  ASSUME S!ScreenAssumption, NEW d \in S!Consoles, NEW q, Good(d, q)
  PROVE  Good(d, S!Put(d, q))
<1>1. CASE ~S!Full(d, q.cursor)
  <2>1. PICK x \in Nat : x = q.cursor + 1 /\ S!Orig(d) <= x /\ x < S!End(d)
    BY <1>1, Sizes DEF Good, Con, S!Full
  <2>2. S!Put(d, q) = [q EXCEPT !.cursor = x]
    BY <1>1, <2>1 DEF S!Put
  <2> QED
    BY <2>1, <2>2, CursorGood
<1>2. CASE S!Full(d, q.cursor)
  BY <1>2 DEF S!Put
<1> QED
  BY <1>1, <1>2

\* Numbers modulo m.
LEMMA Remainder ==
  ASSUME NEW m \in Nat, NEW i \in Nat, NEW j \in Nat, NEW x \in Nat, NEW y \in Nat,
         x < m, y < m, m * i + x = m * j + y
  PROVE  x = y
<1>1. m * i \in Nat /\ m * j \in Nat /\ m * (i + 1) = m * i + m /\ m * (j + 1) = m * j + m
  BY Products
<1>2. (i < j => m * (i + 1) <= m * j) /\ (j < i => m * (j + 1) <= m * i)
  BY Products
<1>3. i = j
  BY <1>1, <1>2
<1> QED
  BY <1>1, <1>3

LEMMA Quotient ==
  ASSUME NEW m \in Nat, m >= 1, NEW x \in Nat
  PROVE  \E a \in Nat : x % m \in Nat /\ x % m < m /\ x = m * a + (x % m)
<1>1. x % m \in Nat /\ x % m < m /\ x \div m \in Nat /\ x = m * (x \div m) + (x % m)
  OBVIOUS
<1> QED
  BY <1>1

\* The sum of x and y modulo m is e, a multiple of m having been lost; Plus is that sum.
Adds(m, x, y, a, e) == x + y = m * a + e
Plus(m, x, y) == (x + y) % m

LEMMA PlusAdds ==
  ASSUME NEW m \in Nat, m >= 1, NEW x \in Nat, NEW y \in Nat
  PROVE  /\ Plus(m, x, y) \in Nat /\ Plus(m, x, y) < m
         /\ \E a \in Nat : Adds(m, x, y, a, Plus(m, x, y))
<1>1. PICK z \in Nat : z = x + y
  OBVIOUS
<1> QED
  BY <1>1, Quotient DEF Plus, Adds

LEMMA AddsTwice ==
  ASSUME NEW m \in Nat, NEW s \in Nat, NEW w \in Nat, NEW n \in Nat, NEW e \in Nat,
         NEW x \in Nat, NEW y \in Nat, NEW a \in Nat, NEW b \in Nat, NEW f \in Nat,
         Adds(m, s, w, a, e), Adds(m, s, n, b, x), Adds(m, x, w, f, y), y < m, e + n < m
  PROVE  y = e + n
<1>1. PICK g \in Nat : g = b + f
  OBVIOUS
<1>2. PICK h \in Nat : h = e + n
  OBVIOUS
<1>3. m * g = m * b + m * f /\ m * b \in Nat /\ m * f \in Nat /\ m * a \in Nat
  BY <1>1, Products
<1>4. m * g + y = m * a + h
  BY <1>2, <1>3 DEF Adds
<1> QED
  BY <1>2, <1>4, Remainder

\* The end of a window that has been moved on by n, when it does not wrap.
LEMMA MovedEnd ==
  ASSUME NEW m \in Nat, m >= 1, NEW s \in Nat, NEW w \in Nat, NEW n \in Nat,
         Plus(m, s, w) + n < m
  PROVE  Plus(m, Plus(m, s, n), w) = Plus(m, s, w) + n
<1>1. PICK e \in Nat : e = Plus(m, s, w) /\ \E a \in Nat : Adds(m, s, w, a, e)
  BY PlusAdds
<1>2. PICK x \in Nat : x = Plus(m, s, n) /\ \E b \in Nat : Adds(m, s, n, b, x)
  BY PlusAdds
<1>3. PICK y \in Nat : y = Plus(m, x, w) /\ y < m /\ \E f \in Nat : Adds(m, x, w, f, y)
  BY PlusAdds
<1> QED
  BY <1>1, <1>2, <1>3, AddsTwice

\* The window follows any cursor that is before the end of the memory: it is moved as
\* long as the cursor is not above its end, and that is soon enough.
LEMMA FollowEnds ==
  ASSUME S!ScreenAssumption, NEW d \in S!Consoles, NEW q \in Con, q.cursor < S!End(d),
         NEW e, e = S!WindowEnd(q.start)
  PROVE  /\ e \in Nat /\ e < MOD
         /\ \E l \in Nat : /\ q.cursor < e + WIDTH * l
                           /\ l # 0 => e + WIDTH * l <= q.cursor + WIDTH
                           /\ S!Follow(d, q) = [q EXCEPT !.start = (q.start + WIDTH * l) % MOD]
                           /\ S!WindowEnd((q.start + WIDTH * l) % MOD) = e + WIDTH * l
<1> DEFINE at(n) == (q.start + WIDTH * n) % MOD
           Enough == {n \in Nat : q.cursor < e + WIDTH * n}
           Stop == {n \in 0 .. (NR * LIMIT) \div WIDTH + 1 :
                      q.cursor < S!WindowEnd(at(n)) \/ ~S!CanScroll(d, at(n))}
<1>1. PICK u \in Nat, s \in Nat : u = q.cursor /\ s = q.start
  BY DEF Con
<1>2. e \in Nat /\ e < MOD
  <2>1. s + SCREEN \in Nat /\ MOD \in Nat /\ MOD >= 1
    BY Sizes
  <2> QED
    BY <1>1, <2>1 DEF S!WindowEnd
<1>3. u + 1 \in Enough
  BY <1>1, <1>2, Sizes, Products
<1>4. PICK m \in Enough : \A n \in Enough : m <= n
  BY <1>3, MinFacts
<1>5. m \in Nat /\ u < e + WIDTH * m
  BY <1>1
<1>6. m # 0 => e + WIDTH * m <= u + WIDTH
  <2> SUFFICES ASSUME m # 0 PROVE e + WIDTH * m <= u + WIDTH
    OBVIOUS
  <2>1. PICK p \in Nat : p + 1 = m
    BY <1>5
  <2>2. ~(u < e + WIDTH * p)
    BY <1>1, <1>4, <2>1
  <2>3. WIDTH * (p + 1) = WIDTH * p + WIDTH /\ WIDTH * p \in Nat
    BY Sizes, Products
  <2>4. WIDTH * m = WIDTH * p + WIDTH
    BY <2>1, <2>3
  <2> QED
    BY <1>2, <2>2, <2>3, <2>4, Sizes
<1>7. WIDTH * m \in Nat /\ e + WIDTH * m < MOD
  <2>1. WIDTH * m \in Nat /\ WIDTH * 0 = 0
    BY <1>5, Sizes, Products
  <2> QED
    BY <1>1, <1>2, <1>5, <1>6, <2>1, Sizes
<1>8. \A n \in 0 .. m : S!WindowEnd(at(n)) = e + WIDTH * n
  <2> SUFFICES ASSUME NEW n \in 0 .. m PROVE S!WindowEnd(at(n)) = e + WIDTH * n
    OBVIOUS
  <2>1. n \in Nat /\ n <= m
    BY <1>5
  <2>2. PICK z \in Nat : z = WIDTH * n /\ z <= WIDTH * m
    BY <1>5, <2>1, Sizes, Products
  <2>3. MOD \in Nat /\ MOD >= 1 /\ SCREEN \in Nat /\ e + z < MOD /\ e = (s + SCREEN) % MOD
    BY <1>1, <1>2, <1>7, <2>2, Sizes DEF S!WindowEnd
  <2>4. Plus(MOD, s, SCREEN) + z < MOD
    BY <2>3 DEF Plus
  <2>5. Plus(MOD, Plus(MOD, s, z), SCREEN) = Plus(MOD, s, SCREEN) + z
    BY <2>3, <2>4, MovedEnd
  <2> QED
    BY <1>1, <2>2, <2>3, <2>5 DEF S!WindowEnd, Plus
<1>9. m \in Stop
  <2>1. S!WindowEnd(at(m)) = e + WIDTH * m
    BY <1>5, <1>8
  <2>2. m <= (NR * LIMIT) \div WIDTH + 1
    <3>1. PICK v \in Nat : v = NR * LIMIT /\ S!End(d) <= v
      BY Memory
    <3>2. PICK f \in Nat : f = v \div WIDTH /\ v < WIDTH * f + WIDTH
      BY Sizes, Division
    <3>3. ASSUME m > f + 1 PROVE FALSE
      <4>1. WIDTH * (f + 2) <= WIDTH * m
        BY <1>5, <3>3, Sizes, Products
      <4>2. WIDTH * (f + 2) = WIDTH * f + 2 * WIDTH /\ WIDTH * f \in Nat
        BY Sizes, Products
      <4>3. WIDTH * m <= u + WIDTH
        BY <1>2, <1>5, <1>6, <1>7, <3>3, Sizes
      <4> QED
        BY <1>1, <1>7, <3>1, <3>2, <4>1, <4>2, <4>3, Sizes
    <3> QED
      BY <1>5, <3>1, <3>2, <3>3
  <2>3. u < S!WindowEnd(at(m))
    BY <1>5, <2>1
  <2>4. m \in 0 .. (NR * LIMIT) \div WIDTH + 1
    <3>1. PICK f \in Nat : f = (NR * LIMIT) \div WIDTH
      BY Memory, Sizes, Division
    <3> QED
      BY <1>5, <2>2, <3>1
  <2> QED
    BY <1>1, <2>3, <2>4
<1>10. PICK l \in Nat : l = S!Min(Stop) /\ l \in Stop /\ l <= m
  <2>0. \A n \in Stop : n \in Nat
    <3>1. PICK f \in Nat : f = (NR * LIMIT) \div WIDTH
      BY Memory, Sizes, Division
    <3> QED
      BY <3>1
  <2>1. Stop \subseteq Nat /\ Stop # {}
    BY <1>9, <2>0
  <2> QED
    BY <1>9, <2>1, MinFacts
<1>11. l \in 0 .. m
  BY <1>5, <1>10
<1>12. S!WindowEnd(at(l)) = e + WIDTH * l
  BY <1>8, <1>11, Zenon
<1>13. u < e + WIDTH * l
  <2>1. u < S!WindowEnd(at(l)) \/ ~(S!WindowEnd(at(l)) < S!End(d))
    BY <1>1, <1>10 DEF S!CanScroll
  <2>2. WIDTH * l \in Nat
    BY Sizes, Products
  <2> QED
    BY <1>1, <1>2, <1>12, <2>1, <2>2, Sizes
<1>14. l = m
  <2>1. l \in Enough
    BY <1>1, <1>13
  <2>2. m <= l
    BY <1>4, <2>1
  <2> QED
    BY <1>5, <1>10, <2>2
<1>15. S!Follow(d, q) = [q EXCEPT !.start = at(l)]
  BY <1>10, Zenon DEF S!Follow
<1> QED
  BY <1>1, <1>2, <1>6, <1>12, <1>13, <1>14, <1>15

\* The end of a good window has not wrapped.
LEMMA EndOfWindow ==
  ASSUME S!ScreenAssumption, NEW d \in S!Consoles, NEW q, Good(d, q)
  PROVE  S!WindowEnd(q.start) = q.start + SCREEN
<1>1. q.start \in Nat /\ q.start + SCREEN < MOD /\ SCREEN \in Nat
  BY Sizes DEF Good, Con
<1> QED
  BY <1>1, Sizes DEF S!WindowEnd

\* The window has followed the cursor of q when it is moved by l lines, and not
\* before.
Follows(q, l) ==
  /\ q.cursor < q.start + WIDTH * l + SCREEN
  /\ l # 0 => q.start + WIDTH * l + SCREEN <= q.cursor + WIDTH

\* In a good record no address wraps.
LEMMA FollowMoves ==
  ASSUME S!ScreenAssumption, NEW d \in S!Consoles, NEW q, Good(d, q)
  PROVE  \E l \in Nat : /\ Follows(q, l) /\ S!Follow(d, q) = [q EXCEPT !.start = q.start + WIDTH * l]
                        /\ Good(d, S!Follow(d, q)) /\ S!Follow(d, q).cursor = q.cursor
                        /\ S!Follow(d, q).start = q.start + WIDTH * l
<1>1. PICK u \in Nat, s \in Nat : u = q.cursor /\ s = q.start /\ u < S!End(d) /\ s + SCREEN < S!End(d) + WIDTH
  BY DEF Good, Con
<1>2. q \in Con /\ q.cursor < S!End(d) /\ S!WindowEnd(q.start) = s + SCREEN
  BY <1>1, EndOfWindow DEF Good
<1>3. PICK l \in Nat : /\ u < s + SCREEN + WIDTH * l
                       /\ l # 0 => s + SCREEN + WIDTH * l <= u + WIDTH
                       /\ S!Follow(d, q) = [q EXCEPT !.start = (s + WIDTH * l) % MOD]
  BY <1>1, <1>2, FollowEnds
<1>4. WIDTH * l \in Nat /\ WIDTH * 0 = 0
  BY Sizes, Products
<1>5. s + WIDTH * l + SCREEN < S!End(d) + WIDTH
  BY <1>1, <1>3, <1>4, Sizes
<1>6. (s + WIDTH * l) % MOD = s + WIDTH * l
  <2>1. s + WIDTH * l \in Nat /\ s + WIDTH * l < MOD
    BY <1>4, <1>5, Sizes
  <2> QED
    BY <2>1, Sizes
<1>7. PICK j \in Nat : s = S!Orig(d) + WIDTH * j
  BY <1>1 DEF Good
<1>8. s + WIDTH * l = S!Orig(d) + WIDTH * (j + l)
  BY <1>7, Sizes, Products
<1>9. PICK i \in Nat : i = j + l
  OBVIOUS
<1>10. PICK x : x = s + WIDTH * l
  OBVIOUS
<1>11. PICK p : p = [q EXCEPT !.start = x]
  OBVIOUS
<1>12. Good(d, p) /\ p.cursor = q.cursor /\ p.start = x
  BY <1>5, <1>8, <1>9, <1>10, <1>11, StartGood
<1>13. Follows(q, l)
  BY <1>1, <1>3, <1>4, Sizes DEF Follows
<1> QED
  BY <1>1, <1>3, <1>6, <1>10, <1>11, <1>12, <1>13

\* There is one such number of lines.
LEMMA FollowsOnce ==
  ASSUME S!ScreenAssumption, NEW d \in S!Consoles, NEW q, Good(d, q),
         NEW l \in Nat, Follows(q, l), NEW m \in Nat, Follows(q, m)
  PROVE  ~(l < m)
<1> SUFFICES ASSUME l < m PROVE FALSE
  OBVIOUS
<1>1. WIDTH * (l + 1) <= WIDTH * m /\ WIDTH * (l + 1) = WIDTH * l + WIDTH
  BY Sizes, Products
<1>2. WIDTH * l \in Nat /\ WIDTH * m \in Nat /\ q.start \in Nat /\ q.cursor \in Nat
  BY Sizes, Products DEF Good, Con
<1>3. m # 0
  OBVIOUS
<1> QED
  BY <1>1, <1>2, <1>3, Sizes DEF Follows

LEMMA FollowGood ==
  ASSUME S!ScreenAssumption, NEW d \in S!Consoles, NEW q, Good(d, q)
  PROVE  /\ Good(d, S!Follow(d, q)) /\ S!Follow(d, q).cursor = q.cursor
         /\ q.cursor < S!Follow(d, q).start + SCREEN
BY FollowMoves DEF Follows

\* Nothing is moved when the cursor is above the end of the window.
LEMMA FollowStays ==
  ASSUME S!ScreenAssumption, NEW d \in S!Consoles, NEW q, Good(d, q),
         q.cursor < S!WindowEnd(q.start)
  PROVE  S!Follow(d, q) = q
<1>1. PICK l \in Nat : Follows(q, l) /\ S!Follow(d, q) = [q EXCEPT !.start = q.start + WIDTH * l]
  BY FollowMoves
<1>2. WIDTH * 0 = 0 /\ q.start \in Nat /\ q.cursor \in Nat
  BY Sizes DEF Good, Con
<1>3. Follows(q, 0)
  BY <1>2, EndOfWindow, Sizes DEF Follows
<1>4. l = 0
  BY <1>1, <1>3, FollowsOnce
<1> QED
  BY <1>1, <1>2, <1>4 DEF Good, Con

\* Otherwise it can be moved by a line.
LEMMA LineOnGood ==
  ASSUME S!ScreenAssumption, NEW d \in S!Consoles, NEW q, Good(d, q),
         ~(q.cursor < S!WindowEnd(q.start))
  PROVE  /\ S!CanScroll(d, q.start) /\ (q.start + WIDTH) % MOD = q.start + WIDTH
         /\ Good(d, [q EXCEPT !.start = q.start + WIDTH])
         /\ q.start + SCREEN <= q.cursor
<1>1. PICK a \in Nat : a = q.start
  BY DEF Good, Con
<1>2. PICK u \in Nat : u = q.cursor /\ u < S!End(d)
  BY DEF Good, Con
<1>3. a + SCREEN <= u
  BY <1>1, <1>2, EndOfWindow, Sizes
<1>4. S!CanScroll(d, q.start)
  BY <1>1, <1>2, <1>3, EndOfWindow, Sizes DEF S!CanScroll
<1>5. (a + WIDTH) % MOD = a + WIDTH
  BY <1>2, <1>3, Sizes
<1>6. PICK j \in Nat : a = S!Orig(d) + WIDTH * j
  BY <1>1 DEF Good
<1>7. PICK x : x = S!Orig(d) + WIDTH * (j + 1)
  OBVIOUS
<1>8. x = a + WIDTH
  BY <1>6, <1>7, Sizes, Products
<1>9. x + SCREEN < S!End(d) + WIDTH
  BY <1>2, <1>3, <1>8, Sizes
<1>10. PICK p : p = [q EXCEPT !.start = x]
  OBVIOUS
<1>11. Good(d, p)
  BY <1>7, <1>9, <1>10, StartGood
<1> QED
  BY <1>1, <1>2, <1>3, <1>4, <1>5, <1>8, <1>10, <1>11

\* That brings it nearer to where it will end.
LEMMA LineOnFollows ==
  ASSUME S!ScreenAssumption, NEW d \in S!Consoles, NEW q, Good(d, q), NEW p, Good(d, p),
         p.cursor = q.cursor, p.start = q.start + WIDTH, q.start + SCREEN <= q.cursor
  PROVE  S!Follow(d, p) = S!Follow(d, q)
<1>1. PICK l \in Nat : Follows(q, l) /\ S!Follow(d, q) = [q EXCEPT !.start = q.start + WIDTH * l]
  BY FollowMoves
<1>2. PICK m \in Nat : Follows(p, m) /\ S!Follow(d, p) = [p EXCEPT !.start = p.start + WIDTH * m]
  BY FollowMoves
<1>3. PICK n \in Nat : n = m + 1
  OBVIOUS
<1>4. WIDTH * n = WIDTH * m + WIDTH /\ WIDTH * m \in Nat
  BY <1>3, Sizes, Products
<1>5. q \in Con /\ q.start \in Nat /\ q.cursor \in Nat /\ p \in Con
  BY DEF Good, Con
<1>6. Follows(q, n)
  <2>1. q.cursor < q.start + WIDTH * n + SCREEN
    BY <1>2, <1>4, <1>5, Sizes DEF Follows
  <2>2. q.start + WIDTH * n + SCREEN <= q.cursor + WIDTH
    <3>1. CASE m = 0
      <4>1. WIDTH * m = 0
        BY <3>1, Sizes
      <4>2. WIDTH * n = WIDTH /\ WIDTH \in Nat /\ SCREEN \in Nat
        BY <1>4, <4>1, Sizes
      <4> QED
        BY <1>5, <4>2
    <3>2. CASE m # 0
      BY <1>2, <1>4, <1>5, <3>2, Sizes DEF Follows
    <3> QED
      BY <3>1, <3>2
  <2> QED
    BY <2>1, <2>2 DEF Follows
<1>7. l = n
  <2>1. ~(l < n) /\ ~(n < l)
    BY <1>1, <1>6, FollowsOnce
  <2> QED
    BY <2>1
<1>8. q.start + WIDTH * l = p.start + WIDTH * m
  BY <1>4, <1>5, <1>7, Sizes
<1> QED
  BY <1>1, <1>2, <1>5, <1>8 DEF Con

LEMMA OutCharGood ==
  ASSUME S!ScreenAssumption, NEW d \in S!Consoles, NEW q, Good(d, q), NEW ch
  PROVE  /\ Good(d, S!OutChar(d, q, ch))
         /\ S!OutChar(d, q, ch).cursor < S!OutChar(d, q, ch).start + SCREEN
<1>1. PICK room : room = IF S!Full(d, q.cursor) THEN S!Top(d) ELSE q
  OBVIOUS
<1>2. Good(d, room)
  BY <1>1, TopGood
<1>3. PICK r : r = IF ch = "newline" THEN S!NewLine(d, room)
                   ELSE IF ch = "backspace" THEN S!BackSpace(d, room) ELSE S!Put(d, room)
  OBVIOUS
<1>4. Good(d, r)
  BY <1>2, <1>3, NewLineGood, BackSpaceGood, PutGood
<1>5. S!OutChar(d, q, ch) = S!Follow(d, r)
  BY <1>1, <1>3 DEF S!OutChar
<1> QED
  BY <1>4, <1>5, FollowGood

LEMMA ScrollUpGood ==
  ASSUME S!ScreenAssumption, NEW d \in S!Consoles, NEW q, Good(d, q)
  PROVE  Good(d, S!ScrollUp(d, q)) /\ S!ScrollUp(d, q).cursor = q.cursor
<1>1. CASE q.start > S!Orig(d)
  <2>1. PICK j \in Nat : q.start = S!Orig(d) + WIDTH * j
    BY DEF Good
  <2>2. j # 0
    BY <1>1, <2>1, Sizes
  <2>3. PICK p \in Nat : p + 1 = j
    BY <2>2
  <2>4. PICK x : x = S!Orig(d) + WIDTH * p
    OBVIOUS
  <2>5. x = q.start - WIDTH
    <3>1. WIDTH * (p + 1) = WIDTH * p + WIDTH /\ WIDTH * p \in Nat
      BY <2>3, Sizes, Products
    <3>2. WIDTH * j = WIDTH * p + WIDTH
      BY <2>3, <3>1
    <3> QED
      BY <2>1, <2>4, <3>1, <3>2, Sizes
  <2>6. x + SCREEN < S!End(d) + WIDTH
    BY <2>5, Sizes DEF Good, Con
  <2>7. S!ScrollUp(d, q) = [q EXCEPT !.start = x]
    BY <1>1, <2>5 DEF S!ScrollUp
  <2> QED
    BY <2>4, <2>6, <2>7, StartGood
<1>2. CASE ~(q.start > S!Orig(d))
  BY <1>2 DEF S!ScrollUp
<1> QED
  BY <1>1, <1>2

LEMMA ScrollDownGood ==
  ASSUME S!ScreenAssumption, NEW d \in S!Consoles, NEW q, Good(d, q)
  PROVE  Good(d, S!ScrollDown(d, q)) /\ S!ScrollDown(d, q).cursor = q.cursor
<1>1. CASE S!CanScroll(d, q.start)
  <2>1. PICK j \in Nat : q.start = S!Orig(d) + WIDTH * j
    BY DEF Good
  <2>2. PICK x : x = S!Orig(d) + WIDTH * (j + 1)
    OBVIOUS
  <2>3. x = q.start + WIDTH
    BY <2>1, <2>2, Sizes, Products
  <2>4. q.start + SCREEN < MOD /\ q.start + SCREEN \in Nat
    BY Sizes DEF Good, Con
  <2>5. q.start + SCREEN < S!End(d)
    BY <1>1, <2>4, Sizes DEF S!CanScroll, S!WindowEnd
  <2>6. x + SCREEN < S!End(d) + WIDTH
    BY <2>3, <2>5, Sizes DEF Good, Con
  <2>7. S!ScrollDown(d, q) = [q EXCEPT !.start = x]
    BY <1>1, <2>3 DEF S!ScrollDown
  <2> QED
    BY <2>2, <2>6, <2>7, StartGood
<1>2. CASE ~S!CanScroll(d, q.start)
  BY <1>2 DEF S!ScrollDown
<1> QED
  BY <1>1, <1>2

----------------------------------------------------------------------------
(* Steps of task_tty as steps of Screen *)

\* A step of Screen, or one that changes nothing there.
Simulates == UNCHANGED S!vars \/ S!Next
Goes == IInv' /\ Simulates

\* In the middle of an operation record q of its console, what is displayed (x) and
\* the task itself (t) may change; seen as a Screen nothing does.
LEMMA InsideStep ==
  ASSUME IInv, task.pc # "idle", task.c \notin spoilt, current' = current, spoilt' = spoilt,
         NEW q \in Con, con' = [con EXCEPT ![task.c] = q],
         NEW x \in Con, crtc' = x, task.c # current => x = crtc,
         NEW t \in TaskType, task' = t, t.pc # "idle", t.c = task.c, t.old = task.old,
         TaskOK(t, q, x, current)
  PROVE  Goes
<1>1. /\ task.c \in S!Consoles /\ con \in [S!Consoles -> Con] /\ current \in S!Consoles
      /\ spoilt \subseteq S!Consoles
  BY DEF IInv, TaskType
<1>2. con' \in [S!Consoles -> Con] /\ con'[task.c] = q
  BY <1>1
<1>3. ASSUME NEW d \in S!Consoles PROVE (Busy(d)' <=> Busy(d)) /\ (Before(d)' <=> Before(d))
  BY DEF Busy, Before
<1>4. ASSUME NEW d \in S!Consoles, ~Busy(d) PROVE con'[d] = con[d]
  BY <1>1, <1>4 DEF Busy
<1>5. ASSUME NEW d \in S!Consoles \ spoilt, ~Busy(d) PROVE Good(d, con'[d])
  BY <1>4, <1>5 DEF IInv
<1>6. Busy(current) \/ current \in spoilt \/ x = con'[current]
  <2>1. ASSUME ~Busy(current), current \notin spoilt PROVE x = con'[current]
    <3>1. task.c # current
      BY <2>1 DEF Busy
    <3>2. crtc = con[current]
      BY <2>1 DEF IInv
    <3> QED
      BY <1>1, <1>4, <2>1, <3>1, <3>2
  <2> QED
    BY <2>1
<1>7. t.pc \in ShowPc => t.c = current
  BY DEF TaskOK, FlushOK
<1>8. IInv'
  BY <1>1, <1>2, <1>3, <1>5, <1>6, <1>7 DEF IInv
<1>9. ShownCon' = ShownCon
  <2>1. ASSUME NEW d \in 0 .. NR - 1
        PROVE  (IF Before(d)' THEN task'.old ELSE con'[d]) = (IF Before(d) THEN task.old ELSE con[d])
    <3>1. d \in S!Consoles
      BY DEF S!Consoles
    <3>2. CASE Before(d)
      BY <1>3, <3>1, <3>2
    <3>3. CASE ~Before(d)
      BY <1>3, <1>4, <3>1, <3>3 DEF Before, Busy
    <3> QED
      BY <3>2, <3>3
  <2> QED
    BY <2>1 DEF ShownCon, Before, Busy
<1>10. ShownCrtc' = ShownCrtc
  BY <1>1, <1>3 DEF ShownCrtc, Before, Busy
<1> QED
  BY <1>8, <1>9, <1>10 DEF Goes, Simulates, S!vars

\* When flush has returned, the record of its console takes the place of the old one.
LEMMA EndStep ==
  ASSUME IInv, task.pc # "idle", task.c \notin spoilt, current' = current, spoilt' = spoilt,
         con' = con, NEW q, q = con[task.c], Good(task.c, q),
         crtc' = IF task.c = current THEN q ELSE crtc,
         NEW t \in TaskType, task' = t,
         t.pc = "idle" \/ (t.c = task.c /\ t.old = q /\ TaskOK(t, q, crtc', current))
  PROVE  IInv' /\ S!Change(task.c, q)
<1>1. /\ task.c \in S!Consoles /\ con \in [S!Consoles -> Con] /\ current \in S!Consoles
      /\ spoilt \subseteq S!Consoles
  BY DEF IInv, TaskType
<1>2. ASSUME NEW d \in S!Consoles, d # task.c PROVE ~Busy(d) /\ ~Busy(d)'
  BY <1>2 DEF Busy
<1>3. crtc' \in Con
  BY DEF IInv, Good
<1>4. \A d \in S!Consoles \ spoilt : Good(d, con[d])
  BY <1>2 DEF IInv, Busy
<1>5. current \in spoilt \/ crtc' = con[current]
  BY <1>1, <1>2 DEF IInv, Busy
<1>6. t.pc \in ShowPc => t.c = current
  BY DEF TaskOK, FlushOK, ShowPc
<1>7. IInv'
  BY <1>1, <1>3, <1>4, <1>5, <1>6 DEF IInv
<1>8. ShownCon' = con /\ ShownCon = [con EXCEPT ![task.c] = task.old]
  <2>1. ASSUME NEW d \in 0 .. NR - 1 PROVE (IF Before(d)' THEN task'.old ELSE con'[d]) = con[d]
    BY DEF Before, Busy
  <2>2. ShownCon' = con
    BY <1>1, <2>1 DEF ShownCon, S!Consoles, Before, Busy
  <2>3. ShownCon = [con EXCEPT ![task.c] = task.old]
    BY <1>1, <1>2 DEF ShownCon, S!Consoles, Before, Busy
  <2> QED
    BY <2>2, <2>3
<1>9. ShownCon' = [ShownCon EXCEPT ![task.c] = q]
  BY <1>1, <1>8
<1>10. ShownCrtc' = IF task.c = current THEN q ELSE ShownCrtc
  BY <1>1 DEF ShownCrtc, Before, Busy
<1>11. ShownCon'[task.c] = q
  BY <1>1, <1>8
<1> QED
  BY <1>7, <1>9, <1>10, <1>11 DEF S!Change, S!Flush

\* The record of the console is only read,
LEMMA LocalStep ==
  ASSUME IInv, task.pc # "idle", task.c \notin spoilt, Local,
         NEW t \in TaskType, task' = t, t.pc # "idle", t.c = task.c, t.old = task.old,
         TaskOK(t, k, crtc, current)
  PROVE  Goes
<1>1. task.c \in S!Consoles /\ con \in [S!Consoles -> Con] /\ crtc \in Con
  BY DEF IInv, TaskType
<1>2. con[task.c] \in Con /\ con = [con EXCEPT ![task.c] = con[task.c]]
  BY <1>1
<1>3. con' = con /\ current' = current /\ crtc' = crtc /\ spoilt' = spoilt
  BY DEF Local
<1>4. TaskOK(t, con[task.c], crtc, current)
  BY DEF k, c
<1> QED
  BY <1>1, <1>2, <1>3, <1>4, InsideStep

\* or it is changed.
LEMMA ChangedStep ==
  ASSUME IInv, task.pc # "idle", task.c \notin spoilt, Changed,
         NEW q \in Con, con' = [con EXCEPT ![task.c] = q],
         NEW t \in TaskType, task' = t, t.pc # "idle", t.c = task.c, t.old = task.old,
         TaskOK(t, q, crtc, current)
  PROVE  Goes
<1>1. crtc \in Con
  BY DEF IInv
<1>2. current' = current /\ crtc' = crtc /\ spoilt' = spoilt
  BY DEF Changed
<1> QED
  BY <1>1, <1>2, InsideStep

\* Task t is at pc; at, r and back may be new, too.
Fields(t, pc, at, r, back) ==
  /\ t.pc = pc /\ t.at = at /\ t.r = r /\ t.back = back
  /\ t.c = task.c /\ t.ch = task.ch /\ t.old = task.old

LEMMA ReadFields ==
  ASSUME IInv, task.pc # "idle", NEW pc \in BusyPc, NEW v \in Nat,
         task' = [task EXCEPT !.pc = pc, !.r = v]
  PROVE  \E t \in TaskType : task' = t /\ Fields(t, pc, task.at, v, task.back)
<1>1. task \in TaskType
  BY DEF IInv
<1>2. PICK p : p = [task EXCEPT !.pc = pc]
  OBVIOUS
<1>3. PICK t : t = [p EXCEPT !.r = v]
  OBVIOUS
<1>4. task' = t
  BY <1>1, <1>2, <1>3 DEF TaskType
<1>5. p \in TaskType /\ Fields(p, pc, task.at, task.r, task.back)
  BY <1>1, <1>2 DEF TaskType, Fields
<1>6. t \in TaskType
  BY <1>3, <1>5 DEF TaskType
<1>7. Fields(t, pc, task.at, v, task.back)
  BY <1>3, <1>5 DEF TaskType, Fields
<1> QED
  BY <1>4, <1>6, <1>7

LEMMA GotoFields ==
  ASSUME IInv, task.pc # "idle", NEW pc \in BusyPc, Goto(pc)
  PROVE  \E t \in TaskType : task' = t /\ Fields(t, pc, task.at, 0, task.back)
BY ReadFields, 0 \in Nat DEF Goto

LEMMA AtFields ==
  ASSUME IInv, task.pc # "idle", NEW pc \in BusyPc, NEW v \in Nat,
         task' = [task EXCEPT !.pc = pc, !.at = v]
  PROVE  \E t \in TaskType : task' = t /\ Fields(t, pc, v, task.r, task.back)
<1>1. task \in TaskType
  BY DEF IInv
<1>2. PICK p : p = [task EXCEPT !.pc = pc]
  OBVIOUS
<1>3. PICK t : t = [p EXCEPT !.at = v]
  OBVIOUS
<1>4. task' = t
  BY <1>1, <1>2, <1>3 DEF TaskType
<1>5. p \in TaskType /\ Fields(p, pc, task.at, task.r, task.back)
  BY <1>1, <1>2 DEF TaskType, Fields
<1>6. t \in TaskType
  BY <1>3, <1>5 DEF TaskType
<1>7. Fields(t, pc, v, task.r, task.back)
  BY <1>3, <1>5 DEF TaskType, Fields
<1> QED
  BY <1>4, <1>6, <1>7

LEMMA BackFields ==
  ASSUME IInv, task.pc # "idle", NEW pc \in BusyPc, NEW v \in {"idle", "done", "loop"},
         task' = [task EXCEPT !.pc = pc, !.r = 0, !.back = v]
  PROVE  \E t \in TaskType : task' = t /\ Fields(t, pc, task.at, 0, v)
<1>1. task \in TaskType /\ 0 \in Nat
  BY DEF IInv
<1>2. PICK p : p = [task EXCEPT !.pc = pc]
  OBVIOUS
<1>3. PICK u : u = [p EXCEPT !.r = 0]
  OBVIOUS
<1>4. PICK t : t = [u EXCEPT !.back = v]
  OBVIOUS
<1>5. task' = t
  BY <1>1, <1>2, <1>3, <1>4 DEF TaskType
<1>6. p \in TaskType /\ Fields(p, pc, task.at, task.r, task.back)
  BY <1>1, <1>2 DEF TaskType, Fields
<1>7. u \in TaskType /\ Fields(u, pc, task.at, 0, task.back)
  BY <1>1, <1>3, <1>6 DEF TaskType, Fields
<1>8. t \in TaskType /\ Fields(t, pc, task.at, 0, v)
  BY <1>4, <1>7 DEF TaskType, Fields
<1> QED
  BY <1>5, <1>8

LEMMA OutFields ==
  ASSUME IInv, task.pc # "idle", Out
  PROVE  \E t \in TaskType : task' = t /\ Fields(t, "loop", 0, 0, task.back)
<1>1. task \in TaskType /\ 0 \in Nat /\ "loop" \in BusyPc
  BY DEF IInv, BusyPc, LoopPc
<1>2. PICK p : p = [task EXCEPT !.pc = "loop"]
  OBVIOUS
<1>3. PICK u : u = [p EXCEPT !.at = 0]
  OBVIOUS
<1>4. PICK t : t = [u EXCEPT !.r = 0]
  OBVIOUS
<1>5. task' = t
  BY <1>1, <1>2, <1>3, <1>4 DEF TaskType, Out
<1>6. p \in TaskType /\ Fields(p, "loop", task.at, task.r, task.back)
  BY <1>1, <1>2 DEF TaskType, Fields
<1>7. u \in TaskType /\ Fields(u, "loop", 0, task.r, task.back)
  BY <1>1, <1>3, <1>6 DEF TaskType, Fields
<1>8. t \in TaskType /\ Fields(t, "loop", 0, 0, task.back)
  BY <1>1, <1>4, <1>7 DEF TaskType, Fields
<1> QED
  BY <1>5, <1>8

LEMMA LoadFields ==
  ASSUME IInv, task.pc # "idle", NEW pc \in BusyPc, NEW v \in Nat, Load(pc, v)
  PROVE  \E t \in TaskType : task' = t /\ Fields(t, pc, task.at, v, task.back)
<1>1. task' = [task EXCEPT !.pc = pc, !.r = v]
  BY DEF Load
<1> QED
  BY <1>1, ReadFields

\* The task while it is busy.
LEMMA BusyType ==
  ASSUME IInv, task.pc # "idle"
  PROVE  /\ task \in TaskType /\ task.c \in S!Consoles /\ k \in Con /\ k.cursor \in Nat
         /\ k.start \in Nat
<1>1. task \in TaskType /\ task.c \in S!Consoles /\ con \in [S!Consoles -> Con]
  BY DEF IInv, TaskType
<1>2. con[task.c] \in Con
  BY <1>1
<1> QED
  BY <1>1, <1>2 DEF k, c, Con

LEMMA BusyFacts ==
  ASSUME IInv, task.pc # "idle", task.c \notin spoilt
  PROVE  /\ task \in TaskType /\ TaskOK(task, k, crtc, current)
         /\ task.c \in S!Consoles /\ k \in Con /\ k.cursor \in Nat /\ k.start \in Nat
BY BusyType DEF IInv, k, c

\* The address of the cell under the cursor (console.c:76).
LEMMA AddressStep ==
  ASSUME S!ScreenAssumption, IInv, task.c \notin spoilt, Address
  PROVE  Goes
<1>1. task.pc = "enter" /\ task.pc # "idle" /\ Local /\ "full" \in BusyPc
  BY DEF Address, BusyPc, OutPc
<1>2. TaskOK(task, k, crtc, current) /\ k.cursor \in Nat
  BY <1>1, BusyFacts
<1>3. PICK t \in TaskType : task' = t /\ Fields(t, "full", k.cursor, task.r, task.back)
  BY <1>1, <1>2, AtFields DEF Address
<1>4. TaskOK(t, k, crtc, current)
  BY <1>1, <1>2, <1>3 DEF Fields, TaskOK, OutOK, ScrollOK, FlushOK, OutPc, LoopPc, FlushPc, ShowPc
<1> QED
  BY <1>1, <1>3, <1>4, LocalStep DEF Fields

LEMMA TestFullStep ==
  ASSUME S!ScreenAssumption, IInv, task.c \notin spoilt, TestFull
  PROVE  Goes
<1>1. /\ task.pc = "full" /\ task.pc # "idle" /\ Local
      /\ Goto(IF S!Full(task.c, k.cursor) THEN "top" ELSE "switch")
  BY DEF TestFull, c
<1>2. TaskOK(task, k, crtc, current)
  BY <1>1, BusyFacts
<1>3. PICK pc \in {"top", "switch"} : /\ pc = "top" <=> S!Full(task.c, k.cursor)
                                      /\ pc \in BusyPc /\ Goto(pc)
  BY <1>1 DEF BusyPc, OutPc
<1>4. PICK t \in TaskType : task' = t /\ Fields(t, pc, task.at, 0, task.back)
  BY <1>1, <1>3, GotoFields
<1>5. TaskOK(t, k, crtc, current)
  BY <1>1, <1>2, <1>3, <1>4 DEF Fields, Room, TaskOK, OutOK, ScrollOK, FlushOK, OutPc, LoopPc, FlushPc, ShowPc
<1> QED
  BY <1>1, <1>3, <1>4, <1>5, LocalStep DEF Fields

\* The record once a field has been stored.
LEMMA CursorStored ==
  ASSUME IInv, task.pc # "idle", NEW v \in Nat, StoreCursor(v)
  PROVE  \E q \in Con : q = [k EXCEPT !.cursor = v] /\ con' = [con EXCEPT ![task.c] = q]
<1>1. con' = [con EXCEPT ![task.c] = [k EXCEPT !.cursor = v]]
  BY DEF StoreCursor, k, c
<1>2. [k EXCEPT !.cursor = v] \in Con
  BY BusyType DEF Con
<1> QED
  BY <1>1, <1>2

LEMMA StartStored ==
  ASSUME IInv, task.pc # "idle", NEW v \in Nat, StoreStart(v)
  PROVE  \E q \in Con : q = [k EXCEPT !.start = v] /\ con' = [con EXCEPT ![task.c] = q]
<1>1. con' = [con EXCEPT ![task.c] = [k EXCEPT !.start = v]]
  BY DEF StoreStart, k, c
<1>2. [k EXCEPT !.start = v] \in Con
  BY BusyType DEF Con
<1> QED
  BY <1>1, <1>2

\* A full console begins again at its top (82-84).
LEMMA ToTopStep ==
  ASSUME S!ScreenAssumption, IInv, task.c \notin spoilt, ToTop
  PROVE  Goes
<1>1. /\ task.pc = "top" /\ task.pc # "idle" /\ Changed /\ "top_start" \in BusyPc
      /\ Goto("top_start") /\ StoreCursor(S!Orig(task.c))
  BY DEF ToTop, BusyPc, OutPc, c
<1>2. TaskOK(task, k, crtc, current) /\ S!Orig(task.c) \in Nat
  BY <1>1, BusyFacts, Sizes
<1>3. PICK t \in TaskType : task' = t /\ Fields(t, "top_start", task.at, 0, task.back)
  BY <1>1, GotoFields
<1>4. PICK q \in Con : q = [k EXCEPT !.cursor = S!Orig(task.c)] /\ con' = [con EXCEPT ![task.c] = q]
  BY <1>1, <1>2, CursorStored
<1>5. TaskOK(t, q, crtc, current)
  BY <1>1, <1>2, <1>3, <1>4 DEF Fields, TaskOK, OutOK, ScrollOK, FlushOK, OutPc, LoopPc, FlushPc, ShowPc
<1> QED
  BY <1>1, <1>3, <1>4, <1>5, ChangedStep DEF Fields

LEMMA ToTopStartStep ==
  ASSUME S!ScreenAssumption, IInv, task.c \notin spoilt, ToTopStart
  PROVE  Goes
<1>1. /\ task.pc = "top_start" /\ task.pc # "idle" /\ Changed /\ "clear" \in BusyPc
      /\ Goto("clear") /\ StoreStart(S!Orig(task.c))
  BY DEF ToTopStart, BusyPc, OutPc, c
<1>2. TaskOK(task, k, crtc, current) /\ S!Orig(task.c) \in Nat
  BY <1>1, BusyFacts, Sizes
<1>3. PICK t \in TaskType : task' = t /\ Fields(t, "clear", task.at, 0, task.back)
  BY <1>1, GotoFields
<1>4. PICK q \in Con : q = [k EXCEPT !.start = S!Orig(task.c)] /\ con' = [con EXCEPT ![task.c] = q]
  BY <1>1, <1>2, StartStored
<1>5. q = S!Top(task.c)
  <2>1. task.old \in Con /\ k = [task.old EXCEPT !.cursor = S!Orig(task.c)]
    BY <1>1, <1>2 DEF TaskOK, OutOK, Good
  <2> QED
    BY <1>2, <1>4, <2>1 DEF Con, S!Top
<1>6. TaskOK(t, q, crtc, current)
  BY <1>1, <1>2, <1>3, <1>5 DEF Fields, TaskOK, OutOK, ScrollOK, FlushOK, OutPc, LoopPc, FlushPc, ShowPc
<1> QED
  BY <1>1, <1>3, <1>4, <1>6, ChangedStep DEF Fields

\* The memory is cleared (85-89).
LEMMA ClearStep ==
  ASSUME S!ScreenAssumption, IInv, task.c \notin spoilt, Clear
  PROVE  Goes
<1>1. task.pc = "clear" /\ task.pc # "idle" /\ Local /\ "top_again" \in BusyPc /\ Goto("top_again")
  BY DEF Clear, BusyPc, OutPc
<1>2. TaskOK(task, k, crtc, current)
  BY <1>1, BusyFacts
<1>3. PICK t \in TaskType : task' = t /\ Fields(t, "top_again", task.at, 0, task.back)
  BY <1>1, GotoFields
<1>4. TaskOK(t, k, crtc, current)
  BY <1>1, <1>2, <1>3 DEF Fields, TaskOK, OutOK, ScrollOK, FlushOK, OutPc, LoopPc, FlushPc, ShowPc
<1> QED
  BY <1>1, <1>3, <1>4, LocalStep DEF Fields

LEMMA AddressAgainStep ==
  ASSUME S!ScreenAssumption, IInv, task.c \notin spoilt, AddressAgain
  PROVE  Goes
<1>1. task.pc = "top_again" /\ task.pc # "idle" /\ Local /\ "switch" \in BusyPc
  BY DEF AddressAgain, BusyPc, OutPc
<1>2. TaskOK(task, k, crtc, current) /\ k.cursor \in Nat
  BY <1>1, BusyFacts
<1>3. PICK t \in TaskType : task' = t /\ Fields(t, "switch", k.cursor, task.r, task.back)
  BY <1>1, <1>2, AtFields DEF AddressAgain
<1>4. TaskOK(t, k, crtc, current)
  BY <1>1, <1>2, <1>3 DEF Fields, Room, TaskOK, OutOK, ScrollOK, FlushOK, OutPc, LoopPc, FlushPc, ShowPc
<1> QED
  BY <1>1, <1>3, <1>4, LocalStep DEF Fields

\* Record q has room for a character, and out_char is S!Follow of what the case for
\* the character makes of it.
LEMMA RoomFacts ==
  ASSUME S!ScreenAssumption, NEW d \in S!Consoles, NEW o, Good(d, o), NEW q, q = Room(d, o)
  PROVE  /\ Good(d, q)
         /\ S!OutChar(d, o, "newline") = S!Follow(d, S!NewLine(d, q))
         /\ S!OutChar(d, o, "backspace") = S!Follow(d, S!BackSpace(d, q))
         /\ S!OutChar(d, o, "char") = S!Follow(d, S!Put(d, q))
<1>1. Good(d, q)
  BY TopGood DEF Room
<1>2. \A ch : S!OutChar(d, o, ch) =
                S!Follow(d, IF ch = "newline" THEN S!NewLine(d, q)
                            ELSE IF ch = "backspace" THEN S!BackSpace(d, q) ELSE S!Put(d, q))
  BY DEF S!OutChar, Room
<1> QED
  BY <1>1, <1>2

LEMMA SwitchStep ==
  ASSUME S!ScreenAssumption, IInv, task.c \notin spoilt, Switch
  PROVE  Goes
<1>1. task.pc = "switch" /\ task.pc # "idle" /\ Local
  BY DEF Switch
<1>2. /\ TaskOK(task, k, crtc, current) /\ task.c \in S!Consoles
      /\ k.cursor \in Nat /\ task \in TaskType
  BY <1>1, BusyFacts
<1>3. k = Room(task.c, task.old) /\ Good(task.c, task.old) /\ task.back = "done" /\ task.at = k.cursor
  BY <1>1, <1>2 DEF TaskOK, OutOK, OutPc
<1>4. PICK pc \in {"line", "line_top", "back", "char", "loop"} :
        /\ IF pc = "loop" THEN Out ELSE Goto(pc)
        /\ pc = "line" => task.ch = "newline" /\ k.cursor < S!End(task.c) - WIDTH
        /\ pc = "line_top" => task.ch = "newline" /\ ~(k.cursor < S!End(task.c) - WIDTH)
        /\ pc = "back" => task.ch = "backspace" /\ k.cursor > S!Orig(task.c)
        /\ pc = "char" => task.ch = "char" /\ ~S!Full(task.c, k.cursor)
        /\ pc = "loop" => \/ task.ch = "backspace" /\ ~(k.cursor > S!Orig(task.c))
                          \/ task.ch = "char" /\ S!Full(task.c, k.cursor)
  BY DEF Switch, c
<1>5. PICK t \in TaskType : /\ task' = t
                           /\ Fields(t, pc, IF pc = "loop" THEN 0 ELSE task.at, 0, task.back)
  <2>1. pc \in BusyPc /\ task.at \in Nat /\ 0 \in Nat
    BY <1>2 DEF BusyPc, OutPc, LoopPc, TaskType
  <2>2. ASSUME pc = "loop" PROVE \E t \in TaskType : task' = t /\ Fields(t, pc, 0, 0, task.back)
    BY <1>1, <1>4, <2>2, OutFields
  <2>3. ASSUME pc # "loop"
        PROVE  \E t \in TaskType : task' = t /\ Fields(t, pc, task.at, 0, task.back)
    BY <1>1, <1>4, <2>1, <2>3, GotoFields
  <2> QED
    BY <2>1, <2>2, <2>3
<1>6. ASSUME pc = "loop" PROVE Written(t, k)
  <2>1. \/ task.ch = "backspace" /\ S!BackSpace(task.c, k) = k
        \/ task.ch = "char" /\ S!Put(task.c, k) = k
    BY <1>4, <1>6 DEF S!BackSpace, S!Put
  <2>2. S!OutChar(task.c, task.old, task.ch) = S!Follow(task.c, k)
    BY <1>2, <1>3, <2>1, RoomFacts
  <2>3. Good(task.c, k)
    BY <1>2, <1>3, RoomFacts
  <2> QED
    BY <1>5, <2>2, <2>3 DEF Fields, Written
<1>7. OutOK(t, k)
  BY <1>1, <1>2, <1>3, <1>4, <1>5 DEF Fields, TaskOK, OutOK, OutPc
<1>8. ScrollOK(t, k) /\ FlushOK(t, k, crtc, current)
  BY <1>3, <1>5, <1>6 DEF Fields, ScrollOK, FlushOK, LoopPc, FlushPc, ShowPc
<1>9. TaskOK(t, k, crtc, current) /\ t.pc # "idle"
  BY <1>2, <1>5, <1>7, <1>8 DEF Fields, TaskOK
<1> QED
  BY <1>1, <1>5, <1>9, LocalStep DEF Fields

\* A newline (94-103).
LEMMA LineStep ==
  ASSUME S!ScreenAssumption, IInv, task.c \notin spoilt, Line
  PROVE  Goes
<1>1. task.pc = "line" /\ task.pc # "idle" /\ Local /\ "line_set" \in BusyPc
  BY DEF Line, BusyPc, OutPc
<1>2. TaskOK(task, k, crtc, current) /\ k.cursor \in Nat /\ task.c \in S!Consoles
  BY <1>1, BusyFacts
<1>3. PICK v \in Nat : v = S!NextLine(task.c, k.cursor)
  <2>1. PICK o \in Nat : o = S!Orig(task.c)
    BY <1>2, Sizes
  <2>2. PICK m \in Nat : m = (k.cursor - o) % MOD
    BY <1>2, <2>1, Sizes
  <2>3. PICK n \in Nat : n = m \div WIDTH
    BY <1>2, Sizes, Division
  <2>4. o + WIDTH * (n + 1) \in Nat
    BY <1>2, <2>1, Sizes, Products
  <2> QED
    BY <1>2, <2>1, <2>2, <2>3, <2>4, Sizes DEF S!NextLine
<1>4. PICK t \in TaskType : task' = t /\ Fields(t, "line_set", task.at, v, task.back)
  <2>1. Load("line_set", v)
    BY <1>3 DEF Line, c
  <2> QED
    BY <1>1, <2>1, LoadFields
<1>5. TaskOK(t, k, crtc, current)
  BY <1>1, <1>2, <1>3, <1>4 DEF Fields, TaskOK, OutOK, ScrollOK, FlushOK, OutPc, LoopPc, FlushPc, ShowPc
<1> QED
  BY <1>1, <1>4, <1>5, LocalStep DEF Fields

\* The character is in: the loop comes next.
LEMMA WrittenOK ==
  ASSUME IInv, NEW t \in TaskType, NEW q, NEW x, NEW n, t.pc = "loop", t.back # "idle",
         Good(t.c, t.old), Written(t, q), t.pc \in OutPc => t.back = "done"
  PROVE  TaskOK(t, q, x, n)
BY DEF TaskOK, OutOK, ScrollOK, FlushOK, OutPc, LoopPc, FlushPc, ShowPc

LEMMA LineSetStep ==
  ASSUME S!ScreenAssumption, IInv, task.c \notin spoilt, LineSet
  PROVE  Goes
<1>1. /\ task.pc = "line_set" /\ task.pc # "idle" /\ Changed
      /\ Out /\ StoreCursor(task.r)
  BY DEF LineSet
<1>2. TaskOK(task, k, crtc, current) /\ task.c \in S!Consoles /\ task.r \in Nat
  BY <1>1, BusyFacts DEF TaskType
<1>3. PICK t \in TaskType : task' = t /\ Fields(t, "loop", 0, 0, task.back)
  BY <1>1, OutFields
<1>4. PICK q \in Con : q = [k EXCEPT !.cursor = task.r] /\ con' = [con EXCEPT ![task.c] = q]
  BY <1>1, <1>2, CursorStored
<1>5. /\ task.back = "done" /\ Good(task.c, task.old) /\ k = Room(task.c, task.old)
      /\ task.ch = "newline" /\ k.cursor < S!End(task.c) - WIDTH /\ task.r = S!NextLine(task.c, k.cursor)
  BY <1>1, <1>2 DEF TaskOK, OutOK, OutPc
<1>6. q = S!NewLine(task.c, k)
  BY <1>4, <1>5 DEF S!NewLine
<1>7. Written(t, q)
  BY <1>2, <1>3, <1>5, <1>6, RoomFacts, NewLineGood DEF Fields, Written
<1>8. TaskOK(t, q, crtc, current)
  BY <1>3, <1>5, <1>7, WrittenOK DEF Fields
<1> QED
  BY <1>1, <1>3, <1>4, <1>8, ChangedStep DEF Fields

LEMMA LineTopStep ==
  ASSUME S!ScreenAssumption, IInv, task.c \notin spoilt, LineTop
  PROVE  Goes
<1>1. /\ task.pc = "line_top" /\ task.pc # "idle" /\ Changed /\ "line_start" \in BusyPc
      /\ Goto("line_start") /\ StoreCursor(S!Orig(task.c))
  BY DEF LineTop, BusyPc, OutPc, c
<1>2. TaskOK(task, k, crtc, current) /\ S!Orig(task.c) \in Nat
  BY <1>1, BusyFacts, Sizes
<1>3. PICK t \in TaskType : task' = t /\ Fields(t, "line_start", task.at, 0, task.back)
  BY <1>1, GotoFields
<1>4. PICK q \in Con : q = [k EXCEPT !.cursor = S!Orig(task.c)] /\ con' = [con EXCEPT ![task.c] = q]
  BY <1>1, <1>2, CursorStored
<1>5. TaskOK(t, q, crtc, current)
  BY <1>1, <1>2, <1>3, <1>4 DEF Fields, TaskOK, OutOK, ScrollOK, FlushOK, OutPc, LoopPc, FlushPc, ShowPc
<1> QED
  BY <1>1, <1>3, <1>4, <1>5, ChangedStep DEF Fields

LEMMA LineStartStep ==
  ASSUME S!ScreenAssumption, IInv, task.c \notin spoilt, LineStart
  PROVE  Goes
<1>1. /\ task.pc = "line_start" /\ task.pc # "idle" /\ Changed
      /\ Out /\ StoreStart(S!Orig(task.c))
  BY DEF LineStart, c
<1>2. TaskOK(task, k, crtc, current) /\ task.c \in S!Consoles /\ S!Orig(task.c) \in Nat
  BY <1>1, BusyFacts, Sizes
<1>3. PICK t \in TaskType : task' = t /\ Fields(t, "loop", 0, 0, task.back)
  BY <1>1, OutFields
<1>4. PICK q \in Con : q = [k EXCEPT !.start = S!Orig(task.c)] /\ con' = [con EXCEPT ![task.c] = q]
  BY <1>1, <1>2, StartStored
<1>5. PICK o : o = Room(task.c, task.old)
  OBVIOUS
<1>6. /\ task.back = "done" /\ Good(task.c, task.old) /\ task.ch = "newline"
      /\ ~(o.cursor < S!End(task.c) - WIDTH) /\ k = [o EXCEPT !.cursor = S!Orig(task.c)]
  BY <1>1, <1>2, <1>5 DEF TaskOK, OutOK, OutPc
<1>7. Good(task.c, o)
  BY <1>2, <1>5, <1>6, RoomFacts
<1>8. q = S!NewLine(task.c, o)
  <2>1. o \in Con
    BY <1>7 DEF Good
  <2>2. q = S!Top(task.c)
    BY <1>2, <1>4, <1>6, <2>1 DEF Con, S!Top
  <2> QED
    BY <1>6, <2>2 DEF S!NewLine
<1>9. Written(t, q)
  BY <1>2, <1>3, <1>5, <1>6, <1>7, <1>8, RoomFacts, NewLineGood DEF Fields, Written
<1>10. TaskOK(t, q, crtc, current)
  BY <1>3, <1>6, <1>9, WrittenOK DEF Fields
<1> QED
  BY <1>1, <1>3, <1>4, <1>10, ChangedStep DEF Fields

\* A backspace (105-109).
LEMMA BackStep ==
  ASSUME S!ScreenAssumption, IInv, task.c \notin spoilt, Back
  PROVE  Goes
<1>1. task.pc = "back" /\ task.pc # "idle" /\ Local /\ "back_set" \in BusyPc
  BY DEF Back, BusyPc, OutPc
<1>2. TaskOK(task, k, crtc, current) /\ k.cursor \in Nat /\ task.c \in S!Consoles
  BY <1>1, BusyFacts
<1>3. PICK v \in Nat : v = (k.cursor - 1) % MOD
  BY <1>2, Sizes
<1>4. PICK t \in TaskType : task' = t /\ Fields(t, "back_set", task.at, v, task.back)
  <2>1. Load("back_set", v)
    BY <1>3 DEF Back
  <2> QED
    BY <1>1, <2>1, LoadFields
<1>5. TaskOK(t, k, crtc, current)
  BY <1>1, <1>2, <1>3, <1>4 DEF Fields, TaskOK, OutOK, ScrollOK, FlushOK, OutPc, LoopPc, FlushPc, ShowPc
<1> QED
  BY <1>1, <1>4, <1>5, LocalStep DEF Fields

LEMMA BackSetStep ==
  ASSUME S!ScreenAssumption, IInv, task.c \notin spoilt, BackSet
  PROVE  Goes
<1>1. /\ task.pc = "back_set" /\ task.pc # "idle" /\ Changed
      /\ Out /\ StoreCursor(task.r)
  BY DEF BackSet
<1>2. TaskOK(task, k, crtc, current) /\ task.c \in S!Consoles /\ task.r \in Nat
  BY <1>1, BusyFacts DEF TaskType
<1>3. PICK t \in TaskType : task' = t /\ Fields(t, "loop", 0, 0, task.back)
  BY <1>1, OutFields
<1>4. PICK q \in Con : q = [k EXCEPT !.cursor = task.r] /\ con' = [con EXCEPT ![task.c] = q]
  BY <1>1, <1>2, CursorStored
<1>5. /\ task.back = "done" /\ Good(task.c, task.old) /\ k = Room(task.c, task.old)
      /\ task.ch = "backspace" /\ k.cursor > S!Orig(task.c) /\ task.r = (k.cursor - 1) % MOD
  BY <1>1, <1>2 DEF TaskOK, OutOK, OutPc
<1>6. Good(task.c, k)
  BY <1>2, <1>5, RoomFacts
<1>7. task.r = k.cursor - 1
  <2>1. PICK u \in Nat : u = k.cursor /\ S!Orig(task.c) < u /\ u < S!End(task.c)
    BY <1>5, <1>6 DEF Good, Con
  <2>2. (u - 1) % MOD = u - 1
    BY <1>2, <2>1, Sizes
  <2> QED
    BY <1>5, <2>1, <2>2
<1>8. q = S!BackSpace(task.c, k)
  BY <1>4, <1>5, <1>7 DEF S!BackSpace
<1>9. Written(t, q)
  BY <1>2, <1>3, <1>5, <1>6, <1>8, RoomFacts, BackSpaceGood DEF Fields, Written
<1>10. TaskOK(t, q, crtc, current)
  BY <1>3, <1>5, <1>9, WrittenOK DEF Fields
<1> QED
  BY <1>1, <1>3, <1>4, <1>10, ChangedStep DEF Fields

\* Any other character (112-118).
LEMMA CharLoadStep ==
  ASSUME S!ScreenAssumption, IInv, task.c \notin spoilt, CharLoad
  PROVE  Goes
<1>1. task.pc = "char" /\ task.pc # "idle" /\ Local /\ "char_set" \in BusyPc
  BY DEF CharLoad, BusyPc, OutPc
<1>2. TaskOK(task, k, crtc, current) /\ k.cursor \in Nat /\ task.c \in S!Consoles
  BY <1>1, BusyFacts
<1>3. PICK v \in Nat : v = (k.cursor + 1) % MOD
  BY <1>2, Sizes
<1>4. PICK t \in TaskType : task' = t /\ Fields(t, "char_set", task.at, v, task.back)
  <2>1. Load("char_set", v)
    BY <1>3 DEF CharLoad
  <2> QED
    BY <1>1, <2>1, LoadFields
<1>5. TaskOK(t, k, crtc, current)
  BY <1>1, <1>2, <1>3, <1>4 DEF Fields, TaskOK, OutOK, ScrollOK, FlushOK, OutPc, LoopPc, FlushPc, ShowPc
<1> QED
  BY <1>1, <1>4, <1>5, LocalStep DEF Fields

LEMMA CharSetStep ==
  ASSUME S!ScreenAssumption, IInv, task.c \notin spoilt, CharSet
  PROVE  Goes
<1>1. /\ task.pc = "char_set" /\ task.pc # "idle" /\ Changed
      /\ Out /\ StoreCursor(task.r)
  BY DEF CharSet
<1>2. TaskOK(task, k, crtc, current) /\ task.c \in S!Consoles /\ task.r \in Nat
  BY <1>1, BusyFacts DEF TaskType
<1>3. PICK t \in TaskType : task' = t /\ Fields(t, "loop", 0, 0, task.back)
  BY <1>1, OutFields
<1>4. PICK q \in Con : q = [k EXCEPT !.cursor = task.r] /\ con' = [con EXCEPT ![task.c] = q]
  BY <1>1, <1>2, CursorStored
<1>5. /\ task.back = "done" /\ Good(task.c, task.old) /\ k = Room(task.c, task.old)
      /\ task.ch = "char" /\ ~S!Full(task.c, k.cursor) /\ task.r = (k.cursor + 1) % MOD
  BY <1>1, <1>2 DEF TaskOK, OutOK, OutPc
<1>6. Good(task.c, k)
  BY <1>2, <1>5, RoomFacts
<1>7. task.r = k.cursor + 1
  <2>1. PICK u \in Nat : u = k.cursor /\ u < S!End(task.c)
    BY <1>5, <1>6 DEF Good, Con
  <2>2. (u + 1) % MOD = u + 1
    BY <1>2, <2>1, Sizes
  <2> QED
    BY <1>5, <2>1, <2>2
<1>8. q = S!Put(task.c, k)
  BY <1>4, <1>5, <1>7 DEF S!Put
<1>9. Written(t, q)
  BY <1>2, <1>3, <1>5, <1>6, <1>8, RoomFacts, PutGood DEF Fields, Written
<1>10. TaskOK(t, q, crtc, current)
  BY <1>3, <1>5, <1>9, WrittenOK DEF Fields
<1> QED
  BY <1>1, <1>3, <1>4, <1>10, ChangedStep DEF Fields

----------------------------------------------------------------------------
(* The loop, scroll_screen and flush *)

LEMMA LoopStep ==
  ASSUME S!ScreenAssumption, IInv, task.c \notin spoilt, Loop
  PROVE  Goes
<1>1. task.pc = "loop" /\ task.pc # "idle" /\ Local /\ "loop_test" \in BusyPc
  BY DEF Loop, BusyPc, LoopPc
<1>2. TaskOK(task, k, crtc, current) /\ k.cursor \in Nat
  BY <1>1, BusyFacts
<1>3. PICK t \in TaskType : task' = t /\ Fields(t, "loop_test", task.at, k.cursor, task.back)
  BY <1>1, <1>2, LoadFields DEF Loop
<1>4. TaskOK(t, k, crtc, current)
  BY <1>1, <1>2, <1>3 DEF Fields, Written, TaskOK, OutOK, ScrollOK, FlushOK, OutPc, LoopPc, FlushPc, ShowPc
<1> QED
  BY <1>1, <1>3, <1>4, LocalStep DEF Fields

LEMMA LoopTestStep ==
  ASSUME S!ScreenAssumption, IInv, task.c \notin spoilt, LoopTest
  PROVE  Goes
<1>1. task.pc = "loop_test" /\ task.pc # "idle" /\ Local /\ "down" \in BusyPc /\ "flush" \in BusyPc
  BY DEF LoopTest, BusyPc, ScrollPc, FlushPc
<1>2. /\ TaskOK(task, k, crtc, current) /\ task.c \in S!Consoles /\ k.cursor \in Nat
      /\ k.start \in Nat
  BY <1>1, BusyFacts
<1>3. /\ Written(task, k) /\ Good(task.c, k) /\ task.r = k.cursor
      /\ Good(task.c, task.old)
  BY <1>1, <1>2 DEF TaskOK, ScrollOK, LoopPc, Written
<1>4. S!WindowEnd(k.start) \in Nat
  BY <1>2, <1>3, EndOfWindow, Sizes
<1>5. CASE task.r >= S!WindowEnd(k.start)
  <2>1. PICK t \in TaskType : task' = t /\ Fields(t, "down", task.at, 0, "loop")
    BY <1>1, <1>5, BackFields DEF LoopTest
  <2>2. ~(k.cursor < S!WindowEnd(k.start))
    BY <1>2, <1>3, <1>4, <1>5
  <2>3. TaskOK(t, k, crtc, current)
    BY <1>1, <1>3, <2>1, <2>2
       DEF Fields, Written, TaskOK, OutOK, ScrollOK, FlushOK, OutPc, LoopPc, FlushPc, ShowPc
  <2> QED
    BY <1>1, <2>1, <2>3, LocalStep DEF Fields
<1>6. CASE ~(task.r >= S!WindowEnd(k.start))
  <2>1. PICK t \in TaskType : task' = t /\ Fields(t, "flush", task.at, 0, "done")
    BY <1>1, <1>6, BackFields DEF LoopTest
  <2>2. k.cursor < S!WindowEnd(k.start)
    BY <1>2, <1>3, <1>4, <1>6
  <2>3. k = S!OutChar(task.c, task.old, task.ch)
    BY <1>2, <1>3, <2>2, FollowStays DEF Written
  <2>4. TaskOK(t, k, crtc, current)
    BY <1>1, <1>3, <2>1, <2>3
       DEF Fields, Shows, TaskOK, OutOK, ScrollOK, FlushOK, OutPc, LoopPc, FlushPc, ShowPc
  <2> QED
    BY <1>1, <2>1, <2>4, LocalStep DEF Fields
<1> QED
  BY <1>5, <1>6

\* scroll_screen downwards (204-209): in the loop the window always moves on.
LEMMA DownMoves ==
  ASSUME S!ScreenAssumption, IInv, task.pc = "down", task.back = "loop", task.c \notin spoilt
  PROVE  S!CanScroll(task.c, k.start)
<1>1. TaskOK(task, k, crtc, current) /\ task.c \in S!Consoles
  BY BusyFacts
<1>2. Good(task.c, k) /\ ~(k.cursor < S!WindowEnd(k.start))
  BY <1>1 DEF TaskOK, ScrollOK, Written
<1> QED
  BY <1>1, <1>2, LineOnGood

LEMMA DownStep ==
  ASSUME S!ScreenAssumption, IInv, task.c \notin spoilt, Down
  PROVE  Goes
<1>1. /\ task.pc = "down" /\ task.pc # "idle" /\ Local
      /\ Goto(IF S!CanScroll(task.c, k.start) THEN "down_by" ELSE "flush")
  BY DEF Down, c
<1>2. TaskOK(task, k, crtc, current)
  BY <1>1, BusyFacts
<1>3. PICK pc \in {"down_by", "flush"} : /\ pc = "down_by" <=> S!CanScroll(task.c, k.start)
                                         /\ pc \in BusyPc /\ Goto(pc)
  BY <1>1 DEF BusyPc, ScrollPc, FlushPc
<1>4. PICK t \in TaskType : task' = t /\ Fields(t, pc, task.at, 0, task.back)
  BY <1>1, <1>3, GotoFields
<1>5. pc = "flush" => Shows(t, k)
  BY <1>1, <1>2, <1>3, <1>4, DownMoves DEF Fields, Shows, TaskOK, ScrollOK
<1>6. TaskOK(t, k, crtc, current)
  BY <1>1, <1>2, <1>3, <1>4, <1>5
     DEF Fields, Written, TaskOK, OutOK, ScrollOK, FlushOK, OutPc, LoopPc, FlushPc, ShowPc
<1> QED
  BY <1>1, <1>3, <1>4, <1>6, LocalStep DEF Fields

LEMMA DownByStep ==
  ASSUME S!ScreenAssumption, IInv, task.c \notin spoilt, DownBy
  PROVE  Goes
<1>1. task.pc = "down_by" /\ task.pc # "idle" /\ Local /\ "moved" \in BusyPc
  BY DEF DownBy, BusyPc, ScrollPc
<1>2. /\ TaskOK(task, k, crtc, current) /\ task.c \in S!Consoles /\ k \in Con
      /\ k.start \in Nat
  BY <1>1, BusyFacts
<1>3. PICK v \in Nat : v = (k.start + WIDTH) % MOD
  BY <1>2, Sizes
<1>4. PICK t \in TaskType : task' = t /\ Fields(t, "moved", task.at, v, task.back)
  <2>1. Load("moved", v)
    BY <1>3 DEF DownBy
  <2> QED
    BY <1>1, <2>1, LoadFields
<1>5. PICK p : p = [k EXCEPT !.start = v]
  OBVIOUS
<1>6. ASSUME task.back = "loop" PROVE Shows(t, p)
  <2>1. Written(task, k) /\ Good(task.c, k) /\ ~(k.cursor < S!WindowEnd(k.start))
    BY <1>1, <1>2, <1>6 DEF TaskOK, ScrollOK, Written
  <2>2. v = k.start + WIDTH /\ k.start + SCREEN <= k.cursor
    BY <1>2, <1>3, <2>1, LineOnGood
  <2>3. Good(task.c, p) /\ p.cursor = k.cursor /\ p.start = k.start + WIDTH
    BY <1>2, <1>5, <2>1, <2>2, LineOnGood DEF Con
  <2>4. S!Follow(task.c, p) = S!Follow(task.c, k)
    BY <1>2, <2>1, <2>2, <2>3, LineOnFollows
  <2> QED
    BY <1>4, <1>6, <2>1, <2>3, <2>4 DEF Fields, Shows, Written
<1>7. ASSUME task.back # "loop" PROVE Shows(t, p)
  <2>1. task.back = "idle" /\ k = task.old /\ Good(task.c, k) /\ S!CanScroll(task.c, k.start)
    BY <1>1, <1>2, <1>7 DEF TaskOK, ScrollOK
  <2>2. k.start + SCREEN < S!End(task.c) + WIDTH /\ k.start + SCREEN < S!End(task.c)
    BY <1>2, <2>1, EndOfWindow DEF Good, S!CanScroll
  <2>3. v = k.start + WIDTH
    BY <1>2, <1>3, <2>2, Sizes
  <2>4. p = S!ScrollDown(task.c, k)
    BY <1>5, <2>1, <2>3 DEF S!ScrollDown
  <2> QED
    BY <1>4, <2>1, <2>4 DEF Fields, Shows
<1>8. Shows(t, p)
  BY <1>6, <1>7
<1>9. TaskOK(t, k, crtc, current)
  BY <1>1, <1>2, <1>4, <1>5, <1>8
     DEF Fields, TaskOK, OutOK, ScrollOK, FlushOK, OutPc, LoopPc, FlushPc, ShowPc
<1> QED
  BY <1>1, <1>4, <1>9, LocalStep DEF Fields

\* and upwards (199-203).
LEMMA UpStep ==
  ASSUME S!ScreenAssumption, IInv, task.c \notin spoilt, Up
  PROVE  Goes
<1>1. /\ task.pc = "up" /\ task.pc # "idle" /\ Local
      /\ Goto(IF k.start > S!Orig(task.c) THEN "up_by" ELSE "flush")
  BY DEF Up, c
<1>2. TaskOK(task, k, crtc, current)
  BY <1>1, BusyFacts
<1>3. PICK pc \in {"up_by", "flush"} : /\ pc = "up_by" <=> k.start > S!Orig(task.c)
                                       /\ pc \in BusyPc /\ Goto(pc)
  BY <1>1 DEF BusyPc, ScrollPc, FlushPc
<1>4. PICK t \in TaskType : task' = t /\ Fields(t, pc, task.at, 0, task.back)
  BY <1>1, <1>3, GotoFields
<1>5. TaskOK(t, k, crtc, current)
  BY <1>1, <1>2, <1>3, <1>4
     DEF Fields, Shows, TaskOK, OutOK, ScrollOK, FlushOK, OutPc, LoopPc, FlushPc, ShowPc
<1> QED
  BY <1>1, <1>3, <1>4, <1>5, LocalStep DEF Fields

LEMMA UpByStep ==
  ASSUME S!ScreenAssumption, IInv, task.c \notin spoilt, UpBy
  PROVE  Goes
<1>1. task.pc = "up_by" /\ task.pc # "idle" /\ Local /\ "moved" \in BusyPc
  BY DEF UpBy, BusyPc, ScrollPc
<1>2. /\ TaskOK(task, k, crtc, current) /\ task.c \in S!Consoles /\ k \in Con
      /\ k.start \in Nat
  BY <1>1, BusyFacts
<1>3. PICK v \in Nat : v = (k.start - WIDTH) % MOD
  BY <1>2, Sizes
<1>4. PICK t \in TaskType : task' = t /\ Fields(t, "moved", task.at, v, task.back)
  <2>1. Load("moved", v)
    BY <1>3 DEF UpBy
  <2> QED
    BY <1>1, <2>1, LoadFields
<1>5. task.back = "idle" /\ k = task.old /\ Good(task.c, k) /\ k.start > S!Orig(task.c)
  BY <1>1, <1>2 DEF TaskOK, ScrollOK
<1>6. S!ScrollUp(task.c, k) = [k EXCEPT !.start = k.start - WIDTH]
  BY <1>5 DEF S!ScrollUp
<1>7. k.start - WIDTH \in Nat
  <2>1. Good(task.c, [k EXCEPT !.start = k.start - WIDTH])
    BY <1>2, <1>5, <1>6, ScrollUpGood
  <2> QED
    BY <1>2, <2>1 DEF Good, Con
<1>8. v = k.start - WIDTH
  <2>1. k.start < MOD
    BY <1>2, <1>5, Sizes DEF Good
  <2> QED
    BY <1>2, <1>3, <1>7, <2>1, Sizes
<1>9. Shows(t, [k EXCEPT !.start = v])
  BY <1>4, <1>5, <1>6, <1>8 DEF Fields, Shows
<1>10. TaskOK(t, k, crtc, current)
  BY <1>1, <1>2, <1>4, <1>9
     DEF Fields, TaskOK, OutOK, ScrollOK, FlushOK, OutPc, LoopPc, FlushPc, ShowPc
<1> QED
  BY <1>1, <1>4, <1>10, LocalStep DEF Fields

LEMMA MovedStep ==
  ASSUME S!ScreenAssumption, IInv, task.c \notin spoilt, Moved
  PROVE  Goes
<1>1. /\ task.pc = "moved" /\ task.pc # "idle" /\ Changed /\ "flush" \in BusyPc
      /\ Goto("flush") /\ StoreStart(task.r)
  BY DEF Moved, BusyPc, FlushPc
<1>2. TaskOK(task, k, crtc, current) /\ task.r \in Nat
  BY <1>1, BusyFacts DEF TaskType
<1>3. PICK t \in TaskType : task' = t /\ Fields(t, "flush", task.at, 0, task.back)
  BY <1>1, GotoFields
<1>4. PICK q \in Con : q = [k EXCEPT !.start = task.r] /\ con' = [con EXCEPT ![task.c] = q]
  BY <1>1, <1>2, StartStored
<1>5. Shows(t, q)
  BY <1>1, <1>2, <1>3, <1>4 DEF Fields, Shows, Written, TaskOK, ScrollOK
<1>6. TaskOK(t, q, crtc, current)
  BY <1>1, <1>2, <1>3, <1>5 DEF Fields, TaskOK, OutOK, ScrollOK, FlushOK, OutPc, LoopPc, FlushPc, ShowPc
<1> QED
  BY <1>1, <1>3, <1>4, <1>6, ChangedStep DEF Fields

\* flush shows the record of the current console, in two accesses (136-142).
LEMMA FlushCursorStep ==
  ASSUME S!ScreenAssumption, IInv, task.c \notin spoilt, FlushCursor
  PROVE  Goes
<1>1. /\ task.pc = "flush_cursor" /\ task.pc # "idle" /\ "flush_load" \in BusyPc
      /\ Goto("flush_load") /\ con' = con /\ current' = current /\ spoilt' = spoilt
  BY DEF FlushCursor, BusyPc, FlushPc, ShowPc
<1>2. /\ TaskOK(task, k, crtc, current) /\ task.r \in Nat /\ task.c \in S!Consoles /\ k \in Con
      /\ crtc \in Con /\ con \in [S!Consoles -> Con]
  BY <1>1, BusyFacts DEF TaskType, IInv
<1>3. PICK t \in TaskType : task' = t /\ Fields(t, "flush_load", task.at, 0, task.back)
  BY <1>1, GotoFields
<1>4. PICK x : x = [crtc EXCEPT !.cursor = task.r] /\ crtc' = x
  BY DEF FlushCursor
<1>5. x \in Con /\ x.cursor = task.r
  BY <1>2, <1>4 DEF Con
<1>6. TaskOK(t, k, x, current) /\ task.c = current
  BY <1>1, <1>2, <1>3, <1>5
     DEF Fields, Shows, Written, TaskOK, OutOK, ScrollOK, FlushOK, OutPc, LoopPc, FlushPc, ShowPc
<1>7. con' = [con EXCEPT ![task.c] = k]
  BY <1>1, <1>2 DEF k, c
<1>8. t.pc # "idle" /\ t.c = task.c /\ t.old = task.old
  BY <1>3 DEF Fields
<1> QED
  BY <1>1, <1>2, <1>3, <1>4, <1>5, <1>6, <1>7, <1>8, InsideStep

LEMMA FlushLoadStartStep ==
  ASSUME S!ScreenAssumption, IInv, task.c \notin spoilt, FlushLoadStart
  PROVE  Goes
<1>1. task.pc = "flush_load" /\ task.pc # "idle" /\ Local /\ "flush_start" \in BusyPc
  BY DEF FlushLoadStart, BusyPc, FlushPc, ShowPc
<1>2. TaskOK(task, k, crtc, current) /\ k.start \in Nat
  BY <1>1, BusyFacts
<1>3. PICK t \in TaskType : task' = t /\ Fields(t, "flush_start", task.at, k.start, task.back)
  BY <1>1, <1>2, LoadFields DEF FlushLoadStart
<1>4. TaskOK(t, k, crtc, current)
  BY <1>1, <1>2, <1>3
     DEF Fields, Shows, Written, TaskOK, OutOK, ScrollOK, FlushOK, OutPc, LoopPc, FlushPc, ShowPc
<1> QED
  BY <1>1, <1>3, <1>4, LocalStep DEF Fields

\* The tasks flush returns to.
LEMMA IdleTask ==
  ASSUME S!ScreenAssumption
  PROVE  Nothing \in Con /\ Idle \in TaskType /\ Idle.pc = "idle"
<1>1. 0 \in S!Consoles
  BY DEF S!Consoles, S!ScreenAssumption
<1> QED
  BY <1>1 DEF Idle, Task, TaskType, Con, S!Char, Nothing

LEMMA NewTask ==
  ASSUME NEW pc \in {"enter", "up", "down", "flush"}, NEW d \in S!Consoles,
         NEW ch \in S!Char, NEW q \in Con, NEW back \in {"idle", "done"}
  PROVE  /\ Task(pc, d, ch, q, back) \in TaskType /\ Task(pc, d, ch, q, back).pc = pc
         /\ Task(pc, d, ch, q, back).c = d /\ Task(pc, d, ch, q, back).ch = ch
         /\ Task(pc, d, ch, q, back).old = q /\ Task(pc, d, ch, q, back).back = back
BY DEF Task, TaskType, BusyPc, OutPc, ScrollPc, FlushPc

LEMMA NewTaskOK ==
  ASSUME NEW t, t.pc \in {"enter", "up", "down", "flush"}, NEW q, t.old = q, Good(t.c, q),
         NEW x, NEW n, t.back \in {"idle", "done"}, t.pc = "enter" <=> t.back = "done",
         t.back = "idle" => t.c = n
  PROVE  TaskOK(t, q, x, n)
BY DEF Shows, TaskOK, OutOK, ScrollOK, FlushOK, OutPc, LoopPc, FlushPc, ShowPc

\* The console as Screen has it while task_tty works on it.
LEMMA OldShown ==
  ASSUME IInv, task.pc # "idle", task.c \notin spoilt
  PROVE  /\ task.c \in S!Consoles /\ ShownCon[task.c] = task.old
         /\ ShownCon = [ShownCon EXCEPT ![task.c] = task.old]
         /\ task.c = current => ShownCrtc = task.old
<1>1. task.c \in 0 .. NR - 1 /\ task.c \in S!Consoles
  BY BusyType DEF S!Consoles
<1>2. ShownCon[task.c] = task.old
  BY <1>1 DEF ShownCon, Before, Busy
<1>3. ShownCon = [ShownCon EXCEPT ![task.c] = task.old]
  BY <1>1, <1>2 DEF ShownCon
<1> QED
  BY <1>1, <1>2, <1>3 DEF ShownCrtc, Before, Busy

\* flush returns: to the loop, or the operation is done.
LEMMA ReturnStep ==
  ASSUME S!ScreenAssumption, IInv, task.pc \in FlushPc, task.c \notin spoilt,
         con' = con, current' = current, spoilt' = spoilt,
         Return(task.back), crtc' = IF task.c = current THEN k ELSE crtc
  PROVE  Goes
<1>1. task.pc # "idle"
  BY DEF FlushPc, ShowPc
<1>2. /\ TaskOK(task, k, crtc, current) /\ task.c \in S!Consoles /\ k \in Con
      /\ crtc \in Con /\ con \in [S!Consoles -> Con] /\ task \in TaskType
      /\ con[task.c] = k
  BY <1>1, BusyFacts DEF IInv, k, c
<1>3. Shows(task, k) /\ Good(task.c, task.old)
  BY <1>2 DEF TaskOK, FlushOK
<1>4. PICK x \in Con : crtc' = x /\ x = IF task.c = current THEN k ELSE crtc
  BY <1>2
<1>5. CASE task.back = "loop"
  <2>1. PICK t \in TaskType : task' = t /\ Fields(t, "loop", task.at, 0, task.back)
    <3>1. task' = [task EXCEPT !.pc = "loop", !.r = 0]
      BY <1>5 DEF Return
    <3>2. "loop" \in BusyPc /\ 0 \in Nat
      BY DEF BusyPc, LoopPc
    <3> QED
      BY <1>1, <3>1, <3>2, ReadFields
  <2>2. Written(task, k)
    BY <1>3, <1>5 DEF Shows
  <2>3. TaskOK(t, k, x, current)
    BY <1>3, <1>5, <2>1, <2>2, WrittenOK DEF Fields, Written, OutPc
  <2>4. con' = [con EXCEPT ![task.c] = k]
    BY <1>2
  <2>5. t.pc # "idle" /\ t.c = task.c /\ t.old = task.old
    BY <2>1 DEF Fields
  <2> QED
    BY <1>1, <1>2, <1>4, <2>1, <2>3, <2>4, <2>5, InsideStep
<1>6. CASE task.back = "done"
  <2>1. k = S!OutChar(task.c, task.old, task.ch) /\ Good(task.c, k)
    BY <1>2, <1>3, <1>6, OutCharGood DEF Shows
  <2>2. PICK t \in TaskType : /\ task' = t
                              /\ \/ t.pc = "idle"
                                 \/ t.c = task.c /\ t.old = k /\ TaskOK(t, k, crtc', current)
    <3>1. task' = Idle \/ task' = Task("enter", task.c, "char", k, "done")
      BY <1>6 DEF Return, c
    <3>2. "char" \in S!Char
      BY DEF S!Char
    <3>3. PICK t : t = Task("enter", task.c, "char", k, "done")
      OBVIOUS
    <3>4. t \in TaskType /\ t.pc = "enter" /\ t.c = task.c /\ t.old = k /\ t.back = "done"
      BY <1>2, <3>2, <3>3, NewTask
    <3>5. TaskOK(t, k, crtc', current)
      BY <2>1, <3>4, NewTaskOK
    <3> QED
      BY <3>1, <3>3, <3>4, <3>5, IdleTask
  <2>3. IInv' /\ S!Change(task.c, k)
    BY <1>1, <1>2, <2>1, <2>2, EndStep
  <2>4. S!Output(task.c, task.ch)
    BY <1>1, <2>1, <2>3, OldShown DEF S!Output
  <2>5. task.ch \in S!Char
    BY <1>2 DEF TaskType
  <2> QED
    BY <1>2, <2>3, <2>4, <2>5 DEF Goes, Simulates, S!Next
<1>7. CASE task.back = "idle"
  <2>1. /\ k = task.old \/ k = S!ScrollUp(task.c, task.old) \/ k = S!ScrollDown(task.c, task.old)
        /\ task.c = current
    BY <1>2, <1>3, <1>7 DEF Shows, TaskOK, FlushOK
  <2>2. Good(task.c, k)
    BY <1>2, <1>3, <2>1, ScrollUpGood, ScrollDownGood
  <2>3. task' = Idle
    BY <1>7 DEF Return
  <2>4. IInv' /\ S!Change(task.c, k)
    BY <1>1, <1>2, <2>2, <2>3, IdleTask, EndStep
  <2>5. CASE k = task.old
    BY <1>1, <2>1, <2>4, <2>5, OldShown DEF S!Change, S!Flush, S!vars, Goes, Simulates
  <2>6. CASE k # task.old
    <3>1. S!Scroll
      BY <1>1, <2>1, <2>4, <2>6, OldShown DEF S!Scroll
    <3> QED
      BY <2>4, <3>1 DEF Goes, Simulates, S!Next
  <2> QED
    BY <2>5, <2>6
<1> QED
  BY <1>2, <1>5, <1>6, <1>7 DEF TaskType

LEMMA FlushLoadStep ==
  ASSUME S!ScreenAssumption, IInv, task.c \notin spoilt, FlushLoad
  PROVE  Goes
<1>1. task.pc = "flush" /\ task.pc # "idle" /\ Local /\ "flush_cursor" \in BusyPc
  BY DEF FlushLoad, BusyPc, FlushPc, ShowPc
<1>2. TaskOK(task, k, crtc, current) /\ k.cursor \in Nat
  BY <1>1, BusyFacts
<1>3. CASE task.c = current
  <2>1. PICK t \in TaskType : task' = t /\ Fields(t, "flush_cursor", task.at, k.cursor, task.back)
    BY <1>1, <1>2, <1>3, LoadFields DEF FlushLoad, c
  <2>2. TaskOK(t, k, crtc, current)
    BY <1>1, <1>2, <1>3, <2>1
       DEF Fields, Shows, Written, TaskOK, OutOK, ScrollOK, FlushOK, OutPc, LoopPc, FlushPc, ShowPc
  <2> QED
    BY <1>1, <2>1, <2>2, LocalStep DEF Fields
<1>4. CASE task.c # current
  <2>1. Return(task.back)
    BY <1>4 DEF FlushLoad, c
  <2> QED
    BY <1>1, <1>4, <2>1, ReturnStep DEF Local, FlushPc
<1> QED
  BY <1>3, <1>4

LEMMA FlushStartStep ==
  ASSUME S!ScreenAssumption, IInv, task.c \notin spoilt, FlushStart
  PROVE  Goes
<1>1. /\ task.pc = "flush_start" /\ task.pc # "idle" /\ Return(task.back)
      /\ con' = con /\ current' = current /\ spoilt' = spoilt
  BY DEF FlushStart
<1>2. TaskOK(task, k, crtc, current) /\ k \in Con /\ crtc \in Con
  BY <1>1, BusyFacts DEF IInv
<1>3. task.c = current /\ crtc.cursor = k.cursor /\ task.r = k.start
  BY <1>1, <1>2 DEF TaskOK, FlushOK, FlushPc, ShowPc
<1>4. crtc' = [crtc EXCEPT !.start = k.start]
  BY <1>3 DEF FlushStart
<1>5. crtc' = k
  BY <1>2, <1>3, <1>4 DEF Con
<1> QED
  BY <1>1, <1>3, <1>5, ReturnStep DEF FlushPc, ShowPc

LEMMA UnspoiltStep ==
  ASSUME S!ScreenAssumption, IInv, task.c \notin spoilt, TaskStep
  PROVE  Goes
<1>1. ASSUME OutCharStep PROVE Goes
  BY <1>1, AddressStep, TestFullStep, ToTopStep, ToTopStartStep, ClearStep, AddressAgainStep,
     SwitchStep, LineStep, LineSetStep, LineTopStep, LineStartStep, BackStep, BackSetStep,
     CharLoadStep, CharSetStep, LoopStep, LoopTestStep, Zenon DEF OutCharStep
<1>2. ASSUME ScrollStep PROVE Goes
  BY <1>2, DownStep, DownByStep, UpStep, UpByStep, MovedStep, Zenon DEF ScrollStep
<1>3. ASSUME FlushStep PROVE Goes
  BY <1>3, FlushLoadStep, FlushCursorStep, FlushLoadStartStep, FlushStartStep, Zenon
     DEF FlushStep
<1> QED
  BY <1>1, <1>2, <1>3, Zenon DEF TaskStep

----------------------------------------------------------------------------
(* Steps of task_tty on a spoilt console *)

LEMMA SpoiltStep ==
  ASSUME IInv, task.pc # "idle", task.c \in spoilt, current' = current, spoilt' = spoilt,
         NEW q \in Con, con' = [con EXCEPT ![task.c] = q],
         NEW x \in Con, crtc' = x, task.c # current => x = crtc,
         NEW t \in TaskType, task' = t, t.pc = "idle" \/ t.c = task.c,
         t.pc \in ShowPc => t.c = current
  PROVE  Goes
<1>1. /\ task.c \in S!Consoles /\ con \in [S!Consoles -> Con] /\ current \in S!Consoles
      /\ spoilt \subseteq S!Consoles
  BY DEF IInv, TaskType
<1>2. con' \in [S!Consoles -> Con]
  BY <1>1
<1>3. ASSUME NEW d \in S!Consoles, d # task.c
      PROVE  con'[d] = con[d] /\ ~Busy(d) /\ ~Busy(d)'
  <2>1. con'[d] = con[d]
    BY <1>1, <1>3
  <2>2. ~Busy(d) /\ ~Busy(d)'
    BY <1>3 DEF Busy
  <2> QED
    BY <2>1, <2>2
<1>4. ASSUME NEW d \in S!Consoles \ spoilt PROVE Good(d, con'[d])
  BY <1>3, <1>4 DEF IInv
<1>5. current \in spoilt \/ x = con'[current]
  BY <1>1, <1>3 DEF IInv
<1>6. t.pc # "idle" => t.c \in spoilt
  OBVIOUS
<1>7. IInv'
  BY <1>1, <1>2, <1>4, <1>5, <1>6 DEF IInv
<1>8. ASSUME NEW d \in S!Consoles PROVE ~Before(d) /\ ~Before(d)'
  BY <1>3, <1>8 DEF Before, Busy
<1>9. ShownCon = con /\ ShownCon' = con'
  <2>1. ShownCon = [d \in S!Consoles |-> con[d]]
    BY <1>8 DEF ShownCon, S!Consoles
  <2>2. ASSUME NEW d \in 0 .. NR - 1
        PROVE (IF Before(d)' THEN task'.old ELSE con'[d]) = con'[d]
    BY <1>8 DEF S!Consoles
  <2>3. ShownCon' = [d \in S!Consoles |-> con'[d]]
    BY <2>2 DEF ShownCon, Before, Busy, S!Consoles
  <2> QED
    BY <1>1, <1>2, <2>1, <2>3
<1>10. ShownCrtc = crtc /\ ShownCrtc' = crtc'
  BY <1>1, <1>8 DEF ShownCrtc, Before, Busy
<1>11. con' = [con EXCEPT ![task.c] = con'[task.c]] /\ spoilt \cup {task.c} = spoilt
  BY <1>1
<1>12. S!Disturbed(task.c)
  BY <1>9, <1>10, <1>11 DEF S!Disturbed
<1> QED
  BY <1>1, <1>7, <1>12 DEF Goes, Simulates, S!Next

\* Task_tty has gone on to pc.
Moves(pc) == \E t \in TaskType : task' = t /\ t.pc = pc /\ t.c = task.c

LEMMA GoesOn ==
  ASSUME IInv, task.pc # "idle", NEW pc \in BusyPc
  PROVE  /\ Goto(pc) => Moves(pc)
         /\ Out => Moves("loop")
         /\ \A v \in Nat : /\ Load(pc, v) => Moves(pc)
                           /\ task' = [task EXCEPT !.pc = pc, !.at = v] => Moves(pc)
         /\ \A v \in {"idle", "done", "loop"} :
              task' = [task EXCEPT !.pc = pc, !.r = 0, !.back = v] => Moves(pc)
<1>1. Goto(pc) => Moves(pc)
  BY GotoFields DEF Fields, Moves
<1>2. Out => Moves("loop")
  BY OutFields DEF Fields, Moves
<1>3. ASSUME NEW v \in Nat, Load(pc, v) PROVE Moves(pc)
  BY <1>3, LoadFields DEF Fields, Moves
<1>4. ASSUME NEW v \in Nat, task' = [task EXCEPT !.pc = pc, !.at = v] PROVE Moves(pc)
  <2>1. \E t \in TaskType : task' = t /\ Fields(t, pc, v, task.r, task.back)
    BY <1>4, AtFields, Zenon
  <2> QED
    BY <2>1 DEF Fields, Moves
<1>5. ASSUME NEW v \in {"idle", "done", "loop"},
             task' = [task EXCEPT !.pc = pc, !.r = 0, !.back = v]
      PROVE  Moves(pc)
  <2>1. \E t \in TaskType : task' = t /\ Fields(t, pc, task.at, 0, v)
    BY <1>5, BackFields, Zenon
  <2> QED
    BY <2>1 DEF Fields, Moves
<1> QED
  BY <1>1, <1>2, <1>3, <1>4, <1>5

\* The record is read, or it is changed.
LEMMA SpoiltLocal ==
  ASSUME IInv, task.pc # "idle", task.c \in spoilt, Local,
         NEW pc, pc \in ShowPc => task.c = current, Moves(pc)
  PROVE  Goes
<1>1. task.c \in S!Consoles /\ con \in [S!Consoles -> Con] /\ crtc \in Con
  BY DEF IInv, TaskType
<1>2. con[task.c] \in Con /\ con = [con EXCEPT ![task.c] = con[task.c]]
  BY <1>1
<1>3. con' = con /\ current' = current /\ crtc' = crtc /\ spoilt' = spoilt
  BY DEF Local
<1>4. PICK t \in TaskType : task' = t /\ t.pc = pc /\ t.c = task.c
  BY DEF Moves
<1> QED
  BY <1>1, <1>2, <1>3, <1>4, SpoiltStep

LEMMA SpoiltChanged ==
  ASSUME IInv, task.pc # "idle", task.c \in spoilt, Changed,
         NEW v \in Nat, StoreCursor(v) \/ StoreStart(v),
         NEW pc, pc \notin ShowPc, Moves(pc)
  PROVE  Goes
<1>1. crtc \in Con
  BY DEF IInv
<1>2. PICK q \in Con : con' = [con EXCEPT ![task.c] = q]
  BY CursorStored, StartStored
<1>3. current' = current /\ crtc' = crtc /\ spoilt' = spoilt
  BY DEF Changed
<1>4. PICK t \in TaskType : task' = t /\ t.pc = pc /\ t.c = task.c
  BY DEF Moves
<1> QED
  BY <1>1, <1>2, <1>3, <1>4, SpoiltStep

LEMMA SpoiltOutChar ==
  ASSUME S!ScreenAssumption, IInv, task.c \in spoilt, OutCharStep
  PROVE  Goes
<1>1. ASSUME task.pc # "idle"
      PROVE  /\ task.c \in S!Consoles /\ k.cursor \in Nat /\ task.r \in Nat
             /\ S!Orig(task.c) \in Nat
             /\ S!NextLine(task.c, k.cursor) \in Nat /\ (k.cursor - 1) % MOD \in Nat
             /\ (k.cursor + 1) % MOD \in Nat
  <2>1. PICK u \in Nat : u = k.cursor
    BY <1>1, BusyType
  <2>2. /\ task.c \in S!Consoles /\ task.r \in Nat /\ S!Orig(task.c) \in Nat
        /\ MOD \in Nat /\ MOD >= 1 /\ WIDTH \in Nat /\ WIDTH >= 1
    BY <1>1, BusyType, Sizes DEF TaskType
  <2>3. (u - 1) % MOD \in Nat /\ (u + 1) % MOD \in Nat /\ (u - S!Orig(task.c)) % MOD \in Nat
    BY <2>2
  <2>4. PICK f \in Nat : f = ((u - S!Orig(task.c)) % MOD) \div WIDTH
    BY <2>2, <2>3, Division
  <2>5. PICK z \in Nat : z = S!Orig(task.c) + WIDTH * (f + 1)
    BY <2>2, Products
  <2>6. S!NextLine(task.c, k.cursor) = z % MOD /\ z % MOD \in Nat
    BY <2>1, <2>2, <2>4, <2>5 DEF S!NextLine
  <2> QED
    BY <2>1, <2>2, <2>3, <2>6
<1> DEFINE Pcs == OutPc \cup LoopPc \cup {"down", "flush"}
<1>2. ASSUME NEW pc \in Pcs PROVE pc \in BusyPc /\ pc \notin ShowPc
  BY <1>2 DEF BusyPc, OutPc, LoopPc, ScrollPc, FlushPc, ShowPc
<1>3. ASSUME task.pc # "idle", Local, NEW pc \in Pcs, Goto(pc) PROVE Goes
  BY <1>2, <1>3, GoesOn, SpoiltLocal
<1>4. ASSUME task.pc # "idle", Local, Out PROVE Goes
  <2>1. "loop" \in Pcs
    BY DEF LoopPc
  <2> QED
    BY <1>2, <1>4, <2>1, GoesOn, SpoiltLocal
<1>5. ASSUME task.pc # "idle", Local, NEW pc \in Pcs, NEW v \in Nat, Load(pc, v) PROVE Goes
  BY <1>2, <1>5, GoesOn, SpoiltLocal
<1>6. ASSUME task.pc # "idle", Changed, NEW v \in Nat, StoreCursor(v) \/ StoreStart(v),
             NEW pc \in Pcs, Goto(pc) \/ (pc = "loop" /\ Out)
      PROVE  Goes
  BY <1>2, <1>6, GoesOn, SpoiltChanged
<1>7. /\ "full" \in Pcs /\ "top" \in Pcs /\ "switch" \in Pcs /\ "top_start" \in Pcs
      /\ "clear" \in Pcs /\ "top_again" \in Pcs /\ "line" \in Pcs /\ "line_top" \in Pcs
      /\ "back" \in Pcs /\ "char" \in Pcs /\ "line_set" \in Pcs /\ "line_start" \in Pcs
      /\ "back_set" \in Pcs /\ "char_set" \in Pcs /\ "loop" \in Pcs /\ "loop_test" \in Pcs
      /\ "down" \in Pcs /\ "flush" \in Pcs
  BY DEF OutPc, LoopPc
<1> HIDE DEF Pcs
<1>8. ASSUME Address \/ AddressAgain PROVE Goes
  <2>1. PICK pc \in Pcs : /\ task.pc # "idle" /\ Local
                          /\ task' = [task EXCEPT !.pc = pc, !.at = k.cursor]
    BY <1>7, <1>8 DEF Address, AddressAgain
  <2> QED
    BY <1>1, <1>2, <2>1, GoesOn, SpoiltLocal
<1>9. ASSUME TestFull \/ Clear PROVE Goes
  <2>1. TestFull => Goto("top") \/ Goto("switch")
    BY DEF TestFull
  <2>2. Clear => Goto("top_again")
    BY DEF Clear
  <2> QED
    BY <1>3, <1>7, <1>9, <2>1, <2>2 DEF TestFull, Clear
<1>10. ASSUME Switch PROVE Goes
  <2>1. PICK pc \in Pcs : task.pc # "idle" /\ Local /\ (Goto(pc) \/ Out)
    BY <1>7, <1>10 DEF Switch
  <2> QED
    BY <1>3, <1>4, <2>1
<1>11. ASSUME Line \/ Back \/ CharLoad \/ Loop PROVE Goes
  <2>1. ASSUME Line PROVE Goes
    BY <1>1, <1>5, <1>7, <2>1 DEF Line, c
  <2>2. ASSUME Back PROVE Goes
    BY <1>1, <1>5, <1>7, <2>2 DEF Back
  <2>3. ASSUME CharLoad PROVE Goes
    BY <1>1, <1>5, <1>7, <2>3 DEF CharLoad
  <2>4. ASSUME Loop PROVE Goes
    BY <1>1, <1>5, <1>7, <2>4 DEF Loop
  <2> QED
    BY <1>11, <2>1, <2>2, <2>3, <2>4
<1>12. ASSUME LineSet \/ BackSet \/ CharSet PROVE Goes
  <2>1. task.pc # "idle" /\ Changed /\ StoreCursor(task.r) /\ Out
    BY <1>12 DEF LineSet, BackSet, CharSet
  <2> QED
    BY <1>1, <1>6, <1>7, <2>1
<1>13. ASSUME ToTop \/ ToTopStart \/ LineTop PROVE Goes
  <2>1. PICK pc \in Pcs : /\ task.pc # "idle" /\ Changed /\ Goto(pc)
                          /\ StoreCursor(S!Orig(task.c)) \/ StoreStart(S!Orig(task.c))
    BY <1>7, <1>13 DEF ToTop, ToTopStart, LineTop, c
  <2> QED
    BY <1>1, <1>6, <2>1
<1>14. ASSUME LineStart PROVE Goes
  <2>1. task.pc # "idle" /\ Changed /\ Out /\ StoreStart(S!Orig(task.c))
    BY <1>14 DEF LineStart, c
  <2> QED
    BY <1>1, <1>6, <1>7, <2>1
<1>15. ASSUME LoopTest PROVE Goes
  <2>1. PICK pc \in Pcs : \E v \in {"idle", "done", "loop"} :
          /\ task.pc # "idle" /\ Local
          /\ task' = [task EXCEPT !.pc = pc, !.r = 0, !.back = v]
    BY <1>7, <1>15 DEF LoopTest
  <2> QED
    BY <1>2, <2>1, GoesOn, SpoiltLocal
<1> QED
  BY <1>8, <1>9, <1>10, <1>11, <1>12, <1>13, <1>14, <1>15, Zenon DEF OutCharStep

LEMMA SpoiltScroll ==
  ASSUME S!ScreenAssumption, IInv, task.c \in spoilt, ScrollStep
  PROVE  Goes
<1>1. task.pc # "idle"
  BY DEF ScrollStep, Down, DownBy, Up, UpBy, Moved
<1>2. /\ task.r \in Nat /\ (k.start + WIDTH) % MOD \in Nat /\ (k.start - WIDTH) % MOD \in Nat
  <2>1. PICK s \in Nat : s = k.start
    BY <1>1, BusyType
  <2>2. task.r \in Nat /\ MOD \in Nat /\ MOD >= 1 /\ WIDTH \in Nat
    BY <1>1, BusyType, Sizes DEF TaskType
  <2> QED
    BY <2>1, <2>2
<1>3. ASSUME NEW pc \in {"down_by", "up_by", "moved", "flush"} PROVE pc \in BusyPc /\ pc \notin ShowPc
  BY <1>3 DEF BusyPc, ScrollPc, FlushPc, ShowPc
<1>4. ASSUME Down \/ Up PROVE Goes
  <2>1. PICK pc \in {"down_by", "up_by", "flush"} : Local /\ Goto(pc)
    BY <1>4 DEF Down, Up
  <2> QED
    BY <1>1, <1>3, <2>1, GoesOn, SpoiltLocal
<1>5. ASSUME DownBy \/ UpBy PROVE Goes
  <2>1. PICK v \in Nat : Local /\ Load("moved", v)
    BY <1>2, <1>5 DEF DownBy, UpBy
  <2> QED
    BY <1>1, <1>3, <2>1, GoesOn, SpoiltLocal
<1>6. ASSUME Moved PROVE Goes
  BY <1>1, <1>2, <1>3, <1>6, GoesOn, SpoiltChanged DEF Moved
<1> QED
  BY <1>4, <1>5, <1>6, Zenon DEF ScrollStep

LEMMA SpoiltFlush ==
  ASSUME S!ScreenAssumption, IInv, task.c \in spoilt, FlushStep
  PROVE  Goes
<1>1. task.pc # "idle"
  BY DEF FlushStep, FlushLoad, FlushCursor, FlushLoadStart, FlushStart
<1>2. /\ task \in TaskType /\ task.c \in S!Consoles /\ k \in Con /\ k.cursor \in Nat
      /\ k.start \in Nat /\ con \in [S!Consoles -> Con] /\ crtc \in Con /\ k = con[task.c]
      /\ task.r \in Nat /\ task.back \in {"idle", "done", "loop"}
  BY <1>1, BusyType DEF IInv, k, c, TaskType
<1>3. con = [con EXCEPT ![task.c] = k]
  BY <1>2
<1>4. "flush_cursor" \in BusyPc /\ "flush_load" \in BusyPc /\ "flush_start" \in BusyPc
  BY DEF BusyPc, FlushPc, ShowPc
<1>5. ASSUME Return(task.back)
      PROVE  \E t \in TaskType : /\ task' = t /\ t.pc \notin ShowPc
                                 /\ t.pc = "idle" \/ t.c = task.c
  <2>1. \/ task' = Idle
        \/ task' = Task("enter", task.c, "char", Nothing, "done")
        \/ task' = [task EXCEPT !.pc = "loop", !.r = 0]
    BY <1>2, <1>5 DEF Return, c
  <2>2. ASSUME task' = [task EXCEPT !.pc = "loop", !.r = 0] PROVE Moves("loop")
    BY <1>1, <2>2, GoesOn DEF Load, BusyPc, LoopPc
  <2>3. "char" \in S!Char
    BY DEF S!Char
  <2>4. PICK u : u = Task("enter", task.c, "char", Nothing, "done")
    OBVIOUS
  <2>5. u \in TaskType /\ u.pc = "enter" /\ u.c = task.c
    BY <1>2, <2>3, <2>4, IdleTask, NewTask
  <2> QED
    BY <2>1, <2>2, <2>4, <2>5, IdleTask DEF Moves, ShowPc
<1>6. ASSUME FlushLoad PROVE Goes
  <2>1. CASE task.c = current
    BY <1>1, <1>2, <1>4, <1>6, <2>1, GoesOn, SpoiltLocal DEF FlushLoad, c
  <2>2. CASE task.c # current
    <3>1. Return(task.back) /\ Local
      BY <1>6, <2>2 DEF FlushLoad, c
    <3>2. con' = con /\ current' = current /\ crtc' = crtc /\ spoilt' = spoilt
      BY <3>1 DEF Local
    <3> QED
      BY <1>1, <1>2, <1>3, <1>5, <3>1, <3>2, SpoiltStep
  <2> QED
    BY <2>1, <2>2
<1>7. ASSUME FlushCursor PROVE Goes
  <2>1. PICK x : x = [crtc EXCEPT !.cursor = task.r] /\ crtc' = x
    BY <1>7 DEF FlushCursor
  <2>2. x \in Con
    BY <1>2, <2>1 DEF Con
  <2>3. con' = con /\ current' = current /\ spoilt' = spoilt /\ task.c = current
    BY <1>7 DEF FlushCursor, IInv, ShowPc
  <2>4. PICK t \in TaskType : task' = t /\ t.pc = "flush_load" /\ t.c = task.c
    BY <1>1, <1>4, <1>7, GoesOn DEF FlushCursor, Moves
  <2> QED
    BY <1>1, <1>2, <1>3, <2>1, <2>2, <2>3, <2>4, SpoiltStep
<1>8. ASSUME FlushLoadStart PROVE Goes
  <2>1. Moves("flush_start") /\ Local /\ task.c = current
    BY <1>1, <1>2, <1>4, <1>8, GoesOn DEF FlushLoadStart, IInv, ShowPc
  <2> QED
    BY <1>1, <2>1, SpoiltLocal
<1>9. ASSUME FlushStart PROVE Goes
  <2>1. PICK x : x = [crtc EXCEPT !.start = task.r] /\ crtc' = x
    BY <1>9 DEF FlushStart
  <2>2. x \in Con
    BY <1>2, <2>1 DEF Con
  <2>3. con' = con /\ current' = current /\ spoilt' = spoilt /\ task.c = current
    BY <1>9 DEF FlushStart, IInv, ShowPc
  <2>4. PICK t \in TaskType : /\ task' = t /\ t.pc \notin ShowPc
                              /\ t.pc = "idle" \/ t.c = task.c
    BY <1>5, <1>9 DEF FlushStart
  <2> QED
    BY <1>1, <1>2, <1>3, <2>1, <2>2, <2>3, <2>4, SpoiltStep
<1> QED
  BY <1>6, <1>7, <1>8, <1>9, Zenon DEF FlushStep

LEMMA TaskStepGoes == ASSUME S!ScreenAssumption, IInv, TaskStep PROVE Goes
<1>1. CASE task.c \notin spoilt
  BY <1>1, UnspoiltStep
<1>2. CASE task.c \in spoilt
  BY <1>2, SpoiltOutChar, SpoiltScroll, SpoiltFlush, Zenon DEF TaskStep
<1> QED
  BY <1>1, <1>2

----------------------------------------------------------------------------
(* The beginning of an operation *)

\* A console with a whole record is good, and the other way about.
LEMMA WholeGood ==
  ASSUME S!ScreenAssumption, NEW d \in S!Consoles, NEW q \in Con
  PROVE  S!Whole(d, q) <=> Good(d, q)
<1>1. S!Whole(d, q) => Good(d, q)
  <2> SUFFICES ASSUME S!Whole(d, q) PROVE Good(d, q)
    OBVIOUS
  <2>1. PICK j \in 0 .. LIMIT : q.start = S!Orig(d) + WIDTH * j
    BY DEF S!Whole
  <2>2. j \in Nat /\ WIDTH * j \in Nat
    BY <2>1, Sizes, Products
  <2>3. S!Orig(d) <= q.cursor /\ q.cursor < S!End(d)
    BY Sizes DEF S!Whole, S!Cells, Con
  <2>4. S!Orig(d) <= q.start /\ q.start + SCREEN < S!End(d) + WIDTH
    BY <2>1, <2>2, Sizes DEF S!Whole
  <2> QED
    BY <2>1, <2>2, <2>3, <2>4 DEF Good
<1>2. Good(d, q) => S!Whole(d, q)
  <2> SUFFICES ASSUME Good(d, q) PROVE S!Whole(d, q)
    OBVIOUS
  <2>1. PICK j \in Nat : q.start = S!Orig(d) + WIDTH * j
    BY DEF Good
  <2>2. WIDTH * j \in Nat /\ j <= WIDTH * j
    BY Sizes, Products
  <2>3. WIDTH * j <= LIMIT
    BY <2>1, <2>2, Sizes DEF Good
  <2>4. j \in 0 .. LIMIT
    BY <2>2, <2>3, Sizes
  <2>5. q.cursor \in S!Cells(d)
    BY Sizes DEF Good, Con, S!Cells
  <2> QED
    BY <2>1, <2>4, <2>5 DEF Good, S!Whole
<1> QED
  BY <1>1, <1>2

\* What is found of record q of console d, if it is good unless d is spoilt.
LEMMA Found ==
  ASSUME S!ScreenAssumption, spoilt \subseteq S!Consoles, NEW d \in S!Consoles, NEW q \in Con,
         Finds(d, q), d \in spoilt \/ Good(d, q)
  PROVE  spoilt' \in {spoilt, spoilt \ {d}} /\ (d \notin spoilt' => Good(d, q))
<1>1. spoilt' = spoilt \/ (spoilt' = spoilt \ {d} /\ Good(d, q))
  BY WholeGood DEF Finds
<1> QED
  BY <1>1

\* task_tty begins an operation on console d, while n is, or becomes, the current one.
LEMMA BeginStep ==
  ASSUME IInv, task.pc = "idle", con' = con, crtc' = crtc, NEW d \in S!Consoles,
         NEW n \in S!Consoles, current' = n, n = current \/ n = d,
         spoilt' \in {spoilt, spoilt \ {d}},
         NEW t \in TaskType, task' = t, t.pc # "idle", t.pc \notin ShowPc, t.c = d,
         d \notin spoilt' => t.old = con[d] /\ TaskOK(t, con[d], crtc, n)
  PROVE  /\ IInv' /\ ShownCon = con /\ ShownCon' = con
         /\ ShownCrtc = crtc /\ ShownCrtc' = IF n = d /\ d \notin spoilt' THEN con[d] ELSE crtc
<1>1. /\ con \in [S!Consoles -> Con] /\ current \in S!Consoles /\ spoilt \subseteq S!Consoles
      /\ current \in spoilt \/ crtc = con[current]
  BY DEF IInv, Busy
<1>2. ASSUME NEW e \in S!Consoles \ spoilt' PROVE Busy(e)' \/ Good(e, con'[e])
  <2>1. CASE e = d
    BY <2>1 DEF Busy
  <2>2. CASE e # d
    BY <1>1, <2>2 DEF IInv, Busy
  <2> QED
    BY <2>1, <2>2
<1>3. Busy(n)' \/ n \in spoilt' \/ crtc = con[n]
  BY <1>1 DEF Busy
<1>4. IInv'
  BY <1>1, <1>2, <1>3 DEF IInv
<1>5. ShownCon = con /\ ShownCrtc = crtc
  BY <1>1 DEF ShownCon, ShownCrtc, Before, Busy, S!Consoles
<1>6. ShownCon' = con
  <2>1. ASSUME NEW e \in 0 .. NR - 1 PROVE (IF Before(e)' THEN task'.old ELSE con'[e]) = con[e]
    BY DEF Before, Busy
  <2> QED
    BY <1>1, <2>1 DEF ShownCon, Before, Busy, S!Consoles
<1>7. ShownCrtc' = IF n = d /\ d \notin spoilt' THEN con[d] ELSE crtc
  BY DEF ShownCrtc, Before, Busy
<1> QED
  BY <1>4, <1>5, <1>6, <1>7

LEMMA BeginGoes ==
  ASSUME S!ScreenAssumption, IInv, NEW pc \in {"enter", "up", "down", "flush"},
         NEW d \in S!Consoles, NEW ch \in S!Char, NEW back \in {"idle", "done"},
         Begin(pc, d, ch, back), con' = con, crtc' = crtc,
         NEW n \in S!Consoles, current' = n, n = current \/ n = d,
         pc = "enter" <=> back = "done", back = "idle" => d = n
  PROVE  Goes
<1>1. /\ task.pc = "idle" /\ con \in [S!Consoles -> Con] /\ current \in S!Consoles
      /\ spoilt \subseteq S!Consoles /\ con[d] \in Con
      /\ current \in spoilt \/ crtc = con[current]
      /\ d \in spoilt \/ Good(d, con[d])
  BY DEF Begin, IInv, Busy
<1>2. spoilt' \in {spoilt, spoilt \ {d}} /\ (d \notin spoilt' => Good(d, con[d]))
  BY <1>1, Found DEF Begin
<1>3. PICK o \in Con : o = IF d \in spoilt' THEN Nothing ELSE con[d]
  BY <1>1, IdleTask
<1>4. PICK t : t = Task(pc, d, ch, o, back) /\ task' = t
  BY <1>3 DEF Begin
<1>5. t \in TaskType /\ t.pc = pc /\ t.c = d /\ t.old = o /\ t.back = back
  BY <1>3, <1>4, NewTask
<1>6. d \notin spoilt' => t.old = con[d] /\ TaskOK(t, con[d], crtc, n)
  BY <1>2, <1>3, <1>5, NewTaskOK
<1>7. t.pc # "idle" /\ t.pc \notin ShowPc
  BY <1>5 DEF ShowPc
<1>8. /\ IInv' /\ ShownCon = con /\ ShownCon' = con
      /\ ShownCrtc = crtc /\ ShownCrtc' = IF n = d /\ d \notin spoilt' THEN con[d] ELSE crtc
  BY <1>1, <1>2, <1>4, <1>5, <1>6, <1>7, BeginStep
<1>9. con = [con EXCEPT ![d] = con[d]]
  BY <1>1
<1>10. CASE d \in spoilt
  <2>1. spoilt' \in {spoilt \cup {d}, spoilt \ {d}}
    BY <1>2, <1>10
  <2>2. d \notin spoilt' => S!Whole(d, con[d])
    BY <1>1, <1>2, WholeGood
  <2>3. S!Disturbed(d)
    BY <1>8, <1>9, <1>10, <2>1, <2>2 DEF S!Disturbed
  <2> QED
    BY <1>8, <2>3 DEF Goes, Simulates, S!Next
<1>11. CASE d \notin spoilt /\ n = d
  <2>1. spoilt' = spoilt
    BY <1>2, <1>11
  <2>2. S!Select(d)
    BY <1>8, <1>11, <2>1 DEF S!Select, S!Flush
  <2> QED
    BY <1>8, <2>2 DEF Goes, Simulates, S!Next
<1>12. CASE d \notin spoilt /\ n # d
  <2>1. spoilt' = spoilt
    BY <1>2, <1>12
  <2> QED
    BY <1>8, <1>12, <2>1 DEF Goes, Simulates, S!vars
<1> QED
  BY <1>10, <1>11, <1>12

LEMMA EchoStep ==
  ASSUME S!ScreenAssumption, IInv, NEW d \in S!Consoles, NEW ch \in S!Char, Echo(d, ch)
  PROVE  Goes
<1>1. Begin("enter", d, ch, "done") /\ con' = con /\ crtc' = crtc /\ current' = current
  BY DEF Echo
<1>2. current \in S!Consoles
  BY DEF IInv
<1> QED
  BY <1>1, <1>2, BeginGoes

LEMMA BeginScrollStep ==
  ASSUME S!ScreenAssumption, IInv, NEW dir \in {"up", "down"}, BeginScroll(dir)
  PROVE  Goes
<1>1. Begin(dir, current, "char", "idle") /\ con' = con /\ crtc' = crtc /\ current' = current
  BY DEF BeginScroll
<1>2. current \in S!Consoles /\ "char" \in S!Char /\ dir # "enter"
  BY DEF IInv, S!Char
<1> QED
  BY <1>1, <1>2, BeginGoes

LEMMA SelectStep ==
  ASSUME S!ScreenAssumption, IInv, NEW d \in S!Consoles, Select(d)
  PROVE  Goes
<1>1. Begin("flush", d, "char", "idle") /\ con' = con /\ crtc' = crtc /\ current' = d
  BY DEF Select
<1>2. "char" \in S!Char
  BY DEF S!Char
<1> QED
  BY <1>1, <1>2, BeginGoes

----------------------------------------------------------------------------
(* sys_printx, whatever record it finds *)

\* A cursor near the memory of its console: in it or right before it, or less than a
\* line beyond it.
Kept(d, x) == x \in Nat /\ S!Orig(d) <= x + 1 /\ x < S!End(d)
Near(d, x) ==
  /\ x \in Nat
  /\ \/ S!Orig(d) <= x + 1 /\ x < S!End(d) + WIDTH
     \/ x = (S!Orig(d) - 1) % MOD

\* A number below zero, modulo m.
LEMMA Below0 ==
  ASSUME NEW m \in Nat, NEW n \in Nat, 0 < n, n <= m, NEW x \in Int, x = 0 - n
  PROVE  x % m = m - n
<1>1. PICK i \in Int : i = x \div m
  OBVIOUS
<1>2. PICK r \in Nat : r = x % m /\ r < m /\ x = m * i + r
  BY <1>1
<1>3. i = -1
  <2>1. i >= 0 => m * i >= 0
    OBVIOUS
  <2>2. i <= -2 => m * i <= m * (-2)
    OBVIOUS
  <2>3. m * (-2) = 0 - 2 * m
    OBVIOUS
  <2> QED
    BY <1>2, <2>1, <2>2, <2>3
<1>4. m * (-1) = 0 - m
  OBVIOUS
<1> QED
  BY <1>2, <1>3, <1>4

\* The next line is less than a line on, also from before the memory.
LEMMA NextLineOn ==
  ASSUME S!ScreenAssumption, NEW d \in S!Consoles, NEW x \in Nat, x < S!End(d)
  PROVE  /\ S!NextLine(d, x) \in Nat /\ x < S!NextLine(d, x)
         /\ S!NextLine(d, x) <= x + WIDTH
<1>1. PICK o \in Nat, w \in Nat, m \in Nat : o = S!Orig(d) /\ w = WIDTH /\ m = MOD
  BY Sizes
<1>2. w >= 1 /\ m >= 1 /\ o < m /\ x + w < m
  BY <1>1, Sizes
<1>3. PICK u \in Nat : u = (x - o) % m /\ (u = x - o \/ u = m + x - o)
  <2>1. CASE x >= o
    <3>1. PICK n \in Nat : n = x - o /\ n < m
      BY <1>2, <2>1
    <3>2. n % m = n
      BY <1>2, <3>1
    <3> QED
      BY <3>1, <3>2
  <2>2. CASE x < o
    <3>1. PICK n \in Nat : n = o - x /\ 0 < n /\ n <= m
      BY <1>2, <2>2
    <3>2. PICK y \in Int : y = x - o /\ y = 0 - n
      BY <3>1
    <3>3. y % m = m - n
      BY <3>1, <3>2, Below0
    <3> QED
      BY <3>1, <3>2, <3>3
  <2> QED
    BY <2>1, <2>2
<1>4. PICK f \in Nat : f = u \div w /\ w * f <= u /\ u < w * f + w
  BY <1>2, Division
<1>5. PICK z \in Nat : z = o + w * (f + 1) /\ o + u < z /\ z <= o + u + w
  <2>1. w * (f + 1) = w * f + w /\ w * f \in Nat
    BY Products
  <2> QED
    BY <1>4, <2>1
<1>6. S!NextLine(d, x) = z % m
  BY <1>1, <1>3, <1>4, <1>5 DEF S!NextLine
<1>7. CASE u = x - o
  <2>1. z < m /\ x < z /\ z <= x + w
    BY <1>2, <1>5, <1>7
  <2>2. z % m = z
    BY <1>2, <2>1
  <2> QED
    BY <1>1, <1>6, <2>1, <2>2
<1>8. CASE u = m + x - o
  <2>1. PICK y \in Nat : z = m + y /\ x < y /\ y <= x + w /\ y < m
    BY <1>2, <1>5, <1>8
  <2>2. PICK a \in Nat : z % m \in Nat /\ z % m < m /\ z = m * a + (z % m)
    BY <1>2, Quotient
  <2>3. PICK r \in Nat : r = z % m
    BY <2>2
  <2>4. m * 1 + y = m * a + r
    BY <2>1, <2>2, <2>3
  <2>5. r = y
    BY <2>1, <2>2, <2>3, <2>4, Remainder
  <2> QED
    BY <1>1, <1>6, <2>1, <2>3, <2>5
<1> QED
  BY <1>3, <1>7, <1>8

\* What out_char makes of any record: its cursor is before the end of the memory and
\* above the end of the window, it is kept when it was near, and it does not leave the
\* memory.
LEMMA OutCharEnds ==
  ASSUME S!ScreenAssumption, NEW d \in S!Consoles, NEW q \in Con, NEW ch,
         NEW p, p = S!OutChar(d, q, ch)
  PROVE  /\ p \in Con /\ p.cursor < S!WindowEnd(p.start) /\ p.cursor < S!End(d)
         /\ Near(d, q.cursor) => Kept(d, p.cursor)
         /\ S!Orig(d) <= q.cursor => S!Orig(d) <= p.cursor
<1>1. PICK o \in Nat, e \in Nat : /\ o = S!Orig(d) /\ e = S!End(d) /\ o + 1 < e - 1
                                  /\ o + WIDTH < e /\ WIDTH \in Nat /\ e < MOD /\ 1 <= WIDTH
  BY Sizes
<1>2. S!Top(d) \in Con /\ S!Top(d).cursor = o
  BY <1>1 DEF S!Top, Con
<1>3. PICK room \in Con : room = IF S!Full(d, q.cursor) THEN S!Top(d) ELSE q
  BY <1>2
<1>4. PICK u \in Nat : /\ u = room.cursor /\ u < e - 1 /\ (o <= q.cursor => o <= u)
                       /\ Near(d, q.cursor) => o <= u + 1
  <2>1. CASE S!Full(d, q.cursor)
    BY <1>1, <1>2, <1>3, <2>1
  <2>2. CASE ~S!Full(d, q.cursor)
    <3>1. PICK x \in Nat : x = q.cursor
      BY DEF Con
    <3>2. x < e - 1 /\ room = q
      BY <1>1, <1>3, <2>2, <3>1 DEF S!Full
    <3>3. ASSUME Near(d, x) PROVE o <= x + 1
      <4>1. CASE o = 0
        BY <4>1
      <4>2. CASE o # 0
        <5>1. (o - 1) % MOD = o - 1
          <6>1. PICK y \in Nat : y = o - 1 /\ y < MOD
            BY <1>1, <4>2, Sizes
          <6> QED
            BY <6>1, Sizes
        <5> QED
          BY <1>1, <3>3, <4>2, <5>1 DEF Near
      <4> QED
        BY <4>1, <4>2
    <3> QED
      BY <3>1, <3>2, <3>3
  <2> QED
    BY <2>1, <2>2
<1>5. PICK r : r = IF ch = "newline" THEN S!NewLine(d, room)
                   ELSE IF ch = "backspace" THEN S!BackSpace(d, room) ELSE S!Put(d, room)
  OBVIOUS
<1>6. PICK v \in Nat : /\ r \in Con /\ v = r.cursor /\ v < e /\ (o <= u => o <= v)
                       /\ (o <= u + 1 => o <= v + 1)
  <2>1. CASE ch = "newline" /\ u < e - WIDTH
    <3>1. PICK x \in Nat : x = S!NextLine(d, u) /\ u < x /\ x <= u + WIDTH
      BY <1>1, <2>1, NextLineOn
    <3>2. r = [room EXCEPT !.cursor = x]
      BY <1>1, <1>4, <1>5, <2>1, <3>1 DEF S!NewLine
    <3>3. r \in Con /\ r.cursor = x
      BY <3>1, <3>2 DEF Con
    <3> QED
      BY <1>1, <1>4, <2>1, <3>1, <3>3
  <2>2. CASE ch = "newline" /\ ~(u < e - WIDTH)
    BY <1>1, <1>2, <1>4, <1>5, <2>2 DEF S!NewLine
  <2>3. CASE ch = "backspace"
    <3>1. CASE u > o
      <4>1. PICK x \in Nat : x = u - 1
        BY <3>1
      <4>2. r = [room EXCEPT !.cursor = x]
        BY <1>1, <1>4, <1>5, <2>3, <3>1, <4>1 DEF S!BackSpace
      <4>3. r \in Con /\ r.cursor = x
        BY <4>1, <4>2 DEF Con
      <4> QED
        BY <1>1, <1>4, <3>1, <4>1, <4>3
    <3>2. CASE ~(u > o)
      BY <1>1, <1>4, <1>5, <2>3, <3>2 DEF S!BackSpace
    <3> QED
      BY <3>1, <3>2
  <2>4. CASE ch \notin {"newline", "backspace"}
    <3>1. PICK x \in Nat : x = u + 1
      OBVIOUS
    <3>2. ~S!Full(d, u)
      BY <1>1, <1>4 DEF S!Full
    <3>3. r = [room EXCEPT !.cursor = x]
      BY <1>4, <1>5, <2>4, <3>1, <3>2 DEF S!Put
    <3>4. r \in Con /\ r.cursor = x
      BY <3>1, <3>3 DEF Con
    <3> QED
      BY <1>1, <1>4, <3>1, <3>4
  <2> QED
    BY <2>1, <2>2, <2>3, <2>4
<1>7. p = S!Follow(d, r)
  BY <1>3, <1>5 DEF S!OutChar
<1>8. PICK s \in Nat : p = [r EXCEPT !.start = s] /\ v < S!WindowEnd(s)
  <2>1. PICK l \in Nat : /\ v < S!WindowEnd(r.start) + WIDTH * l
                         /\ p = [r EXCEPT !.start = (r.start + WIDTH * l) % MOD]
                         /\ S!WindowEnd((r.start + WIDTH * l) % MOD) = S!WindowEnd(r.start) + WIDTH * l
    BY <1>1, <1>6, <1>7, FollowEnds
  <2>2. PICK z \in Nat : z = r.start + WIDTH * l
    BY <1>6, Sizes, Products DEF Con
  <2>3. z % MOD \in Nat
    BY Sizes
  <2> QED
    BY <2>1, <2>2, <2>3
<1>9. p \in Con /\ p.cursor = v /\ p.start = s
  BY <1>6, <1>8 DEF Con
<1>10. Near(d, q.cursor) => Kept(d, p.cursor)
  BY <1>1, <1>4, <1>6, <1>9 DEF Kept
<1> QED
  BY <1>1, <1>4, <1>6, <1>8, <1>9, <1>10


\* A character is printed on a console that task_tty does not work on.
LEMMA FreeStep ==
  ASSUME IInv, NEW d \in S!Consoles, ~Busy(d), NEW q \in Con,
         con' = [con EXCEPT ![d] = q], current' = current, task' = task,
         crtc' = IF d = current THEN q ELSE crtc,
         spoilt' \in {spoilt, spoilt \ {d}}, d \notin spoilt' => Good(d, q)
  PROVE  /\ IInv' /\ ShownCon[d] = con[d] /\ ShownCon'[d] = q
         /\ ShownCon' = [ShownCon EXCEPT ![d] = q]
         /\ ShownCrtc' = IF d = current THEN q ELSE ShownCrtc
<1>1. /\ con \in [S!Consoles -> Con] /\ current \in S!Consoles /\ crtc \in Con
      /\ spoilt \subseteq S!Consoles /\ task \in TaskType
  BY DEF IInv
<1>2. \A e \in S!Consoles : con'[e] = IF e = d THEN q ELSE con[e]
  BY <1>1
<1>3. \A e \in S!Consoles : /\ Busy(e)' <=> Busy(e)
                            /\ Before(e)' <=> Before(e)
  BY DEF Busy, Before
<1>4. IInv'
  <2>1. con' \in [S!Consoles -> Con] /\ crtc' \in Con
    BY <1>1
  <2>2. ASSUME NEW e \in S!Consoles \ spoilt' PROVE Busy(e)' \/ Good(e, con'[e])
    <3>1. CASE e = d
      BY <1>2, <2>2, <3>1
    <3>2. CASE e # d
      BY <1>2, <1>3, <2>2, <3>2 DEF IInv
    <3> QED
      BY <3>1, <3>2
  <2>3. Busy(current)' \/ current \in spoilt' \/ crtc' = con'[current]
    BY <1>1, <1>2, <1>3 DEF IInv
  <2>4. task.pc # "idle" /\ task.c \notin spoilt' => TaskOK(task, con'[task.c], crtc', current)
    <3> SUFFICES ASSUME task.pc # "idle", task.c \notin spoilt'
                 PROVE  TaskOK(task, con'[task.c], crtc', current)
      OBVIOUS
    <3>1. task.c \in S!Consoles /\ task.c # d
      BY <1>1 DEF TaskType, Busy
    <3>2. TaskOK(task, con[task.c], crtc, current)
      BY <3>1 DEF IInv
    <3>3. con'[task.c] = con[task.c] /\ (task.c = current => crtc' = crtc)
      BY <1>2, <3>1
    <3>4. task.pc \in ShowPc => task.c = current
      BY DEF IInv
    <3>5. task.pc \in {"flush_load", "flush_start"} => crtc' = crtc
      BY <3>3, <3>4 DEF ShowPc
    <3> QED
      BY <3>2, <3>3, <3>5 DEF TaskOK, FlushOK
  <2>5. task.pc \in ShowPc => task.c = current
    BY DEF IInv
  <2>6. spoilt' \subseteq S!Consoles
    BY <1>1
  <2> QED
    BY <1>1, <2>1, <2>2, <2>3, <2>4, <2>5, <2>6 DEF IInv
<1>5. ShownCon[d] = con[d] /\ ShownCon' = [ShownCon EXCEPT ![d] = q]
  <2>1. d \in 0 .. NR - 1 /\ ShownCon[d] = con[d]
    BY <1>1 DEF S!Consoles, ShownCon, Before
  <2>2. ASSUME NEW e \in 0 .. NR - 1
        PROVE  (IF Before(e)' THEN task'.old ELSE con'[e]) = (IF e = d THEN q ELSE ShownCon[e])
    <3>1. e \in S!Consoles
      BY DEF S!Consoles
    <3> QED
      BY <1>2, <1>3, <3>1 DEF ShownCon, Before
  <2>3. ShownCon' = [e \in 0 .. NR - 1 |-> IF e = d THEN q ELSE ShownCon[e]]
    BY <2>2 DEF ShownCon, Before, Busy
  <2> QED
    BY <2>1, <2>3 DEF ShownCon
<1>6. ShownCrtc' = IF d = current THEN q ELSE ShownCrtc
  BY <1>1, <1>3 DEF ShownCrtc, Before, Busy
<1>7. ShownCon'[d] = q
  BY <1>5 DEF ShownCon, S!Consoles
<1> QED
  BY <1>4, <1>5, <1>6, <1>7

\* A character is printed on the console that task_tty works on: it is spoilt.
LEMMA SpoilStep ==
  ASSUME IInv, NEW d \in S!Consoles, Busy(d), NEW q \in Con, Nothing \in Con,
         con' = [con EXCEPT ![d] = q], current' = current,
         task' = [task EXCEPT !.old = Nothing],
         crtc' = IF d = current THEN q ELSE crtc, spoilt' = spoilt \cup {d}
  PROVE  IInv' /\ S!Disturbed(d)
<1>1. /\ con \in [S!Consoles -> Con] /\ current \in S!Consoles /\ crtc \in Con
      /\ spoilt \subseteq S!Consoles /\ task \in TaskType /\ task.c = d
  BY DEF IInv, Busy
<1>2. \A e \in S!Consoles : con'[e] = IF e = d THEN q ELSE con[e]
  BY <1>1
<1>3. PICK t : t = [task EXCEPT !.old = Nothing] /\ task' = t
  OBVIOUS
<1>4. t \in TaskType /\ t.c = d /\ t.pc = task.pc
  BY <1>1, <1>3 DEF TaskType
<1>5. \A e \in S!Consoles : e # d => ~Busy(e)
  BY <1>1 DEF Busy
<1>6. IInv'
  <2>1. con' \in [S!Consoles -> Con] /\ crtc' \in Con /\ spoilt' \subseteq S!Consoles
    BY <1>1
  <2>2. ASSUME NEW e \in S!Consoles \ spoilt' PROVE Good(e, con'[e])
    <3>1. e # d /\ e \notin spoilt
      BY <2>2
    <3> QED
      BY <1>2, <1>5, <3>1 DEF IInv
  <2>3. current \in spoilt' \/ crtc' = con'[current]
    BY <1>1, <1>2, <1>5 DEF IInv
  <2>4. t.pc \in ShowPc => t.c = current
    BY <1>1, <1>4 DEF IInv
  <2> QED
    BY <1>1, <1>3, <1>4, <2>1, <2>2, <2>3, <2>4 DEF IInv
<1>7. ASSUME NEW e \in S!Consoles PROVE ~Before(e)' /\ (e # d => ~Before(e))
  BY <1>3, <1>4, <1>5 DEF Before, Busy
<1>8. ShownCon' = con'
  <2>1. ASSUME NEW e \in 0 .. NR - 1 PROVE (IF Before(e)' THEN task'.old ELSE con'[e]) = con'[e]
    BY <1>7 DEF S!Consoles
  <2>2. ShownCon' = [e \in 0 .. NR - 1 |-> con'[e]]
    BY <2>1 DEF ShownCon, Before, Busy
  <2> QED
    BY <1>1, <2>2 DEF S!Consoles
<1>9. ShownCon' = [ShownCon EXCEPT ![d] = ShownCon'[d]]
  <2>1. \A e \in S!Consoles : e # d => ShownCon'[e] = ShownCon[e]
    BY <1>2, <1>7, <1>8 DEF ShownCon, S!Consoles
  <2>2. /\ ShownCon = [e \in S!Consoles |-> ShownCon[e]]
        /\ ShownCon' = [e \in S!Consoles |-> ShownCon'[e]]
    <3>1. ShownCon = [e \in S!Consoles |-> ShownCon[e]]
      BY Zenon DEF ShownCon, S!Consoles
    <3>2. con' = [e \in S!Consoles |-> con'[e]]
      BY <1>1
    <3> QED
      BY <1>8, <3>1, <3>2, Zenon
  <2>3. PICK f, g : f = ShownCon /\ g = ShownCon'
    OBVIOUS
  <2>4. /\ f = [e \in S!Consoles |-> f[e]] /\ g = [e \in S!Consoles |-> g[e]]
        /\ \A e \in S!Consoles : e # d => g[e] = f[e]
    BY <2>1, <2>2, <2>3, Zenon
  <2>5. g = [f EXCEPT ![d] = g[d]]
    BY <2>4
  <2> QED
    BY <2>3, <2>5, Zenon
<1>10. current # d => ShownCrtc' = ShownCrtc
  BY <1>1, <1>7 DEF ShownCrtc, Before, Busy
<1>11. S!Disturbed(d)
  BY <1>9, <1>10 DEF S!Disturbed
<1> QED
  BY <1>6, <1>11

LEMMA PrintxStep ==
  ASSUME S!ScreenAssumption, IInv, NEW d \in S!Consoles, NEW ch \in S!Char, Printx(d, ch)
  PROVE  Goes
<1>1. con \in [S!Consoles -> Con] /\ con[d] \in Con /\ spoilt \subseteq S!Consoles
  BY DEF IInv
<1>2. PICK q \in Con : q = S!OutChar(d, con[d], ch)
  BY <1>1, OutCharEnds
<1>3. /\ con' = [con EXCEPT ![d] = q] /\ con'[d] = q /\ current' = current
      /\ crtc' = (IF d = current THEN q ELSE crtc) /\ Prints(d)
  BY <1>1, <1>2 DEF Printx
<1>4. CASE Busy(d)
  <2>1. IInv' /\ S!Disturbed(d)
    BY <1>3, <1>4, IdleTask, SpoilStep DEF Prints
  <2> QED
    BY <2>1 DEF Goes, Simulates, S!Next
<1>5. CASE ~Busy(d)
  <2>1. d \in spoilt \/ (Good(d, con[d]) /\ Good(d, q))
    BY <1>2, <1>5, OutCharGood DEF IInv
  <2>2. /\ task' = task /\ spoilt' \in {spoilt, spoilt \ {d}}
        /\ d \notin spoilt' => Good(d, q)
    BY <1>1, <1>3, <1>5, <2>1, Found DEF Prints
  <2>3. /\ IInv' /\ ShownCon[d] = con[d] /\ ShownCon'[d] = q
        /\ ShownCon' = [ShownCon EXCEPT ![d] = q]
        /\ ShownCrtc' = IF d = current THEN q ELSE ShownCrtc
    BY <1>3, <1>5, <2>2, FreeStep
  <2>4. CASE d \notin spoilt
    <3>1. spoilt' = spoilt
      BY <2>2, <2>4
    <3>2. S!Output(d, ch)
      BY <1>2, <1>3, <2>3, <2>4, <3>1 DEF S!Output, S!Change, S!Flush
    <3> QED
      BY <2>3, <3>2 DEF Goes, Simulates, S!Next
  <2>5. CASE d \in spoilt
    <3>1. spoilt' \in {spoilt \cup {d}, spoilt \ {d}}
      BY <2>2, <2>5
    <3>2. d \notin spoilt' => S!Whole(d, q)
      BY <2>2, WholeGood
    <3>3. S!Disturbed(d)
      BY <1>3, <2>3, <2>5, <3>1, <3>2 DEF S!Disturbed
    <3> QED
      BY <2>3, <3>3 DEF Goes, Simulates, S!Next
  <2> QED
    BY <2>4, <2>5
<1> QED
  BY <1>4, <1>5

LEMMA NoStep == ASSUME IInv, UNCHANGED vars PROVE Goes
<1>1. con' = con /\ current' = current /\ crtc' = crtc /\ spoilt' = spoilt /\ task' = task
  BY DEF vars
<1>2. IInv'
  BY <1>1 DEF IInv, Busy
<1>3. ShownCon' = ShownCon /\ ShownCrtc' = ShownCrtc
  BY <1>1 DEF ShownCon, ShownCrtc, Before, Busy
<1> QED
  BY <1>1, <1>2, <1>3 DEF Goes, Simulates, S!vars

LEMMA Step ==
  ASSUME ConsoleAssumption, IInv, [Next]_vars
  PROVE  Goes
<1>1. S!ScreenAssumption /\ \A d \in Printed : d \in S!Consoles
  BY DEF ConsoleAssumption
<1>2. ASSUME Next PROVE Goes
  BY <1>1, <1>2, EchoStep, BeginScrollStep, SelectStep, TaskStepGoes, PrintxStep, Zenon
     DEF Next
<1> QED
  BY <1>2, NoStep, Zenon

LEMMA InitOK == ASSUME ConsoleAssumption, Init PROVE IInv /\ S!Init
<1>1. S!ScreenAssumption /\ 0 \in S!Consoles
  BY DEF ConsoleAssumption, S!Consoles, S!ScreenAssumption
<1>2. PICK p \in 0 .. SCREEN - 1 :
        con = [d \in S!Consoles |-> [S!Top(d) EXCEPT !.cursor = IF d = 0 THEN p ELSE @ + WIDTH + 1]]
  BY DEF Init, S!InitialCon
<1>3. ASSUME NEW d \in S!Consoles PROVE Good(d, con[d])
  <2>1. PICK x \in Nat : x = IF d = 0 THEN p ELSE S!Orig(d) + WIDTH + 1
    BY <1>1, Sizes, <1>2
  <2>2. S!Orig(d) <= x /\ x < S!End(d)
    BY <1>1, <2>1, Sizes, <1>2
  <2>3. con[d] = [S!Top(d) EXCEPT !.cursor = x]
    BY <1>2, <2>1 DEF S!Top
  <2> QED
    BY <1>1, <2>2, <2>3, TopGood, CursorGood
<1>4. current = 0 /\ crtc = con[0] /\ spoilt = {} /\ task = Idle
  BY DEF Init
<1>5. con \in [S!Consoles -> Con] /\ crtc \in Con
  BY <1>1, <1>2, <1>3, <1>4 DEF Good
<1>6. task \in TaskType /\ task.pc = "idle"
  BY <1>1, <1>4, IdleTask
<1>7. IInv
  BY <1>1, <1>3, <1>4, <1>5, <1>6 DEF IInv, ShowPc
<1>8. ShownCon = con /\ ShownCrtc = crtc
  BY <1>5, <1>6 DEF ShownCon, ShownCrtc, Before, Busy, S!Consoles
<1> QED
  BY <1>4, <1>7, <1>8 DEF S!Init, Init

----------------------------------------------------------------------------
(* What the invariant says of the consoles as Screen has them *)

LEMMA ShownGood ==
  ASSUME IInv
  PROVE  /\ \A d \in S!Consoles \ spoilt : Good(d, ShownCon[d])
         /\ current \in S!Consoles
         /\ current \notin spoilt => ShownCrtc = ShownCon[current]
<1>1. \A d \in S!Consoles : ShownCon[d] = IF Before(d) THEN task.old ELSE con[d]
  BY DEF ShownCon, S!Consoles
<1>2. ASSUME NEW d \in S!Consoles \ spoilt PROVE Good(d, ShownCon[d])
  BY <1>1 DEF IInv, TaskOK, Before, Busy
<1>3. current \in S!Consoles /\ (current \notin spoilt => ShownCrtc = ShownCon[current])
  BY <1>1 DEF IInv, ShownCrtc, Before, Busy
<1> QED
  BY <1>2, <1>3

\* The window of a console whose cursor has moved has followed.
LEMMA FollowedStep ==
  ASSUME S!ScreenAssumption, IInv, Simulates
  PROVE  S!Followed
<1>1. \A d \in S!Consoles \ spoilt : Good(d, ShownCon[d])
  BY ShownGood
<1>2. ShownCon = [d \in S!Consoles |-> ShownCon[d]]
  BY DEF ShownCon, S!Consoles
<1>3. CASE ShownCon' = ShownCon
  BY <1>3 DEF S!Followed
<1>4. ASSUME NEW e \in S!Consoles, NEW q, ShownCon' = [ShownCon EXCEPT ![e] = q],
             \/ q.cursor < q.start + SCREEN \/ q.cursor = ShownCon[e].cursor
             \/ e \in spoilt \cup spoilt'
      PROVE  S!Followed
  BY <1>2, <1>4 DEF S!Followed
<1>5. ASSUME NEW e \in S!Consoles, NEW ch \in S!Char, S!Output(e, ch) PROVE S!Followed
  <2>1. PICK q : q = S!OutChar(e, ShownCon[e], ch)
    OBVIOUS
  <2>2. ShownCon' = [ShownCon EXCEPT ![e] = q] /\ e \notin spoilt
    BY <1>5, <2>1 DEF S!Output, S!Change
  <2>3. q.cursor < q.start + SCREEN
    BY <1>1, <2>1, <2>2, OutCharGood
  <2> QED
    BY <1>4, <2>2, <2>3
<1>6. ASSUME S!Scroll PROVE S!Followed
  <2>1. PICK q : /\ q = S!ScrollUp(current, ShownCon[current]) \/ q = S!ScrollDown(current, ShownCon[current])
                 /\ ShownCon' = [ShownCon EXCEPT ![current] = q] /\ current \notin spoilt
    BY <1>6 DEF S!Scroll, S!Change
  <2>2. current \in S!Consoles
    BY ShownGood
  <2>3. q.cursor = ShownCon[current].cursor
    BY <1>1, <2>1, <2>2, ScrollUpGood, ScrollDownGood
  <2> QED
    BY <1>4, <2>1, <2>2, <2>3
<1>7. ASSUME NEW e \in S!Consoles, S!Select(e) PROVE ShownCon' = ShownCon
  BY <1>7 DEF S!Select
<1>8. ASSUME NEW e \in S!Consoles, S!Disturbed(e) PROVE S!Followed
  BY <1>4, <1>8 DEF S!Disturbed
<1> QED
  BY <1>3, <1>5, <1>6, <1>7, <1>8 DEF Simulates, S!Next, S!vars

\* When scroll_screen is called in the loop, the next step of task_tty is to move the
\* window.
LEMMA LoopMoves ==
  ASSUME S!ScreenAssumption, IInv, [Next]_vars, task.pc = "down", task.back = "loop",
         task.c \notin spoilt, task'.pc # "down"
  PROVE  task'.pc = "down_by"
<1>1. Down
  <2>1. ~UNCHANGED vars
    BY DEF vars
  <2>2. ASSUME NEW d, NEW ch, Echo(d, ch) PROVE FALSE
    BY <2>2 DEF Echo, Begin
  <2>3. ASSUME NEW dir, BeginScroll(dir) PROVE FALSE
    BY <2>3 DEF BeginScroll, Begin
  <2>4. ASSUME NEW d, Select(d) PROVE FALSE
    BY <2>4 DEF Select, Begin
  <2>5. ASSUME NEW d, NEW ch, Printx(d, ch) PROVE FALSE
    <3>1. task \in TaskType
      BY DEF IInv
    <3>2. task' = task \/ task' = [task EXCEPT !.old = Nothing]
      BY <2>5 DEF Printx, Prints
    <3> QED
      BY <3>1, <3>2 DEF TaskType
  <2>6. TaskStep
    BY <2>1, <2>2, <2>3, <2>4, <2>5, Zenon DEF Next
  <2>7. ~OutCharStep
    BY DEF OutCharStep, Address, TestFull, ToTop, ToTopStart, Clear, AddressAgain, Switch, Line,
           LineSet, LineTop, LineStart, Back, BackSet, CharLoad, CharSet, Loop, LoopTest
  <2>8. ~FlushStep
    BY DEF FlushStep, FlushLoad, FlushCursor, FlushLoadStart, FlushStart
  <2> QED
    BY <2>6, <2>7, <2>8 DEF TaskStep, ScrollStep, DownBy, Up, UpBy, Moved
<1>2. S!CanScroll(task.c, k.start) /\ task \in TaskType
  BY DownMoves DEF IInv
<1>3. Goto("down_by")
  BY <1>1, <1>2 DEF Down, c
<1>4. task.pc # "idle" /\ "down_by" \in BusyPc
  BY DEF BusyPc, ScrollPc
<1> QED
  BY <1>3, <1>4, GoesOn DEF Moves

----------------------------------------------------------------------------
(* Spoilt records: the cursor of a console stays near its memory *)

\* Where task t reads or has read the cursor of record q, on its way to change it.
Watched == {"full", "top_start", "clear", "top_again", "switch", "line", "line_set", "back",
            "back_set", "char", "char_set"}
NearTask(t, q) ==
  /\ t.pc \in {"full", "switch", "back", "back_set", "char", "char_set"} => Near(t.c, t.at)
  /\ t.pc \in {"top_start", "clear", "top_again", "switch", "line", "back", "char"}
       => Kept(t.c, q.cursor)
  /\ t.pc = "back" => S!Orig(t.c) <= q.cursor
  /\ t.pc \in {"line_set", "back_set", "char_set"} => Near(t.c, t.r)

NearInv ==
  /\ \A d \in S!Consoles : Near(d, con[d].cursor)
  /\ NearTask(task, con[task.c])

LEMMA KeptNear ==
  ASSUME S!ScreenAssumption, NEW d \in S!Consoles, NEW x, Kept(d, x)
  PROVE  Near(d, x)
BY Sizes DEF Kept, Near

\* A cursor that is near, and not at the end, is kept.
LEMMA NearKept ==
  ASSUME S!ScreenAssumption, NEW d \in S!Consoles, NEW x \in Nat, Near(d, x), ~S!Full(d, x)
  PROVE  Kept(d, x)
<1>1. PICK o \in Nat, e \in Nat : o = S!Orig(d) /\ e = S!End(d) /\ o < e /\ e < MOD /\ MOD \in Nat
  BY Sizes
<1>2. x < e
  BY <1>1 DEF S!Full
<1>3. CASE o = 0
  BY <1>1, <1>2, <1>3 DEF Kept
<1>4. CASE o # 0
  <2>1. PICK y \in Nat : y = o - 1 /\ y < MOD
    BY <1>1, <1>4
  <2>2. y % MOD = y
    BY <1>1, <2>1
  <2> QED
    BY <1>1, <1>2, <2>1, <2>2 DEF Near, Kept
<1> QED
  BY <1>3, <1>4

\* The record of the console of task_tty becomes q, and task_tty itself t.
LEMMA NearStep ==
  ASSUME IInv, NearInv, task.pc # "idle", NEW q, con' = [con EXCEPT ![task.c] = q],
         Near(task.c, q.cursor), NEW t, task' = t, t.c = task.c, NearTask(t, q)
  PROVE  NearInv'
<1>1. task.c \in S!Consoles /\ con \in [S!Consoles -> Con]
  BY DEF IInv, TaskType
<1>2. con'[task.c] = q
  BY <1>1
<1>3. ASSUME NEW d \in S!Consoles PROVE Near(d, con'[d].cursor)
  <2>1. CASE d = task.c
    BY <1>2, <2>1
  <2>2. CASE d # task.c
    BY <1>1, <2>2 DEF NearInv
  <2> QED
    BY <2>1, <2>2
<1> QED
  BY <1>2, <1>3 DEF NearInv

LEMMA NearLocal ==
  ASSUME IInv, NearInv, task.pc # "idle", Local, NEW t, task' = t, t.c = task.c, NearTask(t, k)
  PROVE  NearInv'
<1>1. con' = [con EXCEPT ![task.c] = k] /\ task.c \in S!Consoles
  BY DEF Local, IInv, k, c, TaskType
<1>2. Near(task.c, k.cursor)
  BY <1>1 DEF NearInv, k, c
<1> QED
  BY <1>1, <1>2, NearStep

\* No cursor changes, and task_tty does not read one to change it.
LEMMA CalmStep ==
  ASSUME NearInv, \A d \in S!Consoles : con'[d].cursor = con[d].cursor, task'.pc \notin Watched
  PROVE  NearInv'
BY DEF NearInv, NearTask, Watched

LEMMA OutCharNear ==
  ASSUME S!ScreenAssumption, IInv, NearInv, OutCharStep
  PROVE  NearInv'
<1>1. task.pc # "idle"
  BY DEF OutCharStep, Address, TestFull, ToTop, ToTopStart, Clear, AddressAgain, Switch, Line,
         LineSet, LineTop, LineStart, Back, BackSet, CharLoad, CharSet, Loop, LoopTest
<1>2. /\ task \in TaskType /\ task.c \in S!Consoles /\ k \in Con /\ k.cursor \in Nat
      /\ Near(task.c, k.cursor) /\ NearTask(task, k) /\ task.r \in Nat
  BY <1>1, BusyType DEF NearInv, k, c, TaskType
<1>3. PICK o \in Nat, e \in Nat : /\ o = S!Orig(task.c) /\ e = S!End(task.c) /\ o + 1 < e - 1
                                  /\ e + WIDTH < MOD /\ MOD \in Nat /\ WIDTH \in Nat /\ 1 <= WIDTH
  BY <1>2, Sizes
<1>4. Kept(task.c, o) /\ Near(task.c, o)
  BY <1>2, <1>3, KeptNear DEF Kept
<1>5. PICK u \in Nat : u = k.cursor
  BY <1>2
<1>6. ASSUME Address PROVE NearInv'
  <2>1. PICK t \in TaskType : task' = t /\ Fields(t, "full", u, task.r, task.back)
    BY <1>1, <1>5, <1>6, AtFields DEF Address, BusyPc, OutPc
  <2>2. NearTask(t, k)
    BY <1>2, <1>5, <2>1 DEF Fields, NearTask
  <2> QED
    BY <1>1, <1>6, <2>1, <2>2, NearLocal DEF Address, Fields
<1>7. ASSUME TestFull PROVE NearInv'
  <2>1. PICK pc \in {"top", "switch"} : /\ pc = "switch" => ~S!Full(task.c, u)
                                        /\ pc \in BusyPc /\ Goto(pc)
    BY <1>5, <1>7 DEF TestFull, BusyPc, OutPc, c
  <2>2. PICK t \in TaskType : task' = t /\ Fields(t, pc, task.at, 0, task.back)
    BY <1>1, <2>1, GotoFields
  <2>3. pc = "switch" => Kept(task.c, u)
    BY <1>2, <1>5, <2>1, NearKept
  <2>4. NearTask(t, k)
    BY <1>2, <1>5, <1>7, <2>1, <2>2, <2>3 DEF Fields, NearTask, TestFull
  <2> QED
    BY <1>1, <1>7, <2>2, <2>4, NearLocal DEF TestFull, Fields
<1>8. ASSUME NEW v \in Nat, Near(task.c, v), StoreCursor(v), NEW t, task' = t, t.c = task.c,
             t.pc \notin Watched \/ (t.pc = "top_start" /\ Kept(task.c, v))
      PROVE  NearInv'
  <2>1. PICK q \in Con : q = [k EXCEPT !.cursor = v] /\ con' = [con EXCEPT ![task.c] = q]
    BY <1>1, <1>8, CursorStored
  <2>2. q.cursor = v
    BY <1>2, <2>1 DEF Con
  <2>3. NearTask(t, q)
    BY <1>8, <2>2 DEF NearTask, Watched
  <2> QED
    BY <1>1, <1>8, <2>1, <2>2, <2>3, NearStep
<1>9. ASSUME NEW v \in Nat, StoreStart(v), NEW t, task' = t, t.c = task.c,
             t.pc \notin Watched \/ (t.pc = "clear" /\ Kept(task.c, u))
      PROVE  NearInv'
  <2>1. PICK q \in Con : q = [k EXCEPT !.start = v] /\ con' = [con EXCEPT ![task.c] = q]
    BY <1>1, <1>9, StartStored
  <2>2. q.cursor = u
    BY <1>2, <1>5, <2>1 DEF Con
  <2>3. NearTask(t, q)
    BY <1>9, <2>2 DEF NearTask, Watched
  <2> QED
    BY <1>1, <1>2, <1>5, <1>9, <2>1, <2>2, <2>3, NearStep
<1>10. ASSUME ToTop \/ LineTop PROVE NearInv'
  <2>1. PICK pc \in {"top_start", "line_start"} : pc \in BusyPc /\ StoreCursor(o) /\ Goto(pc)
    BY <1>3, <1>10 DEF ToTop, LineTop, BusyPc, OutPc, c
  <2>2. PICK t \in TaskType : task' = t /\ Fields(t, pc, task.at, 0, task.back)
    BY <1>1, <2>1, GotoFields
  <2> QED
    BY <1>4, <1>8, <2>1, <2>2 DEF Fields, Watched
<1>11. ASSUME ToTopStart PROVE NearInv'
  <2>1. StoreStart(o) /\ Goto("clear") /\ "clear" \in BusyPc /\ Kept(task.c, u)
    BY <1>2, <1>3, <1>5, <1>11 DEF ToTopStart, BusyPc, OutPc, c, NearTask
  <2>2. PICK t \in TaskType : task' = t /\ Fields(t, "clear", task.at, 0, task.back)
    BY <1>1, <2>1, GotoFields
  <2> QED
    BY <1>9, <2>1, <2>2 DEF Fields
<1>12. ASSUME LineStart PROVE NearInv'
  <2>1. StoreStart(o) /\ Out
    BY <1>3, <1>12 DEF LineStart, c
  <2>2. PICK t \in TaskType : task' = t /\ Fields(t, "loop", 0, 0, task.back)
    BY <1>1, <2>1, OutFields
  <2> QED
    BY <1>9, <2>1, <2>2 DEF Fields, Watched
<1>13. ASSUME Clear PROVE NearInv'
  <2>1. PICK t \in TaskType : task' = t /\ Fields(t, "top_again", task.at, 0, task.back)
    BY <1>1, <1>13, GotoFields DEF Clear, BusyPc, OutPc
  <2>2. NearTask(t, k)
    BY <1>2, <1>13, <2>1 DEF Clear, Fields, NearTask
  <2> QED
    BY <1>1, <1>13, <2>1, <2>2, NearLocal DEF Clear, Fields
<1>14. ASSUME AddressAgain PROVE NearInv'
  <2>1. PICK t \in TaskType : task' = t /\ Fields(t, "switch", u, task.r, task.back)
    BY <1>1, <1>5, <1>14, AtFields DEF AddressAgain, BusyPc, OutPc
  <2>2. NearTask(t, k)
    BY <1>2, <1>5, <1>14, <2>1 DEF AddressAgain, Fields, NearTask
  <2> QED
    BY <1>1, <1>14, <2>1, <2>2, NearLocal DEF AddressAgain, Fields
<1>15. ASSUME Switch PROVE NearInv'
  <2>1. CASE Out
    <3>1. PICK t \in TaskType : task' = t /\ Fields(t, "loop", 0, 0, task.back)
      BY <1>1, <2>1, OutFields
    <3>2. NearTask(t, k)
      BY <3>1 DEF Fields, NearTask
    <3> QED
      BY <1>1, <1>15, <3>1, <3>2, NearLocal DEF Switch, Fields
  <2>2. CASE ~Out
    <3>1. PICK pc \in {"line", "line_top", "back", "char"} :
            Goto(pc) /\ pc \in BusyPc /\ (pc = "back" => u > o)
      BY <1>3, <1>5, <1>15, <2>2 DEF Switch, BusyPc, OutPc, c
    <3>2. PICK t \in TaskType : task' = t /\ Fields(t, pc, task.at, 0, task.back)
      BY <1>1, <3>1, GotoFields
    <3>3. Near(task.c, task.at) /\ Kept(task.c, u)
      BY <1>2, <1>5, <1>15 DEF NearTask, Switch
    <3>4. NearTask(t, k)
      BY <1>3, <1>5, <3>1, <3>2, <3>3 DEF Fields, NearTask
    <3> QED
      BY <1>1, <1>15, <3>2, <3>4, NearLocal DEF Switch, Fields
  <2> QED
    BY <2>1, <2>2
<1>16. ASSUME Line PROVE NearInv'
  <2>1. Kept(task.c, u)
    BY <1>2, <1>5, <1>16 DEF Line, NearTask
  <2>2. PICK v \in Nat : v = S!NextLine(task.c, u) /\ u < v /\ v <= u + WIDTH
    BY <1>2, <2>1, NextLineOn DEF Kept
  <2>3. Near(task.c, v)
    BY <1>3, <2>1, <2>2 DEF Kept, Near
  <2>4. PICK t \in TaskType : task' = t /\ Fields(t, "line_set", task.at, v, task.back)
    BY <1>1, <1>5, <1>16, <2>2, LoadFields DEF Line, BusyPc, OutPc, c
  <2>5. NearTask(t, k)
    BY <2>3, <2>4 DEF Fields, NearTask
  <2> QED
    BY <1>1, <1>16, <2>4, <2>5, NearLocal DEF Line, Fields
<1>17. ASSUME Back PROVE NearInv'
  <2>1. Kept(task.c, u) /\ o <= u /\ Near(task.c, task.at)
    BY <1>2, <1>3, <1>5, <1>17 DEF Back, NearTask
  <2>2. PICK v \in Nat : v = (u - 1) % MOD
    BY <1>3
  <2>3. Near(task.c, v)
    <3>1. CASE u = o
      BY <1>3, <2>2, <3>1 DEF Near
    <3>2. CASE u # o
      <4>1. PICK y \in Nat : y = u - 1 /\ o <= y /\ y < e /\ y < MOD
        BY <1>3, <2>1, <3>2 DEF Kept
      <4>2. v = y
        BY <1>3, <2>2, <4>1
      <4> QED
        BY <1>3, <4>1, <4>2 DEF Near
    <3> QED
      BY <3>1, <3>2
  <2>4. PICK t \in TaskType : task' = t /\ Fields(t, "back_set", task.at, v, task.back)
    BY <1>1, <1>5, <1>17, <2>2, LoadFields DEF Back, BusyPc, OutPc
  <2>5. NearTask(t, k)
    BY <2>1, <2>3, <2>4 DEF Fields, NearTask
  <2> QED
    BY <1>1, <1>17, <2>4, <2>5, NearLocal DEF Back, Fields
<1>18. ASSUME CharLoad PROVE NearInv'
  <2>1. Kept(task.c, u) /\ Near(task.c, task.at)
    BY <1>2, <1>5, <1>18 DEF CharLoad, NearTask
  <2>2. PICK v \in Nat : v = u + 1 /\ o <= v /\ v <= e
    BY <1>3, <2>1 DEF Kept
  <2>3. (u + 1) % MOD = v
    BY <1>3, <2>2
  <2>4. Near(task.c, v)
    BY <1>3, <2>2 DEF Near
  <2>5. PICK t \in TaskType : task' = t /\ Fields(t, "char_set", task.at, v, task.back)
    BY <1>1, <1>5, <1>18, <2>3, LoadFields DEF CharLoad, BusyPc, OutPc
  <2>6. NearTask(t, k)
    BY <2>1, <2>4, <2>5 DEF Fields, NearTask
  <2> QED
    BY <1>1, <1>18, <2>5, <2>6, NearLocal DEF CharLoad, Fields
<1>19. ASSUME LineSet \/ BackSet \/ CharSet PROVE NearInv'
  <2>1. StoreCursor(task.r) /\ Out /\ Near(task.c, task.r)
    BY <1>2, <1>19 DEF LineSet, BackSet, CharSet, NearTask
  <2>2. PICK t \in TaskType : task' = t /\ Fields(t, "loop", 0, 0, task.back)
    BY <1>1, <2>1, OutFields
  <2> QED
    BY <1>2, <1>8, <2>1, <2>2 DEF Fields, Watched
<1>20. ASSUME Loop PROVE NearInv'
  <2>1. PICK t \in TaskType : task' = t /\ Fields(t, "loop_test", task.at, u, task.back)
    BY <1>1, <1>5, <1>20, LoadFields DEF Loop, BusyPc, LoopPc
  <2>2. NearTask(t, k)
    BY <2>1 DEF Fields, NearTask
  <2> QED
    BY <1>1, <1>20, <2>1, <2>2, NearLocal DEF Loop, Fields
<1>21. ASSUME LoopTest PROVE NearInv'
  <2>1. PICK pc \in {"down", "flush"} : \E v \in {"done", "loop"} :
          task' = [task EXCEPT !.pc = pc, !.r = 0, !.back = v]
    BY <1>21 DEF LoopTest
  <2>2. pc \in BusyPc
    BY DEF BusyPc, ScrollPc, FlushPc
  <2>3. PICK t \in TaskType : task' = t /\ t.pc = pc /\ t.c = task.c
    BY <1>1, <2>1, <2>2, GoesOn DEF Moves
  <2>4. NearTask(t, k)
    BY <2>3 DEF NearTask
  <2> QED
    BY <1>1, <1>21, <2>3, <2>4, NearLocal DEF LoopTest
<1> QED
  BY <1>6, <1>7, <1>10, <1>11, <1>12, <1>13, <1>14, <1>15, <1>16, <1>17, <1>18, <1>19, <1>20,
     <1>21, Zenon DEF OutCharStep

\* scroll_screen moves the window, flush what is displayed, and neither a cursor.
LEMMA OtherNear ==
  ASSUME S!ScreenAssumption, IInv, NearInv, ScrollStep \/ FlushStep
  PROVE  NearInv'
<1>1. task.pc # "idle"
  BY DEF ScrollStep, Down, DownBy, Up, UpBy, Moved, FlushStep, FlushLoad, FlushCursor,
         FlushLoadStart, FlushStart
<1>2. task \in TaskType /\ con \in [S!Consoles -> Con] /\ task.r \in Nat
  BY DEF IInv, TaskType
<1>3. con' = con \/ Moved
  BY DEF ScrollStep, Down, DownBy, Up, UpBy, FlushStep, FlushLoad, FlushCursor,
         FlushLoadStart, FlushStart, Local
<1>4. \A d \in S!Consoles : con'[d].cursor = con[d].cursor
  <2>1. CASE con' = con
    BY <2>1
  <2>2. CASE Moved
    <3>1. PICK q \in Con : q = [k EXCEPT !.start = task.r] /\ con' = [con EXCEPT ![task.c] = q]
      BY <1>1, <1>2, <2>2, StartStored DEF Moved
    <3>2. q.cursor = con[task.c].cursor
      BY <1>1, <3>1, BusyType DEF k, c, Con
    <3> QED
      BY <1>2, <3>1, <3>2
  <2> QED
    BY <1>3, <2>1, <2>2
<1>5. task'.pc \notin Watched
  <2>1. ASSUME Return(task.back) PROVE task'.pc \notin Watched
    <3>1. \/ task'.pc \in {"idle", "enter"}
          \/ task.back = "loop" /\ task' = [task EXCEPT !.pc = "loop", !.r = 0]
      BY <1>2, <2>1 DEF Return, Idle, Task, TaskType
    <3> QED
      BY <1>2, <3>1 DEF TaskType, Watched
  <2>2. ASSUME NEW pc \in ScrollPc \cup FlushPc, NEW v, task' = [task EXCEPT !.pc = pc, !.r = v]
        PROVE  task'.pc \notin Watched
    BY <1>2, <2>2 DEF TaskType, Watched, ScrollPc, FlushPc, ShowPc
  <2>3. ASSUME ScrollStep
        PROVE  \E pc \in ScrollPc \cup FlushPc : Goto(pc) \/ \E v : Load(pc, v)
    BY <2>3 DEF ScrollStep, Down, DownBy, Up, UpBy, Moved, ScrollPc, FlushPc
  <2>4. ASSUME FlushStep
        PROVE  \/ Return(task.back)
               \/ \E pc \in ScrollPc \cup FlushPc : Goto(pc) \/ \E v : Load(pc, v)
    BY <2>4 DEF FlushStep, FlushLoad, FlushCursor, FlushLoadStart, FlushStart, FlushPc, ShowPc
  <2> QED
    BY <2>1, <2>2, <2>3, <2>4 DEF Goto, Load
<1> QED
  BY <1>4, <1>5, CalmStep

LEMMA BeginNear ==
  ASSUME NearInv, NEW pc \in {"enter", "up", "down", "flush"}, NEW d, NEW ch, NEW back,
         Begin(pc, d, ch, back), con' = con
  PROVE  NearInv'
<1>1. task'.pc \notin Watched
  BY DEF Begin, Task, Watched
<1> QED
  BY <1>1, CalmStep

LEMMA PrintxNear ==
  ASSUME S!ScreenAssumption, IInv, NearInv, NEW d \in S!Consoles, NEW ch, Printx(d, ch)
  PROVE  NearInv'
<1>1. con \in [S!Consoles -> Con] /\ con[d] \in Con /\ task \in TaskType /\ task.c \in S!Consoles
  BY DEF IInv, TaskType
<1>2. PICK q \in Con : /\ q = S!OutChar(d, con[d], ch) /\ Kept(d, q.cursor)
                       /\ S!Orig(d) <= con[d].cursor => S!Orig(d) <= q.cursor
  BY <1>1, OutCharEnds DEF NearInv
<1>3. con' = [con EXCEPT ![d] = q] /\ con'[d] = q
  BY <1>1, <1>2 DEF Printx
<1>4. ASSUME NEW e \in S!Consoles PROVE Near(e, con'[e].cursor)
  <2>1. CASE e = d
    BY <1>2, <1>3, <2>1, KeptNear
  <2>2. CASE e # d
    BY <1>1, <1>3, <2>2 DEF NearInv
  <2> QED
    BY <2>1, <2>2
<1>5. PICK t : /\ task' = t /\ t.pc = task.pc /\ t.c = task.c /\ t.at = task.at /\ t.r = task.r
  <2>1. task' = task \/ task' = [task EXCEPT !.old = Nothing]
    BY DEF Printx, Prints
  <2> QED
    BY <1>1, <2>1 DEF TaskType
<1>6. NearTask(t, con'[t.c])
  <2>1. CASE task.c = d
    BY <1>2, <1>3, <1>5, <2>1 DEF NearInv, NearTask
  <2>2. CASE task.c # d
    BY <1>1, <1>3, <1>5, <2>2 DEF NearInv, NearTask
  <2> QED
    BY <2>1, <2>2
<1> QED
  BY <1>4, <1>5, <1>6 DEF NearInv

LEMMA NextNear ==
  ASSUME ConsoleAssumption, IInv, NearInv, [Next]_vars
  PROVE  NearInv'
<1>1. S!ScreenAssumption /\ \A d \in Printed : d \in S!Consoles
  BY DEF ConsoleAssumption
<1>2. ASSUME NEW d, NEW ch, Echo(d, ch) PROVE NearInv'
  BY <1>2, BeginNear DEF Echo
<1>3. ASSUME NEW dir \in {"up", "down"}, BeginScroll(dir) PROVE NearInv'
  BY <1>3, BeginNear DEF BeginScroll
<1>4. ASSUME NEW d, Select(d) PROVE NearInv'
  BY <1>4, BeginNear DEF Select
<1>5. ASSUME UNCHANGED vars PROVE NearInv'
  BY <1>5 DEF vars, NearInv
<1> QED
  BY <1>1, <1>2, <1>3, <1>4, <1>5, OutCharNear, OtherNear, PrintxNear, Zenon DEF Next, TaskStep

LEMMA InitNear == ASSUME ConsoleAssumption, Init PROVE NearInv
<1>1. S!ScreenAssumption
  BY DEF ConsoleAssumption
<1>2. \A d \in S!Consoles : Good(d, con[d])
  BY InitOK DEF IInv, Busy, Init, Idle, Task
<1>3. ASSUME NEW d \in S!Consoles PROVE Near(d, con[d].cursor)
  BY <1>1, <1>2, Sizes DEF Good, Con, Near
<1>4. task.pc = "idle"
  BY DEF Init, Idle, Task
<1> QED
  BY <1>3, <1>4 DEF NearInv, NearTask

----------------------------------------------------------------------------
(* Where a character goes *)

\* A cell that is near is around the memory, and so is the one before it.
LEMMA NearAround ==
  ASSUME S!ScreenAssumption, NEW d \in S!Consoles, NEW x, Near(d, x)
  PROVE  x \in Around(d) /\ (x - 1) % MOD \in Around(d)
<1>1. PICK o \in Nat, e \in Nat : /\ o = S!Orig(d) /\ e = S!End(d) /\ e = o + LIMIT
                                  /\ e + WIDTH < MOD /\ MOD \in Nat /\ WIDTH \in Nat /\ LIMIT \in Nat
                                  /\ 1 <= WIDTH /\ WIDTH + 1 < LIMIT
  BY Sizes
<1>2. ASSUME NEW n \in Int, -2 <= n, n < LIMIT + WIDTH PROVE (o + n) % MOD \in Around(d)
  <2>1. n \in -2 .. LIMIT + WIDTH - 1
    BY <1>1, <1>2
  <2> QED
    BY <1>1, <2>1 DEF Around
<1>3. CASE o <= x + 1 /\ x < e + WIDTH
  <2>1. x \in Nat
    BY DEF Near
  <2>2. PICK n \in Int : n = x - o
    BY <2>1
  <2>3. PICK m \in Int : m = n - 1
    OBVIOUS
  <2>4. (o + n) % MOD \in Around(d) /\ (o + m) % MOD \in Around(d)
    BY <1>1, <1>2, <1>3, <2>1, <2>2, <2>3
  <2>5. o + n = x /\ o + m = x - 1
    BY <2>1, <2>2, <2>3
  <2>6. x % MOD = x
    BY <1>1, <1>3, <2>1
  <2> QED
    BY <2>4, <2>5, <2>6
<1>4. CASE x = (o - 1) % MOD
  <2>1. CASE o # 0
    <3>1. PICK y \in Nat : y = o - 1 /\ y < MOD
      BY <1>1, <2>1
    <3>2. x = y
      BY <1>1, <1>4, <3>1
    <3> QED
      BY <1>1, <1>3, <3>1, <3>2
  <2>2. CASE o = 0
    <3>1. PICK y \in Int : y = o - 1
      OBVIOUS
    <3>2. PICK z \in Int : z = o - 2
      OBVIOUS
    <3>3. y % MOD = MOD - 1 /\ z % MOD = MOD - 2
      <4>1. PICK n \in Nat : n = 1 /\ 0 < n /\ n <= MOD /\ y = 0 - n
        BY <1>1, <2>2, <3>1
      <4>2. PICK m \in Nat : m = 2 /\ 0 < m /\ m <= MOD /\ z = 0 - m
        BY <1>1, <2>2, <3>2
      <4>3. y % MOD = MOD - n /\ z % MOD = MOD - m
        <5>1. MOD \in Nat
          BY <1>1
        <5>2. y % MOD = MOD - n
          BY <3>1, <4>1, <5>1, Below0, Zenon
        <5>3. z % MOD = MOD - m
          BY <3>2, <4>2, <5>1, Below0, Zenon
        <5> QED
          BY <5>2, <5>3
      <4> QED
        BY <4>1, <4>2, <4>3
    <3>4. x = MOD - 1
      BY <1>4, <3>1, <3>3
    <3>5. (x - 1) % MOD = MOD - 2
      <4>1. PICK v \in Nat : v = x - 1 /\ v < MOD /\ v = MOD - 2
        BY <1>1, <3>4
      <4> QED
        BY <1>1, <4>1
    <3>6. (o + (-1)) % MOD \in Around(d) /\ (o + (-2)) % MOD \in Around(d)
      <4>1. PICK n \in Int : n = -1 /\ -2 <= n /\ n < LIMIT + WIDTH
        BY <1>1
      <4>2. PICK m \in Int : m = -2 /\ -2 <= m /\ m < LIMIT + WIDTH
        BY <1>1
      <4> QED
        BY <1>2, <4>1, <4>2
    <3>7. o + (-1) = y /\ o + (-2) = z
      BY <3>1, <3>2
    <3> QED
      BY <3>3, <3>4, <3>5, <3>6, <3>7
  <2> QED
    BY <2>1, <2>2
<1> QED
  BY <1>1, <1>3, <1>4 DEF Near

\* A console that is not spoilt has its cursor in its memory, also in the middle of an
\* operation.
LEMMA CursorInside ==
  ASSUME S!ScreenAssumption, IInv, NEW d \in S!Consoles \ spoilt
  PROVE  con[d].cursor \in S!Cells(d)
<1>1. ASSUME NEW q, Good(d, q) PROVE q.cursor \in S!Cells(d)
  BY <1>1, Sizes DEF Good, Con, S!Cells
<1>2. CASE ~Busy(d)
  BY <1>1, <1>2 DEF IInv
<1>3. CASE Busy(d)
  <2>1. task.c = d /\ task.pc # "idle" /\ task.c \notin spoilt
    BY <1>3 DEF Busy
  <2>2. /\ task \in TaskType /\ TaskOK(task, k, crtc, current) /\ k \in Con /\ k = con[d]
        /\ Good(d, task.old) /\ task.pc \in BusyPc /\ task.r \in Nat
    BY <2>1, BusyFacts DEF TaskOK, k, c, TaskType
  <2>3. Good(d, S!Top(d)) /\ Good(d, Room(d, task.old))
    BY <2>2, TopGood DEF Room
  <2>4. S!Orig(d) \in S!Cells(d)
    BY Sizes DEF S!Cells
  <2>5. ASSUME NEW q, Shows(task, q) PROVE q.cursor \in S!Cells(d)
    <3>1. Good(d, S!OutChar(d, task.old, task.ch))
      BY <2>2, OutCharGood
    <3>2. Good(d, S!ScrollUp(d, task.old)) /\ Good(d, S!ScrollDown(d, task.old))
      BY <2>2, ScrollUpGood, ScrollDownGood
    <3> QED
      BY <1>1, <2>1, <2>2, <2>5, <3>1, <3>2 DEF Shows, Written
  <2>6. CASE task.pc \in OutPc
    <3>1. CASE task.pc \in {"top_start", "line_start"}
      <4>1. PICK o \in Con : k = [o EXCEPT !.cursor = S!Orig(d)]
        BY <2>1, <2>2, <2>3, <3>1 DEF TaskOK, OutOK, Good
      <4> QED
        BY <2>2, <2>4, <4>1 DEF Con
    <3>2. CASE task.pc \notin {"top_start", "line_start"}
      <4>1. k = task.old \/ k = S!Top(d) \/ k = Room(d, task.old)
        BY <2>1, <2>2, <2>6, <3>2 DEF TaskOK, OutOK, OutPc
      <4> QED
        BY <1>1, <2>2, <2>3, <4>1
    <3> QED
      BY <3>1, <3>2
  <2>7. CASE task.pc \in LoopPc \cup {"down", "down_by", "up", "up_by"}
    <3>1. Good(d, k)
      BY <2>1, <2>2, <2>7 DEF TaskOK, ScrollOK, Written
    <3> QED
      BY <1>1, <2>2, <3>1
  <2>8. CASE task.pc = "moved"
    <3>1. PICK q : q = [k EXCEPT !.start = task.r]
      OBVIOUS
    <3>2. q.cursor = k.cursor
      BY <2>2, <3>1 DEF Con
    <3>3. Shows(task, q)
      BY <2>2, <2>8, <3>1 DEF TaskOK, ScrollOK
    <3> QED
      BY <2>2, <2>5, <3>2, <3>3
  <2>9. CASE task.pc \in FlushPc
    BY <2>2, <2>5, <2>9 DEF TaskOK, FlushOK
  <2> QED
    BY <2>2, <2>6, <2>7, <2>8, <2>9 DEF BusyPc, ScrollPc
<1> QED
  BY <1>2, <1>3

LEMMA Own == ASSUME ConsoleAssumption, IInv, NearInv PROVE OwnMemory
<1>1. S!ScreenAssumption
  BY DEF ConsoleAssumption
<1>2. ASSUME NEW d \in S!Consoles, NEW u \in S!Cells(d), u > S!Orig(d)
      PROVE  (u - 1) % MOD \in S!Cells(d)
  <2>1. u \in Nat /\ u < S!End(d)
    BY <1>1, <1>2, Sizes DEF S!Cells
  <2>2. (u - 1) % MOD = u - 1
    BY <1>1, <1>2, <2>1, Sizes
  <2> QED
    BY <1>1, <1>2, <2>1, <2>2, Sizes DEF S!Cells
<1>3. Echoing \subseteq IF task.c \in spoilt THEN Around(task.c) ELSE S!Cells(task.c)
  <2>1. CASE task.pc \notin {"char", "back_set"}
    BY <2>1 DEF Echoing
  <2>2. CASE task.pc \in {"char", "back_set"} /\ task.c \notin spoilt
    <3>1. TaskOK(task, k, crtc, current) /\ task.c \in S!Consoles /\ task.pc # "idle" /\ k = con[task.c]
      BY <2>2, BusyFacts DEF k, c
    <3>2. task.at = k.cursor /\ (task.pc = "back_set" => k.cursor > S!Orig(task.c))
      BY <2>2, <3>1 DEF TaskOK, OutOK
    <3>3. task.at \in S!Cells(task.c)
      BY <1>1, <2>2, <3>1, <3>2, CursorInside
    <3>4. task.pc = "back_set" => (task.at - 1) % MOD \in S!Cells(task.c)
      BY <1>2, <3>1, <3>2, <3>3
    <3> QED
      BY <2>2, <3>3, <3>4 DEF Echoing
  <2>3. CASE task.pc \in {"char", "back_set"} /\ task.c \in spoilt
    <3>1. task.c \in S!Consoles /\ Near(task.c, task.at)
      BY <2>3 DEF NearInv, NearTask, IInv, TaskType
    <3> QED
      BY <1>1, <2>3, <3>1, NearAround DEF Echoing
  <2> QED
    BY <2>1, <2>2, <2>3
<1>4. ASSUME NEW d \in Printed, NEW ch \in S!Char
      PROVE  Printing(d, ch) \subseteq IF d \in spoilt THEN Around(d) ELSE S!Cells(d)
  <2>1. d \in S!Consoles /\ con[d] \in Con /\ con[d].cursor \in Nat
    BY DEF ConsoleAssumption, IInv, Con
  <2>2. PICK at : at = IF S!Full(d, con[d].cursor) THEN S!Orig(d) ELSE con[d].cursor
    OBVIOUS
  <2>3. Printing(d, ch) \subseteq {at} \cup (IF at > S!Orig(d) THEN {(at - 1) % MOD} ELSE {})
    BY <2>2 DEF Printing
  <2>4. CASE d \notin spoilt
    <3>1. con[d].cursor \in S!Cells(d) /\ S!Orig(d) \in S!Cells(d)
      BY <1>1, <2>1, <2>4, CursorInside, Sizes DEF S!Cells
    <3>2. at \in S!Cells(d) /\ (at > S!Orig(d) => (at - 1) % MOD \in S!Cells(d))
      BY <1>2, <2>1, <2>2, <3>1
    <3> QED
      BY <2>3, <2>4, <3>2
  <2>5. CASE d \in spoilt
    <3>1. Near(d, S!Orig(d))
      BY <1>1, <2>1, Sizes DEF Near
    <3>2. Near(d, at)
      BY <2>1, <2>2, <3>1 DEF NearInv
    <3> QED
      BY <1>1, <2>1, <2>3, <2>5, <3>2, NearAround
  <2> QED
    BY <2>4, <2>5
<1> QED
  BY <1>3, <1>4 DEF OwnMemory, c

----------------------------------------------------------------------------
(* The theorems *)

\* The invariant, for any consoles the assumptions allow.
THEOREM Invariance == ConsoleAssumption => (Spec => []IInv)
<1> SUFFICES ASSUME ConsoleAssumption PROVE Spec => []IInv
  OBVIOUS
<1>1. Init => IInv
  BY InitOK
<1>2. IInv /\ [Next]_vars => IInv'
  BY Step DEF Goes
<1> QED
  BY <1>1, <1>2, PTL DEF Spec

\* task_tty, preempted between any two accesses to a CONSOLE, and sys_printx do what
\* Screen does in whole operations, one after the other; where both are at a console
\* only that one suffers, until it is found whole again (console.c:74-214).
THEOREM ScreenImplemented == ConsoleAssumption => (Spec => ImplementsScreen)
<1> SUFFICES ASSUME ConsoleAssumption PROVE Spec => ImplementsScreen
  OBVIOUS
<1>1. Init => S!Init
  BY InitOK
<1>2. IInv /\ [Next]_vars => [UNCHANGED S!vars \/ S!Next]_(S!vars)
  BY Step, Zenon DEF Goes, Simulates
<1> QED
  BY <1>1, <1>2, Invariance, PTL DEF Spec, ImplementsScreen

\* Which is to say that it implements the specification of Screen.
THEOREM Refinement == ConsoleAssumption => (Spec => S!Spec)
<1> SUFFICES ASSUME ConsoleAssumption PROVE Spec => S!Spec
  OBVIOUS
<1>1. (UNCHANGED S!vars \/ S!Next) => [S!Next]_(S!vars)
  BY Zenon
<1>2. ImplementsScreen => S!Spec
  BY <1>1, PTL DEF ImplementsScreen, S!Spec
<1> QED
  BY <1>2, ScreenImplemented, PTL

\* Cursor and window of a console that is not spoilt are in its own memory, also
\* across the wrap of the unsigned addresses (console.c:78-126, 200-205).
THEOREM InsideCorrect == ConsoleAssumption => (Spec => []StaysInside)
<1> SUFFICES ASSUME ConsoleAssumption PROVE Spec => []StaysInside
  OBVIOUS
<1>1. S!ScreenAssumption
  BY DEF ConsoleAssumption
<1>2. IInv => StaysInside
  BY <1>1, ShownGood, WholeGood DEF Good, StaysInside, S!StaysInside
<1> QED
  BY <1>2, Invariance, PTL

\* The display shows the current console as it is, unless that one is spoilt (flush,
\* console.c:136).
THEOREM ShownCorrect == ConsoleAssumption => (Spec => []ShowsCurrent)
<1> SUFFICES ASSUME ConsoleAssumption PROVE Spec => []ShowsCurrent
  OBVIOUS
<1>1. IInv => ShowsCurrent
  BY ShownGood DEF ShowsCurrent, S!ShowsCurrent
<1> QED
  BY <1>1, Invariance, PTL

\* The cursor of a console that is not spoilt has moved only to be above the end of
\* its window: the loop of out_char (console.c:122) has ended, and not because it came
\* to the end of the memory.  In sys_printx it ends so whatever record it found.
THEOREM FollowCorrect == ConsoleAssumption => (Spec => FollowsCursor)
<1> SUFFICES ASSUME ConsoleAssumption PROVE Spec => FollowsCursor
  OBVIOUS
<1>1. S!ScreenAssumption /\ \A d \in Printed : d \in S!Consoles
  BY DEF ConsoleAssumption
<1>2. IInv /\ [Next]_vars => [S!Followed]_(S!vars)
  BY <1>1, Step, FollowedStep, Zenon DEF Goes
<1> DEFINE Ends == \A d \in Printed, ch \in S!Char :
                     con'[d].cursor >= S!WindowEnd(con'[d].start) => ~Printx(d, ch)
<1>3. IInv /\ [Next]_vars => [Ends]_vars
  <2> SUFFICES ASSUME IInv, NEW d \in Printed, NEW ch \in S!Char, Printx(d, ch)
               PROVE  ~(con'[d].cursor >= S!WindowEnd(con'[d].start))
    OBVIOUS
  <2>1. PICK p : p = S!OutChar(d, con[d], ch) /\ con'[d] = p /\ con[d] \in Con
    BY <1>1 DEF Printx, IInv
  <2>2. p \in Con /\ p.cursor < S!WindowEnd(p.start)
    BY <1>1, <2>1, OutCharEnds
  <2>3. PICK u \in Nat : u = p.cursor
    BY <2>2 DEF Con
  <2>4. PICK e \in Nat : e = S!WindowEnd(p.start)
    <3>1. PICK s \in Nat : s = p.start
      BY <2>2 DEF Con
    <3>2. (s + SCREEN) % MOD \in Nat
      BY <1>1, Sizes DEF S!ScreenAssumption
    <3> QED
      BY <3>1, <3>2 DEF S!WindowEnd
  <2> QED
    BY <2>1, <2>2, <2>3, <2>4
<1> QED
  BY <1>2, <1>3, Invariance, PTL DEF Spec, FollowsCursor, S!FollowsCursor

\* A character is put into the memory of the console it is written to, although the
\* address was taken before the record was tested (console.c:76, 105-118); where both
\* are at the console, less than a line beyond it or two cells before it.
THEOREM OwnCorrect == ConsoleAssumption => (Spec => []OwnMemory)
<1> SUFFICES ASSUME ConsoleAssumption PROVE Spec => []OwnMemory
  OBVIOUS
<1>1. Init => NearInv
  BY InitNear
<1>2. IInv /\ NearInv /\ [Next]_vars => NearInv'
  BY NextNear
<1>3. IInv /\ NearInv => OwnMemory
  BY Own
<1> QED
  BY <1>1, <1>2, <1>3, Invariance, PTL DEF Spec

\* Every scroll_screen the loop of out_char calls on a console that is not spoilt
\* moves the window on (console.c:122, 205): the loop ends.
THEOREM LoopCorrect == ConsoleAssumption => (Spec => LoopScrolls)
<1> SUFFICES ASSUME ConsoleAssumption PROVE Spec => LoopScrolls
  OBVIOUS
<1>1. S!ScreenAssumption
  BY DEF ConsoleAssumption
<1>2. IInv /\ [Next]_vars =>
        [/\ task.pc = "down" /\ task.back = "loop" /\ task.c \notin spoilt
         /\ task'.pc # "down"
         => task'.pc = "down_by"]_vars
  BY <1>1, LoopMoves, Zenon
<1> QED
  BY <1>2, Invariance, PTL DEF Spec, LoopScrolls
=============================================================================
