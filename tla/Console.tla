------------------------------ MODULE Console ------------------------------
(***************************************************************************)
(* The consoles with their two writers: task_tty, which echoes keys and     *)
(* scrolls, and sys_printx, which prints for the other processes            *)
(* (kernel/tty.c, kernel/console.c).                                        *)
(*                                                                          *)
(* task_tty runs in ring 1 and can be preempted between any two             *)
(* instructions; nothing protects the CONSOLE it works on.  Its out_char    *)
(* and scroll_screen are therefore cut at every access to the record (the   *)
(* kernel is built without optimisation, so that each is a load or a store  *)
(* of its own).  sys_printx runs in the kernel, where nothing is scheduled: *)
(* task_tty sees a printed character as one step.  It may come in the       *)
(* middle of an operation of task_tty on the same console, which is then    *)
(* spoilt (see Screen).                                                     *)
(***************************************************************************)
EXTENDS Integers

CONSTANTS NR, WIDTH, SCREEN, LIMIT, VMEM, MOD,  \* as in Screen
          Printed   \* consoles the processes print on

VARIABLES con, current, crtc, spoilt,  \* as in Screen
          task                         \* what task_tty is doing, see Task

vars == <<con, current, crtc, spoilt, task>>

\* task_tty is at pc in an operation on console c: `at' is p_vmem, as a cell, `r'
\* the number it has just computed from the record, `back' where flush() returns
\* to, and `old' the record when the operation began (Nothing when the console is
\* spoilt).  What is not read any more is 0.
Task(pc, c, ch, old, back) ==
  [pc |-> pc, c |-> c, ch |-> ch, at |-> 0, r |-> 0, back |-> back, old |-> old]
Nothing == [cursor |-> 0, start |-> 0]
Idle == Task("idle", 0, "char", Nothing, "idle")

\* As long as an operation of task_tty is not finished, Screen has the console as it
\* was before; one that is spoilt it has as it is.
Busy(c) == task.pc # "idle" /\ task.c = c
Before(c) == Busy(c) /\ c \notin spoilt
ShownCon == [c \in 0 .. NR - 1 |-> IF Before(c) THEN task.old ELSE con[c]]
ShownCrtc == IF Before(current) THEN task.old ELSE crtc

S == INSTANCE Screen WITH con <- ShownCon, crtc <- ShownCrtc

ASSUME ConsoleAssumption ==
  S!ScreenAssumption /\ Printed \subseteq S!Consoles

Init ==
  con \in S!InitialCon /\ current = 0 /\ crtc = con[0] /\ spoilt = {} /\ task = Idle

\* Console d is not spoilt when its record q is whole.
Finds(d, q) == spoilt' = IF S!Whole(d, q) THEN spoilt \ {d} ELSE spoilt

----------------------------------------------------------------------------
(* Steps of task_tty on the record k of its console *)

c == task.c
k == con[task.c]

\* It goes on at pc, or in the loop after the switch.
Goto(pc) == task' = [task EXCEPT !.pc = pc, !.r = 0]
Out == task' = [task EXCEPT !.pc = "loop", !.at = 0, !.r = 0]
Load(pc, value) == task' = [task EXCEPT !.pc = pc, !.r = value]
StoreCursor(value) == con' = [con EXCEPT ![c].cursor = value]
StoreStart(value) == con' = [con EXCEPT ![c].start = value]

Local == UNCHANGED <<con, current, crtc, spoilt>>
Changed == UNCHANGED <<current, crtc, spoilt>>

\* An operation begins.
Begin(pc, d, ch, back) ==
  /\ task.pc = "idle" /\ Finds(d, con[d])
  /\ task' = Task(pc, d, ch, IF d \in spoilt' THEN Nothing ELSE con[d], back)

\* tty_do_write: a character of the input buffer goes to out_char.
Echo(d, ch) == Begin("enter", d, ch, "done") /\ UNCHANGED <<con, current, crtc>>

\* The address of the cell under the cursor (76).
Address == task.pc = "enter" /\ task' = [task EXCEPT !.pc = "full", !.at = k.cursor] /\ Local

TestFull ==
  /\ task.pc = "full" /\ Goto(IF S!Full(c, k.cursor) THEN "top" ELSE "switch")
  /\ Local

\* A full console begins again at its top, and the video memory is cleared.
ToTop == task.pc = "top" /\ StoreCursor(S!Orig(c)) /\ Goto("top_start") /\ Changed
ToTopStart ==
  task.pc = "top_start" /\ StoreStart(S!Orig(c)) /\ Goto("clear") /\ Changed
Clear == task.pc = "clear" /\ Goto("top_again") /\ Local  \* S!Cleared
AddressAgain ==
  task.pc = "top_again" /\ task' = [task EXCEPT !.pc = "switch", !.at = k.cursor] /\ Local

\* Mutant of Switch: the tests at 105 and 112 are missing.
SwitchUntested ==
  /\ task.pc = "switch" /\ Local
  /\ \/ task.ch = "newline" /\ Goto("line")
     \/ task.ch = "backspace" /\ Goto("back")
     \/ task.ch = "char" /\ Goto("char")

Switch ==
  /\ task.pc = "switch" /\ Local
  /\ \/ /\ task.ch = "newline"
        /\ Goto(IF k.cursor < S!End(c) - WIDTH THEN "line" ELSE "line_top")
     \/ /\ task.ch = "backspace"
        /\ IF k.cursor > S!Orig(c) THEN Goto("back") ELSE Out
     \/ /\ task.ch = "char"
        /\ IF S!Full(c, k.cursor) THEN Out ELSE Goto("char")

\* '\n'
Line == task.pc = "line" /\ Load("line_set", S!NextLine(c, k.cursor)) /\ Local
LineSet == task.pc = "line_set" /\ StoreCursor(task.r) /\ Out /\ Changed
LineTop == task.pc = "line_top" /\ StoreCursor(S!Orig(c)) /\ Goto("line_start") /\ Changed
LineStart == task.pc = "line_start" /\ StoreStart(S!Orig(c)) /\ Out /\ Changed

\* '\b': the character before p_vmem, wherever the cursor is by now, is erased.
Back == task.pc = "back" /\ Load("back_set", (k.cursor - 1) % MOD) /\ Local
BackSet == task.pc = "back_set" /\ StoreCursor(task.r) /\ Out /\ Changed

\* Any other character is written to p_vmem.
CharLoad == task.pc = "char" /\ Load("char_set", (k.cursor + 1) % MOD) /\ Local
CharSet == task.pc = "char_set" /\ StoreCursor(task.r) /\ Out /\ Changed

\* The loop at 122: as long as the cursor is not above the end of the window,
\* scroll_screen(SCR_DN).
Loop == task.pc = "loop" /\ Load("loop_test", k.cursor) /\ Local
\* Mutant of LoopTest: the window is moved once, as if 122 were an `if'.
LoopTestOnce ==
  /\ task.pc = "loop_test" /\ Local
  /\ task' = IF task.r >= S!WindowEnd(k.start)
             THEN [task EXCEPT !.pc = "down", !.r = 0, !.back = "done"]
             ELSE [task EXCEPT !.pc = "flush", !.r = 0, !.back = "done"]

LoopTest ==
  /\ task.pc = "loop_test" /\ Local
  /\ task' = IF task.r >= S!WindowEnd(k.start)
             THEN [task EXCEPT !.pc = "down", !.r = 0, !.back = "loop"]
             ELSE [task EXCEPT !.pc = "flush", !.r = 0, !.back = "done"]

\* scroll_screen
BeginScroll(dir) == Begin(dir, current, "char", "idle") /\ UNCHANGED <<con, current, crtc>>

\* Mutant of Down: the last line of the console is never shown.
DownButLast ==
  /\ task.pc = "down" /\ Local
  /\ Goto(IF S!CanScroll(c, k.start + WIDTH) THEN "down_by" ELSE "flush")

Down == task.pc = "down" /\ Goto(IF S!CanScroll(c, k.start) THEN "down_by" ELSE "flush") /\ Local
DownBy == task.pc = "down_by" /\ Load("moved", (k.start + WIDTH) % MOD) /\ Local
Up == task.pc = "up" /\ Goto(IF k.start > S!Orig(c) THEN "up_by" ELSE "flush") /\ Local
UpBy == task.pc = "up_by" /\ Load("moved", (k.start - WIDTH) % MOD) /\ Local
Moved == task.pc = "moved" /\ StoreStart(task.r) /\ Goto("flush") /\ Changed

\* flush: the arguments are loaded before set_cursor and set_video_start_addr
\* disable interrupts.
Return(pc) ==
  task' = IF pc = "idle" \/ (pc = "done" /\ task.ch # "newline") THEN Idle
          ELSE IF pc = "done" THEN  \* '#'
            Task("enter", c, "char", IF c \in spoilt THEN Nothing ELSE k, "done")
          ELSE [task EXCEPT !.pc = pc, !.r = 0]

\* Mutant of FlushLoad: it does not ask whether the console is the current one.
FlushLoadAlways == task.pc = "flush" /\ Local /\ Load("flush_cursor", k.cursor)

FlushLoad ==
  /\ task.pc = "flush" /\ Local
  /\ IF c = current THEN Load("flush_cursor", k.cursor) ELSE Return(task.back)
FlushCursor ==
  /\ task.pc = "flush_cursor" /\ crtc' = [crtc EXCEPT !.cursor = task.r] /\ Goto("flush_load")
  /\ UNCHANGED <<con, current, spoilt>>
FlushLoadStart == task.pc = "flush_load" /\ Load("flush_start", k.start) /\ Local
FlushStart ==
  /\ task.pc = "flush_start" /\ crtc' = [crtc EXCEPT !.start = task.r] /\ Return(task.back)
  /\ UNCHANGED <<con, current, spoilt>>

\* select_console
Select(d) == Begin("flush", d, "char", "idle") /\ current' = d /\ UNCHANGED <<con, crtc>>

OutCharStep == \/ Address \/ TestFull \/ ToTop \/ ToTopStart \/ Clear \/ AddressAgain
               \/ Switch \/ Line \/ LineSet \/ LineTop \/ LineStart \/ Back \/ BackSet
               \/ CharLoad \/ CharSet \/ Loop \/ LoopTest
ScrollStep == Down \/ DownBy \/ Up \/ UpBy \/ Moved
FlushStep == FlushLoad \/ FlushCursor \/ FlushLoadStart \/ FlushStart
TaskStep == OutCharStep \/ ScrollStep \/ FlushStep

----------------------------------------------------------------------------
(* sys_printx *)

\* Console d is spoilt when task_tty is at it, too.
Prints(d) ==
  IF Busy(d) THEN spoilt' = spoilt \cup {d} /\ task' = [task EXCEPT !.old = Nothing]
  ELSE Finds(d, con'[d]) /\ task' = task

\* Mutant of Printx: what is printed is shown, whatever console is the current one.
PrintxShown(d, ch) ==
  /\ con' = [con EXCEPT ![d] = S!OutChar(d, con[d], ch)]
  /\ crtc' = con'[d]
  /\ Prints(d) /\ UNCHANGED current

Printx(d, ch) ==
  /\ con' = [con EXCEPT ![d] = S!OutChar(d, con[d], ch)]
  /\ crtc' = IF d = current THEN con'[d] ELSE crtc
  /\ Prints(d) /\ UNCHANGED current

Next == \/ \E d \in S!Consoles, ch \in S!Char : Echo(d, ch)
        \/ \E dir \in {"up", "down"} : BeginScroll(dir)
        \/ \E d \in S!Consoles : Select(d)
        \/ TaskStep
        \/ \E d \in Printed, ch \in S!Char : Printx(d, ch)

Spec == Init /\ [][Next]_vars

----------------------------------------------------------------------------
(* Properties *)

\* Whatever is preempted where, the operations of task_tty and the characters
\* printed take effect one after the other, each as a whole; where they meet on a
\* console, no other console suffers.  (This is S!Spec; the steps in the middle of an
\* operation are named first, as there are so many.)
ImplementsScreen == S!Init /\ [][UNCHANGED S!vars \/ S!Next]_(S!vars)

\* Between operations cursor and window of a console that is not spoilt are in its
\* own memory, and the display shows the current console as it is, unless that is
\* spoilt (console.c:78-122, 136-142, 200-205).
StaysInside == S!StaysInside
ShowsCurrent == S!ShowsCurrent

\* After a character the cursor is above the end of the window, wherever the user
\* had scrolled.  In the kernel that is so whatever record sys_printx found: its loop
\* ends always.
FollowsCursor ==
  /\ S!FollowsCursor
  /\ [][\A d \in Printed, ch \in S!Char :
           con'[d].cursor >= S!WindowEnd(con'[d].start) => ~Printx(d, ch)]_vars

\* In the loop at 122 the window moves on with every scroll_screen, unless the
\* console is spoilt: the loop ends, also at the end of the memory, where
\* scroll_screen moves nothing.
LoopScrolls ==
  [][/\ task.pc = "down" /\ task.back = "loop" /\ task.c \notin spoilt
     /\ task'.pc # "down"
     => task'.pc = "down_by"]_vars

\* The cells task_tty is about to put a character into, and those a character that
\* is printed next would be put into.
Echoing == IF task.pc = "char" THEN {task.at}
           ELSE IF task.pc = "back_set" THEN {(task.at - 1) % MOD} ELSE {}
Printing(d, ch) ==
  LET at == IF S!Full(d, con[d].cursor) THEN S!Orig(d) ELSE con[d].cursor
  IN  IF ch = "char" THEN {at}
      ELSE IF ch = "backspace" /\ at > S!Orig(d) THEN {(at - 1) % MOD} ELSE {}

\* The memory of console d with two cells before it and less than a line after it.
Around(d) == {(S!Orig(d) + n) % MOD : n \in -2 .. LIMIT + WIDTH - 1}

\* A character goes to the memory of the console it is written to: what
\* original_addr and v_mem_limit are for (console.h:14-15).  When the console is
\* spoilt it may miss it, by no more than that.  (Clear is something else: S!Cleared
\* is the memory of all consoles and as much again, see 83-89 and console.h:37.)
OwnMemory ==
  /\ Echoing \subseteq IF c \in spoilt THEN Around(c) ELSE S!Cells(c)
  /\ \A d \in Printed, ch \in S!Char :
       Printing(d, ch) \subseteq IF d \in spoilt THEN Around(d) ELSE S!Cells(d)
=============================================================================
