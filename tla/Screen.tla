------------------------------ MODULE Screen ------------------------------
(***************************************************************************)
(* What the consoles of kernel/console.c promise: the video memory is       *)
(* divided among NR consoles; each has a cursor and a window that follows   *)
(* it, and the display shows the current one.  Every operation is one step. *)
(*                                                                          *)
(* Two writers that are at the same console at a time spoil it: nothing is  *)
(* promised of its record, and of the display while it is the current one,  *)
(* until an operation finds the record whole again.  The other consoles do  *)
(* not suffer.                                                              *)
(*                                                                          *)
(* Which cells are written is modelled, and not what they hold.  The fields *)
(* of a CONSOLE are unsigned 32 bit numbers: arithmetic is modulo MOD.      *)
(***************************************************************************)
EXTENDS Integers, FiniteSetsExt

CONSTANTS NR,      \* NR_CONSOLES
          WIDTH,   \* SCREEN_WIDTH
          SCREEN,  \* SCREEN_SIZE, the cells of the window
          LIMIT,   \* con_v_mem_size, the cells of one console
          VMEM,    \* V_MEM_SIZE >> 1, the cells of the video memory
          MOD      \* 2^32

ScreenAssumption ==
  /\ NR \in Nat \ {0} /\ WIDTH \in Nat \ {0}
  /\ SCREEN \in Nat /\ WIDTH <= SCREEN
  /\ LIMIT \in Nat /\ SCREEN < LIMIT /\ WIDTH + 1 < LIMIT
  /\ VMEM \in Nat /\ NR * LIMIT <= VMEM
  /\ MOD \in Nat /\ NR * LIMIT + SCREEN + WIDTH < MOD

VARIABLES
  con,      \* console_table: the cursor and the start of the window of each
  current,  \* nr_current_console
  crtc,     \* the cursor and the start of the window the display uses
  spoilt    \* the consoles that have been spoilt (not in the code)

vars == <<con, current, crtc, spoilt>>

Consoles == 0 .. NR - 1
Char == {"char", "newline", "backspace"}

\* original_addr, and one past the last cell of the console
Orig(c) == c * LIMIT
End(c) == Orig(c) + LIMIT
Cells(c) == Orig(c) .. End(c) - 1
Top(c) == [cursor |-> Orig(c), start |-> Orig(c)]

\* Cursor and window of the record k of console c are in its memory, the window at
\* the beginning of a line and its end less than a line beyond the memory.
Whole(c, k) ==
  /\ k.cursor \in Cells(c)
  /\ \E line \in 0 .. LIMIT : k.start = Orig(c) + WIDTH * line
  /\ k.start + SCREEN < End(c) + WIDTH

\* The cells the loop at 86 clears: as many as the video memory has bytes.
Cleared == 0 .. 2 * VMEM - 1

----------------------------------------------------------------------------
(* out_char on the console record k of console c, part by part *)

\* There is no room for another character.
Full(c, cursor) == cursor >= End(c) - 1

\* The cell at the beginning of the next line.
NextLine(c, cursor) ==
  (Orig(c) + WIDTH * (((cursor - Orig(c)) % MOD) \div WIDTH + 1)) % MOD

NewLine(c, k) ==
  IF k.cursor < End(c) - WIDTH
  THEN [k EXCEPT !.cursor = NextLine(c, k.cursor)] ELSE Top(c)

\* Mutant of BackSpace: the first cell is not treated apart.
BackSpaceAnywhere(c, k) == [k EXCEPT !.cursor = @ - 1]

BackSpace(c, k) ==
  IF k.cursor > Orig(c) THEN [k EXCEPT !.cursor = @ - 1] ELSE k

Put(c, k) ==
  IF Full(c, k.cursor) THEN k ELSE [k EXCEPT !.cursor = @ + 1]

\* One past the last cell of the window; the window can be moved a line on (205).
WindowEnd(start) == (start + SCREEN) % MOD
CanScroll(c, start) == WindowEnd(start) < End(c)

\* The window moves on line by line until the cursor is above its end.  (The loop
\* of the code ends only there: it would run for ever at the end of the memory.  There
\* is no longer way than through the memory of all consoles.)
Follow(c, k) ==
  LET at(n) == (k.start + WIDTH * n) % MOD
      lines == Min({n \in 0 .. (NR * LIMIT) \div WIDTH + 1 :
                      k.cursor < WindowEnd(at(n)) \/ ~CanScroll(c, at(n))})
  IN  [k EXCEPT !.start = at(lines)]

\* out_char
OutChar(c, k, ch) ==
  LET room == IF Full(c, k.cursor) THEN Top(c) ELSE k
  IN  Follow(c, IF ch = "newline" THEN NewLine(c, room)
                ELSE IF ch = "backspace" THEN BackSpace(c, room) ELSE Put(c, room))

\* scroll_screen
ScrollUp(c, k) ==
  IF k.start > Orig(c) THEN [k EXCEPT !.start = @ - WIDTH] ELSE k
ScrollDown(c, k) ==
  IF CanScroll(c, k.start) THEN [k EXCEPT !.start = @ + WIDTH] ELSE k

----------------------------------------------------------------------------
\* init_screen: console 0 takes the cursor over from the kernel (disp_pos), the
\* others have been greeted with a line and a prompt; select_console(0).
InitialCon ==
  {[c \in Consoles |->
      [Top(c) EXCEPT !.cursor = IF c = 0 THEN disp_pos ELSE @ + WIDTH + 1]] :
     disp_pos \in 0 .. SCREEN - 1}

Init == con \in InitialCon /\ current = 0 /\ crtc = con[0] /\ spoilt = {}

\* flush
Flush(c) == crtc' = IF c = current' THEN con'[c] ELSE crtc

Change(c, k) ==
  /\ c \notin spoilt
  /\ con' = [con EXCEPT ![c] = k] /\ UNCHANGED <<current, spoilt>> /\ Flush(c)

Output(c, ch) == Change(c, OutChar(c, con[c], ch))

\* The user scrolls the current console.
Scroll == \/ Change(current, ScrollUp(current, con[current]))
          \/ Change(current, ScrollDown(current, con[current]))

\* select_console
Select(c) == c \notin spoilt /\ current' = c /\ UNCHANGED <<con, spoilt>> /\ Flush(c)

\* A step on console c, which is spoilt or is being spoilt.  It is not spoilt any
\* longer only when its record is whole and, if it is the current one, displayed.
Disturbed(c) ==
  /\ c \in spoilt \cup spoilt' /\ spoilt' \in {spoilt \cup {c}, spoilt \ {c}}
  /\ con' = [con EXCEPT ![c] = con'[c]]
  /\ current' \in {current, c}
  /\ current' # c => crtc' = crtc
  /\ c \notin spoilt' => Whole(c, con'[c]) /\ (current' = c => crtc' = con'[c])

Next == \/ \E c \in Consoles, ch \in Char : Output(c, ch)
        \/ Scroll
        \/ \E c \in Consoles : Select(c) \/ Disturbed(c)

Spec == Init /\ [][Next]_vars

----------------------------------------------------------------------------
(* Properties *)

\* The variables keep their types.
TypeOK ==
  /\ con \in [Consoles -> [cursor : Nat, start : Nat]]
  /\ current \in Consoles
  /\ crtc \in [cursor : Nat, start : Nat]
  /\ spoilt \subseteq Consoles

\* Cursor and window of a console that is not spoilt stay in its own memory,
\* whatever is written to it and wherever the user scrolls (console.c:78, 94, 105,
\* 112, 200, 205).
StaysInside == \A c \in Consoles \ spoilt : Whole(c, con[c])

\* The display shows the current console as it is, unless it is spoilt (flush,
\* 136-142).
ShowsCurrent == current \notin spoilt => crtc = con[current]

\* A console whose cursor has moved has it above the end of its window.
Followed ==
  \A c \in Consoles \ (spoilt \cup spoilt') :
    con'[c].cursor # con[c].cursor => con'[c].cursor < con'[c].start + SCREEN

\* After a character the cursor is above the end of the window, wherever the user
\* had scrolled: the loop at 122 has ended.
FollowsCursor == [][Followed]_vars
=============================================================================
