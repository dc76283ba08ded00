------------------------------ MODULE Keyboard ------------------------------
(***************************************************************************)
(* The keyboard driver (kernel/keyboard.c) and the loop of task_tty that    *)
(* uses it (kernel/tty.c), from the key pressed to the character on its     *)
(* way to a console.                                                        *)
(*                                                                          *)
(* keyboard_handler puts each byte of the keyboard into kb_in, here a queue *)
(* (module Ring looks into it).  task_tty parses the bytes, waiting in the  *)
(* middle of a sequence for its next byte, and keeps what it knows of the   *)
(* modifier keys; set_leds talks to the keyboard itself, and polls the port *)
(* for an answer that the handler reads as well.                            *)
(*                                                                          *)
(* The user and the keyboard are external.  The keyboard sends the codes of *)
(* scan code set 1, the whole code of a key before it takes a command, and  *)
(* no key between an LED command and its parameter.                         *)
(***************************************************************************)
EXTENDS Naturals, SequencesExt

CONSTANTS Keys,         \* the keys the user presses
          KB_IN_BYTES,  \* size of kb_in
          TTY_IN_BYTES, \* size of in_buf
          NR,           \* NR_CONSOLES
          MaxDown       \* bound: how many keys the user holds at once

\* The codes of the keys, without the prefix some have (scan code set 1).
Code == [A |-> 30, SHIFT_L |-> 42, ALT_L |-> 56, ALT_R |-> 56, CTRL_L |-> 29,
         CTRL_R |-> 29, CAPS_LOCK |-> 58, F1 |-> 59, F2 |-> 60]

ASSUME KeyboardAssumption ==
  /\ KB_IN_BYTES \in Nat \ {0} /\ TTY_IN_BYTES \in Nat \ {0} /\ NR \in Nat \ {0}
  /\ MaxDown \in Nat
  /\ Keys \subseteq DOMAIN Code \cup {"PAUSEBREAK", "PRINTSCREEN"}

VARIABLES
  down, locked, shown,   \* the user: keys held, Caps Lock, the console selected
  typed,   \* the characters the user is waiting for, oldest first
  lost,    \* a byte has been dropped because kb_in was full
  out,     \* what is left to send of the code of a key, or of an answer
  command, \* the byte task_tty has written to the keyboard, or "none"
  param,   \* the keyboard waits for the parameter of an LED command
  port,    \* what KB_DATA holds
  kb_in,   \* the bytes between handler and task
  pc, tty, seq,          \* task_tty: where it is, its p_tty, the bytes it has parsed
  shift_l, alt_l, ctrl_l, ctrl_r, caps_lock,
  inbuf, current         \* in_buf of each TTY; nr_current_console

user == <<down, locked, shown, typed>>
dev  == <<out, command, param, port>>
mods == <<shift_l, alt_l, ctrl_l, ctrl_r, caps_lock>>
vars == <<user, dev, lost, kb_in, pc, tty, seq, mods, inbuf, current>>

----------------------------------------------------------------------------
(* Scan codes *)

KB_ACK == 250
E0 == 224
E1 == 225
Extended == {"ALT_R", "CTRL_R"}
Function == [F1 |-> 0, F2 |-> 1]

\* The console of a key that selects one (select_console).
Selects(key) == key \in DOMAIN Function /\ Function[key] < NR

PauseBreak   == <<E1, 29, 69, E1, 157, 197>>
PrintPressed  == <<E0, 42, E0, 55>>
PrintReleased == <<E0, 183, E0, 170>>

\* What the keyboard sends when a key is pressed and released; Pause sends all it
\* has to say at once.
Pressed(key) ==
  IF key = "PAUSEBREAK" THEN PauseBreak
  ELSE IF key = "PRINTSCREEN" THEN PrintPressed
  ELSE IF key \in Extended THEN <<E0, Code[key]>> ELSE <<Code[key]>>
Released(key) ==
  IF key = "PAUSEBREAK" THEN <<>>
  ELSE IF key = "PRINTSCREEN" THEN PrintReleased
  ELSE IF key \in Extended THEN <<E0, Code[key] + 128>> ELSE <<Code[key] + 128>>

\* Mutant of KeyOf: the third column of keymap is not used.
KeyOfPlain(code, e0) ==
  LET found == {key \in DOMAIN Code : Code[key] = code /\ key \notin Extended}
  IN  IF found = {} THEN "none" ELSE CHOOSE key \in found : TRUE

\* keymap: the key of a code, with and without the prefix E0.
KeyOf(code, e0) ==
  LET found == {key \in DOMAIN Code : Code[key] = code /\ (key \in Extended <=> e0)}
  IN  IF found = {} THEN "none" ELSE CHOOSE key \in found : TRUE

----------------------------------------------------------------------------
Init ==
  /\ down = {} /\ locked = FALSE /\ shown = 0 /\ typed = <<>> /\ lost = FALSE
  /\ out = <<>> /\ command = "none" /\ param = FALSE /\ port = KB_ACK
  /\ kb_in \in {<<>>, <<KB_ACK>>}  \* init_keyboard has set the LEDs
  /\ pc = "read" /\ tty = 0 /\ seq = <<>>
  /\ shift_l = FALSE /\ alt_l = FALSE /\ ctrl_l = FALSE /\ ctrl_r = FALSE
  /\ caps_lock = FALSE
  /\ inbuf = [t \in 0 .. NR-1 |-> <<>>] /\ current = 0

(* The user *)

\* The character the key A is to produce now, and where.
Wanted == [tty |-> shown, capital |-> ("SHIFT_L" \in down) # locked]

\* Bound: after a byte has been dropped no key is pressed or released any more.
Press(key) ==
  /\ out = <<>> /\ ~param /\ ~lost /\ key \notin down /\ Cardinality(down) < MaxDown
  /\ down' = IF key = "PAUSEBREAK" THEN down ELSE down \cup {key}
  /\ out' = Pressed(key)
  /\ locked' = (IF key = "CAPS_LOCK" THEN ~locked ELSE locked)
  /\ shown' = IF Selects(key) THEN Function[key] ELSE shown
  /\ typed' = IF key = "A" THEN Append(typed, Wanted) ELSE typed
  /\ UNCHANGED <<lost, command, param, port, kb_in, pc, tty, seq, mods, inbuf, current>>

Release(key) ==
  /\ out = <<>> /\ ~param /\ ~lost /\ key \in down
  /\ down' = down \ {key} /\ out' = Released(key)
  /\ UNCHANGED <<locked, shown, typed, lost, command, param, port, kb_in, pc, tty, seq,
                 mods, inbuf, current>>

(* The keyboard *)

\* It takes a command and answers; after an LED command it waits for the parameter.
TakeCommand ==
  /\ command # "none" /\ out = <<>>
  /\ command' = "none" /\ param' = (command = "led_code") /\ out' = <<KB_ACK>>
  /\ UNCHANGED <<user, lost, port, kb_in, pc, tty, seq, mods, inbuf, current>>

\* A byte arrives in the port and raises the interrupt, whose handler puts it into
\* kb_in, or drops it.
Arrive ==
  /\ out # <<>> /\ out' = Tail(out) /\ port' = Head(out)
  /\ IF Len(kb_in) < KB_IN_BYTES
     THEN kb_in' = Append(kb_in, Head(out)) /\ UNCHANGED lost
     ELSE lost' = TRUE /\ UNCHANGED kb_in
  /\ UNCHANGED <<user, command, param, pc, tty, seq, mods, inbuf, current>>

----------------------------------------------------------------------------
(* keyboard_read *)

\* Mutant of More: the second half of a Print Screen code is not waited for.
MoreNot(s) == s = <<E0>> \/ IsStrictPrefix(s, PauseBreak)

\* Mutant of More: one byte more is waited for than a sequence has.
MoreOnce(s) ==
  \/ s = <<E0>>
  \/ \E code \in {PauseBreak, PrintPressed, PrintReleased} : IsPrefix(s, code)

\* After the bytes s another one belongs to the sequence.
More(s) ==
  \/ s = <<E0>>
  \/ \E code \in {PauseBreak, PrintPressed, PrintReleased} : IsStrictPrefix(s, code)

\* Neither Pause nor Print Screen: the key of the sequence s and whether it is
\* pressed.
KeyIn(s) ==
  LET e0 == s[1] = E0
      code == IF e0 THEN s[2] ELSE s[1]
  IN  [key |-> KeyOf(code % 128, e0), make |-> code < 128]

\* tty_do_read: the TTY of the current console reads if there is a byte.
Skip ==
  /\ pc = "read" /\ seq = <<>> /\ (tty # current \/ kb_in = <<>>)
  /\ pc' = "write"
  /\ UNCHANGED <<user, dev, lost, kb_in, tty, seq, mods, inbuf, current>>

\* A byte of an unfinished sequence.
ReadOn ==
  /\ pc = "read" /\ (seq # <<>> \/ tty = current) /\ kb_in # <<>>
  /\ kb_in' = Tail(kb_in) /\ More(Append(seq, Head(kb_in)))
  /\ seq' = Append(seq, Head(kb_in))
  /\ UNCHANGED <<user, dev, lost, pc, tty, mods, inbuf, current>>

\* What is known of the modifiers; ALT_R is noted as alt_l (188-190).
Modify(key, make) ==
  /\ shift_l' = (IF key = "SHIFT_L" THEN make ELSE shift_l)
  /\ ctrl_l' = (IF key = "CTRL_L" THEN make ELSE ctrl_l)
  /\ ctrl_r' = (IF key = "CTRL_R" THEN make ELSE ctrl_r)
  /\ alt_l' = (IF key \in {"ALT_L", "ALT_R"} THEN make ELSE alt_l)
  /\ caps_lock' = (IF key = "CAPS_LOCK" /\ make THEN ~caps_lock ELSE caps_lock)

\* Mutant of PutKey: one place of in_buf is left empty.
PutKeyOneLess(key) ==
  inbuf' = IF key \in {"A", "none"} /\ Len(inbuf[tty]) < TTY_IN_BYTES - 1
           THEN [inbuf EXCEPT ![tty] =
                   Append(@, [key |-> key, capital |-> shift_l # caps_lock])]
           ELSE inbuf

\* in_process and put_key: a character goes to in_buf if there is room.  A code
\* without a key puts a zero, which the user sees as a blank.
PutKey(key) ==
  inbuf' = IF key \in {"A", "none"} /\ Len(inbuf[tty]) < TTY_IN_BYTES
           THEN [inbuf EXCEPT ![tty] =
                   Append(@, [key |-> key, capital |-> shift_l # caps_lock])]
           ELSE inbuf

\* The last byte of a sequence.
ReadEnd ==
  /\ pc = "read" /\ (seq # <<>> \/ tty = current) /\ kb_in # <<>>
  /\ kb_in' = Tail(kb_in) /\ seq' = <<>>
  /\ LET s == Append(seq, Head(kb_in))
         k == KeyIn(s)
     IN  /\ ~More(s)
         /\ IF s \in {PauseBreak, PrintPressed, PrintReleased}
            THEN pc' = "write" /\ UNCHANGED <<mods, inbuf, current>>
            ELSE /\ Modify(k.key, k.make)
                 /\ IF k.make THEN PutKey(k.key) ELSE UNCHANGED inbuf
                 /\ current' = IF k.make /\ Selects(k.key)
                               THEN Function[k.key] ELSE current
                 /\ pc' = IF k.key = "CAPS_LOCK" /\ k.make THEN "led_code" ELSE "write"
  /\ UNCHANGED <<user, dev, lost, tty>>

----------------------------------------------------------------------------
(* set_leds *)

\* kb_wait: what was written last has been taken.
Write(byte, next) ==
  /\ command = "none" /\ command' = byte /\ pc' = next
  /\ UNCHANGED <<user, out, param, port, lost, kb_in, tty, seq, mods, inbuf, current>>

\* kb_ack polls the port until it holds the answer.
Ack(next) ==
  /\ port = KB_ACK /\ pc' = next
  /\ UNCHANGED <<user, dev, lost, kb_in, tty, seq, mods, inbuf, current>>

SetLeds == \/ pc = "led_code" /\ Write("led_code", "ack1")
           \/ pc = "ack1" /\ Ack("leds")
           \/ pc = "leds" /\ Write("leds", "ack2")
           \/ pc = "ack2" /\ Ack("write")

----------------------------------------------------------------------------
\* tty_do_write: a character leaves for out_char, and the next TTY's turn comes.
WriteKey ==
  /\ pc = "write" /\ pc' = "read" /\ tty' = (tty + 1) % NR
  /\ inbuf' = [inbuf EXCEPT ![tty] = IF @ = <<>> THEN @ ELSE Tail(@)]
  /\ typed' = IF inbuf[tty] # <<>> /\ typed # <<>> THEN Tail(typed) ELSE typed
  /\ UNCHANGED <<down, locked, shown, lost, dev, kb_in, seq, mods, current>>

TaskStep == Skip \/ ReadOn \/ ReadEnd \/ SetLeds \/ WriteKey
KeyboardStep == TakeCommand \/ Arrive

Next == \/ \E key \in Keys : Press(key) \/ Release(key)
        \/ KeyboardStep \/ TaskStep

\* task_tty is scheduled, and the keyboard sends what it has begun; the user need
\* not do anything.
Spec == Init /\ [][Next]_vars /\ WF_vars(TaskStep) /\ WF_vars(KeyboardStep)

----------------------------------------------------------------------------
(* Properties *)

\* As long as kb_in has never been full, the user gets the characters that were
\* typed, in their order, with Shift and Caps Lock as they were when the key was
\* pressed, on the console selected then, and no others: whatever codes surround
\* them, and although the answers to set_leds are read as scan codes too.
KeysInOrder ==
  pc = "write" /\ inbuf[tty] # <<>> /\ ~lost =>
    /\ typed # <<>> /\ tty = Head(typed).tty
    /\ Head(inbuf[tty]) = [key |-> "A", capital |-> Head(typed).capital]

\* The driver has parsed all the keyboard had to say.
Quiet == out = <<>> /\ kb_in = <<>> /\ seq = <<>> /\ ~lost

\* Then it knows what is held and locked, and which console is selected; of the two
\* Alt keys it knows at least when both are up.
ModifiersTrack ==
  Quiet => /\ shift_l = ("SHIFT_L" \in down)
           /\ ctrl_l = ("CTRL_L" \in down) /\ ctrl_r = ("CTRL_R" \in down)
           /\ alt_l => {"ALT_L", "ALT_R"} \cap down # {}
           /\ caps_lock = locked /\ current = shown

\* The driver never waits in the middle of a sequence for a byte that nobody is
\* going to send, unless one was dropped (308): get_byte_from_kbuf would wait for the
\* next key, and take its code for the rest of this one.
SequenceComes == seq # <<>> => out # <<>> \/ kb_in # <<>> \/ lost

\* Once the driver has parsed everything and written what it read, no character that
\* was typed is missing.
NoKeyLost == Quiet /\ pc = "read" /\ (\A t \in 0 .. NR-1 : inbuf[t] = <<>>) => typed = <<>>

----------------------------------------------------------------------------
(* What a note says, and the code does not keep. *)

\* The keyboard answers to the parameter (note:15), and set_leds goes on.
AckSeen == pc = "ack2" ~> pc # "ack2"
=============================================================================
