-------------------------------- MODULE Ring --------------------------------
(***************************************************************************)
(* The ring of bytes between keyboard_handler and task_tty                  *)
(* (kernel/keyboard.c, KB_INPUT), written by an interrupt and read by a     *)
(* task.  TTY.in_buf (kernel/tty.c) is the same ring with one user.         *)
(*                                                                          *)
(* The handler runs to its end before the task goes on.  The task waits     *)
(* until the count is positive, with interrupts enabled, and takes the      *)
(* byte with interrupts disabled: the second is one step, the first another.*)
(* The names are such that a module can take it together with Keyboard.     *)
(***************************************************************************)
EXTENDS Naturals, Sequences

CONSTANTS Size, Item

ASSUME RingAssumption == Size \in Nat \ {0}

VARIABLES
  buf,         \* kb_in.buf, counted from 0
  head, tail,  \* p_head: the next free place; p_tail: the next item to be read
  count,
  got,         \* the byte get_byte_from_kbuf returned last
  at           \* get_byte_from_kbuf: "wait" or "take"

ring == <<buf, head, tail, count, got, at>>

\* A pointer moves on and wraps to the beginning of the buffer (51, 313).
Step(i) == IF i + 1 = Size THEN 0 ELSE i + 1

RingInit ==
  /\ buf \in [0 .. Size-1 -> Item] /\ head = 0 /\ tail = 0 /\ count = 0
  /\ got \in Item /\ at = "wait"

----------------------------------------------------------------------------
\* Mutant of Handler: one place more is filled than there is.
HandlerOneMore(x) ==
  /\ count <= Size
  /\ buf' = [buf EXCEPT ![head] = x] /\ head' = Step(head) /\ count' = count + 1
  /\ UNCHANGED <<tail, got, at>>

\* keyboard_handler with scan code x; a byte for which there is no room is lost.
Handler(x) ==
  /\ count < Size
  /\ buf' = [buf EXCEPT ![head] = x] /\ head' = Step(head) /\ count' = count + 1
  /\ UNCHANGED <<tail, got, at>>

\* The task waits for a byte (308).
Wait == at = "wait" /\ count > 0 /\ at' = "take" /\ UNCHANGED <<buf, head, tail, count, got>>

\* Mutant of Take: interrupts are not disabled, and the handler may run between the
\* load and the store of count--, whose store undoes the handler's.
TakeUnprotected ==
  /\ at = "take" /\ at' = "wait"
  /\ got' = buf[tail] /\ tail' = Step(tail) /\ count' = count - 1
  /\ \/ UNCHANGED <<buf, head>>
     \/ /\ count < Size /\ head' = Step(head)
        /\ \E x \in Item : buf' = [buf EXCEPT ![head] = x]

\* It takes it with interrupts disabled (310-317).
Take ==
  /\ at = "take" /\ at' = "wait"
  /\ got' = buf[tail] /\ tail' = Step(tail) /\ count' = count - 1
  /\ UNCHANGED <<buf, head>>

RingNext == (\E x \in Item : Handler(x)) \/ Wait \/ Take

RingSpec == RingInit /\ [][RingNext]_ring

----------------------------------------------------------------------------
(* Properties *)

\* The place of the i-th item of those in the ring.
Place(i) == IF tail + i - 1 < Size THEN tail + i - 1 ELSE tail + i - 1 - Size

Contents == [i \in 1 .. count |-> buf[Place(i)]]

\* The variables keep their types, the pointers stay in the buffer, and the
\* count says how far the head is ahead of the tail.
TypeOK ==
  /\ buf \in [0 .. Size-1 -> Item] /\ got \in Item
  /\ head \in 0 .. Size-1 /\ tail \in 0 .. Size-1 /\ count \in 0 .. Size
  /\ at \in {"wait", "take"}
  /\ head = (IF tail + count < Size THEN tail + count ELSE tail + count - Size)
  /\ at = "take" => count > 0

F == INSTANCE Fifo WITH queue <- Contents

\* The ring is a queue of Size items, whenever the interrupt comes: the task gets
\* every byte that found room, once, in the order they came.
ImplementsFifo == F!Spec
=============================================================================
