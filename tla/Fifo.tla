-------------------------------- MODULE Fifo --------------------------------
(***************************************************************************)
(* What the input buffers of kernel/keyboard.c and kernel/tty.c promise: a  *)
(* queue of at most Size items; what does not fit is dropped.               *)
(***************************************************************************)
EXTENDS Naturals, Sequences

CONSTANTS Size,  \* KB_IN_BYTES, TTY_IN_BYTES
          Item   \* scan codes, keys

VARIABLES queue,  \* the items, oldest first
          got     \* the item that was taken last

vars == <<queue, got>>

Init == queue = <<>> /\ got \in Item

Put(x) == Len(queue) < Size /\ queue' = Append(queue, x) /\ UNCHANGED got

Get == queue # <<>> /\ got' = Head(queue) /\ queue' = Tail(queue)

Next == Get \/ \E x \in Item : Put(x)

Spec == Init /\ [][Next]_vars
=============================================================================
