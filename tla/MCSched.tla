------------------------------ MODULE MCSched ------------------------------
(* Sched for TLC: the tasks tty, hd and fs, and a user process. *)
EXTENDS Sched

\* Tasks have a higher priority than user processes (main.c:32, 39).
MCPrio == [p \in 0 .. N-1 |-> IF p < 3 THEN 2 ELSE 1]
=============================================================================
