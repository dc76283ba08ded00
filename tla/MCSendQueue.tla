---------------------------- MODULE MCSendQueue ----------------------------
(* SendQueue for TLC: the processes other than HD are interchangeable. *)
EXTENDS SendQueue

Symmetry == Permutations(Proc \ {HD})
=============================================================================
