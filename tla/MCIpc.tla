------------------------------- MODULE MCIpc -------------------------------
(* Ipc for TLC: the processes other than HD are interchangeable. *)
EXTENDS Ipc

Symmetry == Permutations(Proc \ {HD})
=============================================================================
