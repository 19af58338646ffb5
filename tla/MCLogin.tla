------------------------------ MODULE MCLogin ------------------------------
(* Two slots and two threads of Login, interchangeable. *)
EXTENDS Login, TLC

Symmetry == Permutations(Slots) \cup Permutations(Threads)
=============================================================================
