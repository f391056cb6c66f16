------------------------------- MODULE MCLog --------------------------------
(* Instances of Log for TLC.                                               *)
EXTENDS LogInv, TLC

Symmetry == Permutations(Blocks) \cup Permutations(Procs)
=============================================================================
