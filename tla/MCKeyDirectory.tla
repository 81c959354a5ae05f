--------------------------- MODULE MCKeyDirectory ---------------------------
(* Instances of KeyDirectory for TLC.  Requests are interchangeable. *)
EXTENDS KeyDirectory, TLC

Symmetry == Permutations(Requests)
=============================================================================
