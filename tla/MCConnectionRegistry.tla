------------------------ MODULE MCConnectionRegistry ------------------------
(* Instances of ConnectionRegistry for TLC. *)
EXTENDS ConnectionRegistry, TLC

Symmetry == Permutations(Conns) \cup Permutations(Replicas)
=============================================================================
