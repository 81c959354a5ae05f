------------------------------ MODULE MCGroups ------------------------------
(* Instances of Groups for TLC.  Requests and users are interchangeable. *)
EXTENDS Groups, TLC

Symmetry == Permutations(Requests) \cup Permutations(Users)
=============================================================================
