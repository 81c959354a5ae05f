---------------------------- MODULE MCCommunities ----------------------------
(* Instances of Communities for TLC.  Requests and users are interchangeable. *)
EXTENDS Communities, TLC

Symmetry == Permutations(Requests) \cup Permutations(Users)
=============================================================================
