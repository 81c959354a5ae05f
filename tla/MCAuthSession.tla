--------------------------- MODULE MCAuthSession ----------------------------
(* Instances of AuthSession for TLC.  Handlers are interchangeable. *)
EXTENDS AuthSession, TLC

Symmetry == Permutations(Handlers)
=============================================================================
