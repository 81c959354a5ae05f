---------------------------- MODULE MCOtpService ----------------------------
(* Instances of OtpService for TLC.  Requests are interchangeable. *)
EXTENDS OtpService, TLC

Symmetry == Permutations(Requests)
=============================================================================
