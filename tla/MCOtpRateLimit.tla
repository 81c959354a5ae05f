--------------------------- MODULE MCOtpRateLimit ---------------------------
(* Instances of OtpRateLimit for TLC. *)
EXTENDS OtpRateLimit
=============================================================================
