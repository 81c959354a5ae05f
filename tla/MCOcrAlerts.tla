---------------------------- MODULE MCOcrAlerts ----------------------------
(* Instances of OcrAlerts for TLC: the user is connected to both processes. *)
EXTENDS OcrAlerts, TLC

CONSTANTS c1, c2, f1, f2, p1, p2

MCHost == (c1 :> p1) @@ (c2 :> p2)

\* If one file went to the older backend it is f1: f2 would only change names.
MCInit == OcrInit /\ backend # {f2}
MCSpec == MCInit /\ [][OcrNext]_ocrVars /\ OcrFairness
=============================================================================
