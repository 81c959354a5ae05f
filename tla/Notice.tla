------------------------------- MODULE Notice -------------------------------
(***************************************************************************)
(* The order an urgent broadcast goes through for one user: it is sent,    *)
(* then shown on a device of the user, then acknowledged; it is never      *)
(* acknowledged unseen, and an acknowledgement is final (a row of          *)
(* BroadcastAck, which no handler deletes).  How long a banner stays in    *)
(* between is not part of it.                                              *)
(***************************************************************************)
CONSTANT Broadcasts

VARIABLE phase      \* phase[b]: how far broadcast b has come

Init == phase = [b \in Broadcasts |-> "unsent"]

Advance(b, from, to) == phase[b] = from /\ phase' = [phase EXCEPT ![b] = to]

Send(b) == Advance(b, "unsent", "sent")
Show(b) == Advance(b, "sent", "shown")
Acknowledge(b) == Advance(b, "shown", "acked")

\* A device that fetches the unacknowledged broadcasts may show several.
ShowAll(B) ==
    /\ \A b \in B : phase[b] = "sent"
    /\ phase' = [b \in Broadcasts |-> IF b \in B THEN "shown" ELSE phase[b]]

Next ==
    \/ \E b \in Broadcasts : Send(b) \/ Show(b) \/ Acknowledge(b)
    \/ \E B \in SUBSET Broadcasts : ShowAll(B)

Spec == Init /\ [][Next]_phase
=============================================================================
