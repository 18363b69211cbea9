--------------------------- MODULE OneShotRequest ---------------------------
(***************************************************************************)
(* What a caller may rely on for a write that is not to be repeated: it    *)
(* takes effect at most once, and its outcome does not lie.  This is the   *)
(* request as RefundSync and ShipmentSync see it.                          *)
(***************************************************************************)
EXTENDS Naturals

VARIABLES
    times,    \* how often the request took effect
    outcome   \* what the caller was told

vars == <<times, outcome>>

Init == times = 0 /\ outcome = "pending"

(* Also after the caller was told that nothing is known. *)
TakeEffect ==
    /\ times = 0 /\ outcome \in {"pending", "unknown"}
    /\ times' = 1
    /\ UNCHANGED outcome

Succeed ==
    /\ outcome = "pending" /\ times = 1
    /\ outcome' = "ok"
    /\ UNCHANGED times

Refuse ==
    /\ outcome = "pending" /\ times = 0
    /\ outcome' = "refused"
    /\ UNCHANGED times

NotKnown ==
    /\ outcome = "pending"
    /\ outcome' = "unknown"
    /\ UNCHANGED times

Next == TakeEffect \/ Succeed \/ Refuse \/ NotKnown

Spec == Init /\ [][Next]_vars
=============================================================================
