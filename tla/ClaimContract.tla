--------------------------- MODULE ClaimContract ---------------------------
(***************************************************************************)
(* What the claim rows of packages/database/src/repositories/              *)
(* fulfillment.repository.ts promise of an effect that Decathlon cannot    *)
(* deduplicate: a key is claimed before anything is sent, at most one      *)
(* effect happens per key and only under a claim, a failed claim may be    *)
(* taken again, and a closed key is closed for good.                       *)
(***************************************************************************)
EXTENDS Naturals

CONSTANT Keys

VARIABLES
    claim,    \* "free", "claimed" or "closed"
    effects   \* how often the effect of each key happened

contractVars == <<claim, effects>>

Init ==
    /\ claim = [k \in Keys |-> "free"]
    /\ effects = [k \in Keys |-> 0]

Move(k, from, to) ==
    /\ claim[k] = from
    /\ claim' = [claim EXCEPT ![k] = to]
    /\ UNCHANGED effects

Acquire(k) == Move(k, "free", "claimed")
Release(k) == Move(k, "claimed", "free")
Close(k) == Move(k, "claimed", "closed")

Effect(k) ==
    /\ claim[k] = "claimed"
    /\ effects[k] = 0
    /\ effects' = [effects EXCEPT ![k] = 1]
    /\ UNCHANGED claim

Next == \E k \in Keys : Acquire(k) \/ Release(k) \/ Close(k) \/ Effect(k)

Spec == Init /\ [][Next]_contractVars

=============================================================================
