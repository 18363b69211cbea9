--------------------------- MODULE MCShipmentSync ---------------------------
(* Small instances of ShipmentSync.                                        *)
EXTENDS ShipmentSync, TLC

\* one fulfillment: a delivery while it was still "pending", the one of its
\* creation, which may be requeued, and an update with another number
FlowJobs == {"pending", "create", "update", "again"}
FlowKeyOf == [j \in FlowJobs |-> "f1"]
FlowPayload == [j \in FlowJobs |-> IF j = "again" THEN "create" ELSE j]
FlowNumberOf ==
    [j \in FlowJobs \ {"again"} |->
        CASE j = "create" -> "n1" [] j = "update" -> "n2" [] OTHER -> NoNumber]

\* the processors are alike
SameWorkers == Permutations(Workers)
=============================================================================
