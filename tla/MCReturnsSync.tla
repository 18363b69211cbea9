--------------------------- MODULE MCReturnsSync ---------------------------
(* Small instances of ReturnsSync: four returns on three orders, one of    *)
(* which has no commercial id.                                             *)
EXTENDS ReturnsSync

SomeOrders == [r \in Returns |-> CASE r = 1 -> "o1" [] r = 3 -> "o2" [] OTHER -> "bare"]
=============================================================================
