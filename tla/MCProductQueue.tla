--------------------------- MODULE MCProductQueue ---------------------------
(* Small instances of ProductQueue: one product, two contents, so that an  *)
(* edit can be taken back.                                                 *)
EXTENDS ProductQueue, TLC

BothJobs == {"base", "next"}
Contents == {"v1", "v2"}

Same == Permutations(Producers) \cup Permutations(Workers)
=============================================================================
