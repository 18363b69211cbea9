---------------------------- MODULE MCImportSync ----------------------------
(* Small instances of ImportSync: one product, its webhook sync, the       *)
(* requeue of it, the offer-sync and the polls that follow.                *)
EXTENDS ImportSync, TLC

P1 == [queue |-> "product", of |-> 1, n |-> 0]
R1 == [queue |-> "retry", of |-> 1, n |-> 0]
Offer == [queue |-> "offer", of |-> 1, n |-> 0]

OneProductJob == {P1}
OneRequeue == {R1}
NoRequeue == {}
FromFirst == [r \in Requeues |-> P1]
SomeJobs == ProductJobs \cup Requeues \cup {OfferJob} \cup PollJobs

SameWorkers == Permutations(Workers)
=============================================================================
