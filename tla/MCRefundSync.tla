---------------------------- MODULE MCRefundSync ----------------------------
(* Small instances of RefundSync.  <<k, 0>> is the job of the webhook,     *)
(* <<k, 1>> the one the retry sweep enqueues.                              *)
EXTENDS RefundSync

\* a refund of one unit, one whose line is not on the Decathlon order, and
\* the cancellation of the same order; one job each
OrderKeys == {"r1", "bad", "cancel"}
OrderJobs == OrderKeys \X {0}
OrderKeyOf == [j \in OrderJobs |-> j[1]]
OrderFirst == [k \in OrderKeys |-> <<k, 0>>]
OrderWant == [k \in OrderKeys |-> 1]

\* one refund only, requeued at most once
SoloKeys == {"r1"}
SoloJobs == SoloKeys \X {0, 1}
SoloKeyOf == [j \in SoloJobs |-> j[1]]
SoloFirst == [k \in SoloKeys |-> <<k, 0>>]
SoloWant == [k \in SoloKeys |-> 1]
=============================================================================
