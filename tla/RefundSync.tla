----------------------------- MODULE RefundSync -----------------------------
(***************************************************************************)
(* Pushing Shopify refunds and cancellations of one order to Decathlon:    *)
(* OrderLifecycleSync.syncRefund (packages/sync/src/order-lifecycle.ts),   *)
(* the RefundMapping claim row it leans on, the producer that enqueues the *)
(* jobs and the BullMQ queue that runs, retries and re-runs them.          *)
(*                                                                         *)
(* Decathlon has no idempotency key.  What keeps a customer from being     *)
(* refunded twice is local: the claim row, and the list of refund ids that *)
(* existed on the order before this refund was first attempted.            *)
(*                                                                         *)
(* One refund request creates one id here; money is counted in units.      *)
(***************************************************************************)
EXTENDS BullQueue

CONSTANTS
    Keys,          \* refund keys: Shopify refund ids, and "cancel:<order>"
    CancelKeys,    \* the keys of a cancellation
    Unmappable,    \* refunds with a line that is not on the Decathlon order
    Want,          \* what each Shopify refund asks for
    KeyOf,         \* the refund a job is about
    First,         \* the job id refunds/create or orders/cancelled is enqueued under
    Handlers,      \* webhook requests handled side by side
    Total,         \* what the customer paid Decathlon for the order
    Outsider,      \* the origin of a refund this app did not send
    LateApply,     \* whether Decathlon may apply a request after the client gave up on it
    MaxRefundIds   \* bound: others refund while Decathlon has handed out fewer ids

ASSUME RefundAssumption ==
    /\ CancelKeys \subseteq Keys
    /\ Unmappable \subseteq Keys \ CancelKeys
    /\ Want \in [Keys -> Nat]
    /\ KeyOf \in [Jobs -> Keys]
    /\ First \in [Keys -> Jobs]
    /\ Jobs # {}
    /\ \A k \in Keys : KeyOf[First[k]] = k
    /\ Total \in Nat
    /\ Outsider \notin Keys
    /\ LateApply \in BOOLEAN
    /\ MaxRefundIds \in Nat

VARIABLES
    row,        \* RefundMapping.status of each key ("NONE": no row)
    attempted,  \* keys whose row stores the ids seen before its first attempt
    before,     \* RefundMapping.decathlonRefundIds.before
    created,    \* RefundMapping.decathlonRefundIds.created
    request,    \* where each webhook request is in enqueueRefundSync
    syncJob,    \* SyncJob.status of the latest run of each job
    refunds,    \* the refunds on the Decathlon order: their id and their origin
    lastId,     \* the refund id Decathlon handed out last
    left,       \* what Decathlon still holds for the order
    paid,       \* how often Decathlon refunded on behalf of each key
    inflight,   \* requests the client gave up on that Decathlon may still apply
    pc,         \* where each processor is in syncRefund
    cur,        \* the job it runs
    seen,       \* the refund ids its getOrders returned
    room,       \* what was left to refund when it asked
    verdict,    \* the status it is about to write
    got         \* the refund ids it is about to write

rowVars == <<row, attempted, before, created>>
decathlonVars == <<refunds, lastId, left, paid, inflight>>
runVars == <<pc, cur, seen, room, verdict, got>>
vars == <<queueVars, rowVars, request, syncJob, decathlonVars, runVars>>

Status == {"NONE", "PENDING", "PROCESSING", "SUCCESS", "FAILED", "RETRYING", "SKIPPED"}
Verdicts == {"SUCCESS", "FAILED", "SKIPPED"}
Places == {"idle", "claim", "fetch", "mark", "send", "write", "log"}
Requests == [key : Keys, at : {"idle", "row", "add"}]

TypeOK ==
    /\ QueueTypeOK
    /\ row \in [Keys -> Status]
    /\ attempted \subseteq Keys
    /\ before \in [Keys -> SUBSET Nat]
    /\ created \in [Keys -> SUBSET Nat]
    /\ request \in [Handlers -> Requests]
    /\ syncJob \in [Jobs -> Status]
    /\ refunds \subseteq [id : Nat, key : Keys \cup {Outsider}]
    /\ lastId \in Nat
    /\ left \in Nat
    /\ paid \in [Keys -> Nat]
    /\ inflight \subseteq [key : Keys, amount : Nat]
    /\ pc \in [Workers -> Places]
    /\ cur \in [Workers -> Jobs]
    /\ seen \in [Workers -> SUBSET Nat]
    /\ room \in [Workers -> Nat]
    /\ verdict \in [Workers -> Verdicts]
    /\ got \in [Workers -> SUBSET Nat]

AnyJob == CHOOSE j \in Jobs : TRUE
NoRequest == [key |-> KeyOf[AnyJob], at |-> "idle"]

Init ==
    /\ QueueInit
    /\ row = [k \in Keys |-> "NONE"]
    /\ attempted = {}
    /\ before = [k \in Keys |-> {}]
    /\ created = [k \in Keys |-> {}]
    /\ request = [h \in Handlers |-> NoRequest]
    /\ syncJob = [j \in Jobs |-> "NONE"]
    /\ refunds = {}
    /\ lastId = 0
    /\ left = Total
    /\ paid = [k \in Keys |-> 0]
    /\ inflight = {}
    /\ pc = [w \in Workers |-> "idle"]
    /\ cur = [w \in Workers |-> AnyJob]
    /\ seen = [w \in Workers |-> {}]
    /\ room = [w \in Workers |-> 0]
    /\ verdict = [w \in Workers |-> "SKIPPED"]
    /\ got = [w \in Workers |-> {}]

-----------------------------------------------------------------------------
(* Producers                                                               *)

(* refunds/create or orders/cancelled arrives.  The job id is derived from *)
(* the refund, so a redelivery that finds the job enqueues nothing.  The   *)
(* two-minute delay of a cancellation is not modelled: any order may win.  *)
IsKnownJob(h, k) ==
    /\ request[h].at = "idle"
    /\ ~Known(First[k])
    /\ request' = [request EXCEPT ![h] = [key |-> k, at |-> "row"]]
    /\ UNCHANGED <<queueVars, rowVars, syncJob, decathlonVars, runVars>>

(* The SyncJob row is written.  If another request has added the job since *)
(* the look, the row is one no run will ever work on.                      *)
CreateSyncJob(h) ==
    /\ request[h].at = "row"
    /\ request' = [request EXCEPT ![h].at = "add"]
    /\ LET j == First[request[h].key]
       IN  syncJob' = IF Known(j) THEN syncJob ELSE [syncJob EXCEPT ![j] = "PENDING"]
    /\ UNCHANGED <<queueVars, rowVars, decathlonVars, runVars>>

AddRefundJob(h) ==
    /\ request[h].at = "add"
    /\ AddJob(First[request[h].key])
    /\ request' = [request EXCEPT ![h] = NoRequest]
    /\ UNCHANGED <<rowVars, syncJob, decathlonVars, runVars>>

(* A call fails, or the backend goes down, before the job is added. *)
RequestBreaksOff(h) ==
    /\ request[h].at # "idle"
    /\ request' = [request EXCEPT ![h] = NoRequest]
    /\ UNCHANGED <<queueVars, rowVars, syncJob, decathlonVars, runVars>>

EnqueueRefundSync(h) ==
    \/ \E k \in Keys : IsKnownJob(h, k)
    \/ CreateSyncJob(h)
    \/ AddRefundJob(h)
    \/ RequestBreaksOff(h)

(* The retry-failed-sync processor: the SyncJob is marked RETRYING, be its *)
(* status what it may, and its payload, which names no SyncJob, is         *)
(* enqueued under a fresh id.                                              *)
RetryFailedSync(j, r) ==
    /\ syncJob[j] # "NONE"
    /\ KeyOf[r] = KeyOf[j] /\ r # First[KeyOf[r]] /\ ~Known(r)
    /\ syncJob' = [syncJob EXCEPT ![j] = "RETRYING"]
    /\ AddJob(r)
    /\ UNCHANGED <<rowVars, request, decathlonVars, runVars>>

-----------------------------------------------------------------------------
(* One run of syncRefund                                                   *)

Key(w) == KeyOf[cur[w]]

GoTo(w, place) == pc' = [pc EXCEPT ![w] = place]

(* The run is about to write v to its RefundMapping row. *)
Conclude(w, v, ids) ==
    /\ GoTo(w, "write")
    /\ verdict' = [verdict EXCEPT ![w] = v]
    /\ got' = [got EXCEPT ![w] = ids]

(* The run is over: its local variables are gone. *)
EndRun(w) ==
    /\ GoTo(w, "idle")
    /\ cur' = [cur EXCEPT ![w] = AnyJob]
    /\ seen' = [seen EXCEPT ![w] = {}]
    /\ room' = [room EXCEPT ![w] = 0]
    /\ verdict' = [verdict EXCEPT ![w] = "SKIPPED"]
    /\ got' = [got EXCEPT ![w] = {}]

(* The processor takes a job; startJob moves its SyncJob to PROCESSING, or *)
(* creates one when the payload names none.  That the payload names no     *)
(* refund either (order-lifecycle.ts:292) cannot happen: the webhook       *)
(* parser drops a refund without id (shopify.adapter.ts:219).              *)
Start(w, j) ==
    /\ pc[w] = "idle"
    /\ TakeJob(w, j)
    /\ cur' = [cur EXCEPT ![w] = j]
    /\ GoTo(w, "claim")
    /\ syncJob' = [syncJob EXCEPT ![j] = "PROCESSING"]
    /\ UNCHANGED <<rowVars, decathlonVars, seen, room, verdict, got>>

(* loadOrder finds no mapping of the order.  A row refers to its mapping   *)
(* and is deleted with it, so there is none then.                          *)
NotImported(w) ==
    /\ pc[w] = "claim"
    /\ row[Key(w)] = "NONE"
    /\ syncJob' = [syncJob EXCEPT ![cur[w]] = "SKIPPED"]
    /\ CompleteJob(w, cur[w])
    /\ EndRun(w)
    /\ UNCHANGED <<rowVars, decathlonVars>>

(* Faulty variants: a claim that only respects SUCCESS, or only PROCESSING. *)
ClaimableUnlessDone(k) == row[k] # "SUCCESS"
ClaimableUnlessRunning(k) == row[k] # "PROCESSING"

Claimable(k) == row[k] \in {"NONE", "FAILED"}

(* RefundMappingRepository.claim: an insert against the unique key, or a   *)
(* conditional update that takes over a FAILED row and keeps its ids.      *)
Claim(w) ==
    /\ pc[w] = "claim"
    /\ Claimable(Key(w))
    /\ row' = [row EXCEPT ![Key(w)] = "PROCESSING"]
    /\ GoTo(w, "fetch")
    /\ UNCHANGED <<queueVars, attempted, before, created, syncJob, decathlonVars,
                   cur, seen, room, verdict, got>>

(* No claim: the job ends as SKIPPED, "already sent to Decathlon". *)
ClaimRefused(w) ==
    /\ pc[w] = "claim"
    /\ ~Claimable(Key(w))
    /\ syncJob' = [syncJob EXCEPT ![cur[w]] = "SKIPPED"]
    /\ CompleteJob(w, cur[w])
    /\ EndRun(w)
    /\ UNCHANGED <<rowVars, decathlonVars>>

RefundIds == {r.id : r \in refunds}

(* Faulty variants: an empty stored list is treated like a missing one; or *)
(* the stored list is not subtracted.                                      *)
AppearedIfNotEmpty(k) ==
    IF k \in attempted /\ before[k] # {} THEN RefundIds \ before[k] ELSE {}
AppearedEver(k) == IF k \in attempted THEN RefundIds ELSE {}

(* Refunds that were not there when this one was first attempted. *)
Appeared(k) == IF k \in attempted THEN RefundIds \ before[k] ELSE {}

(* OR11 answers.  If refunds appeared since an earlier attempt, that       *)
(* attempt is taken to have gone through; otherwise the run goes on.       *)
FetchOrder(w) ==
    /\ pc[w] = "fetch"
    /\ seen' = [seen EXCEPT ![w] = RefundIds]
    /\ room' = [room EXCEPT ![w] = left]
    /\ IF Appeared(Key(w)) # {}
         THEN Conclude(w, "SUCCESS", Appeared(Key(w)))
         ELSE GoTo(w, "mark") /\ UNCHANGED <<verdict, got>>
    /\ UNCHANGED <<queueVars, rowVars, syncJob, decathlonVars, cur>>

(* OR11 does not know the order. *)
OrderNotFound(w) ==
    /\ pc[w] = "fetch"
    /\ Conclude(w, "FAILED", {})
    /\ UNCHANGED <<queueVars, rowVars, syncJob, decathlonVars, cur, seen, room>>

(* The ids seen before the first attempt are stored ahead of the request. *)
MarkAttempt(w) ==
    /\ pc[w] = "mark"
    /\ row' = [row EXCEPT ![Key(w)] = "PROCESSING"]
    /\ before' = [before EXCEPT ![Key(w)] = IF Key(w) \in attempted THEN @ ELSE seen[w]]
    /\ created' = [created EXCEPT ![Key(w)] = {}]
    /\ attempted' = attempted \cup {Key(w)}
    /\ GoTo(w, "send")
    /\ UNCHANGED <<queueVars, syncJob, decathlonVars, cur, seen, room, verdict, got>>

(* Faulty variant: the cap is forgotten. *)
AmountUncapped(k, available) == IF k \in CancelKeys THEN available ELSE Want[k]

(* What buildRefunds / buildCancellationRefunds asks OR28 for: a refund is *)
(* capped at what Decathlon still holds, a cancellation takes all of it.   *)
AmountFor(k, available) ==
    IF k \in CancelKeys \/ Want[k] > available THEN available ELSE Want[k]

Amount(w) == AmountFor(Key(w), room[w])

(* The builder threw: a refunded line is not on the Decathlon order. *)
BuildFails(w) ==
    /\ pc[w] = "send"
    /\ Key(w) \in Unmappable
    /\ Conclude(w, "FAILED", {})
    /\ UNCHANGED <<queueVars, rowVars, syncJob, decathlonVars, cur, seen, room>>

NothingToRefund(w) ==
    /\ pc[w] = "send"
    /\ Key(w) \notin Unmappable
    /\ Amount(w) = 0
    /\ Conclude(w, "SKIPPED", {})
    /\ UNCHANGED <<queueVars, rowVars, syncJob, decathlonVars, cur, seen, room>>

Sending(w) == pc[w] = "send" /\ Key(w) \notin Unmappable /\ Amount(w) > 0

NextId == lastId + 1

(* Decathlon applies a refund of a units on behalf of origin o. *)
Apply(o, a) ==
    /\ a <= left
    /\ left' = left - a
    /\ lastId' = NextId
    /\ refunds' = refunds \cup {[id |-> NextId, key |-> o]}
    /\ paid' = IF o \in Keys THEN [paid EXCEPT ![o] = @ + 1] ELSE paid

(* OR28 answers that the refund was created; the answer may lack its id. *)
SendApplied(w) ==
    /\ Sending(w)
    /\ Apply(Key(w), Amount(w))
    /\ \E ids \in {{}, {NextId}} : Conclude(w, "SUCCESS", ids)
    /\ UNCHANGED <<queueVars, rowVars, syncJob, inflight, cur, seen, room>>

(* OR28 refuses: nothing was refunded. *)
SendRefused(w) ==
    /\ Sending(w)
    /\ Conclude(w, "FAILED", {})
    /\ UNCHANGED <<queueVars, rowVars, syncJob, decathlonVars, cur, seen, room>>

(* No answer, or a 5xx: DecathlonOutcomeUnknownError.  The request may     *)
(* have been applied, may be lost, or may still be on its way.             *)
SendUnknown(w) ==
    /\ Sending(w)
    /\ \/ Apply(Key(w), Amount(w)) /\ UNCHANGED inflight
       \/ UNCHANGED decathlonVars
       \/ /\ LateApply
          /\ inflight' = inflight \cup {[key |-> Key(w), amount |-> Amount(w)]}
          /\ UNCHANGED <<refunds, lastId, left, paid>>
    /\ Conclude(w, "FAILED", {})
    /\ UNCHANGED <<queueVars, rowVars, syncJob, cur, seen, room>>

(* refundMappings.finish *)
WriteRow(w) ==
    /\ pc[w] = "write"
    /\ row' = [row EXCEPT ![Key(w)] = verdict[w]]
    /\ created' = [created EXCEPT ![Key(w)] = IF verdict[w] = "SUCCESS" THEN got[w] ELSE @]
    /\ GoTo(w, "log")
    /\ UNCHANGED <<queueVars, attempted, before, syncJob, decathlonVars,
                   cur, seen, room, verdict, got>>

(* syncLogs.write and syncJobs.finish: the run returns and the job completes. *)
FinishRun(w) ==
    /\ pc[w] = "log"
    /\ syncJob' = [syncJob EXCEPT ![cur[w]] = verdict[w]]
    /\ CompleteJob(w, cur[w])
    /\ EndRun(w)
    /\ UNCHANGED <<rowVars, decathlonVars>>

(* A call outside the two try blocks throws: the shop context, the         *)
(* database, or getOrders.  Nothing is undone; BullMQ decides about a      *)
(* further attempt.                                                        *)
Throw(w) ==
    /\ pc[w] # "idle"
    /\ FailJob(w, cur[w])
    /\ EndRun(w)
    /\ UNCHANGED <<rowVars, syncJob, decathlonVars>>

-----------------------------------------------------------------------------
(* The environment                                                         *)

(* The worker process dies, or SIGTERM ends it, in the middle of a run. *)
Crash(w) ==
    /\ pc[w] # "idle"
    /\ EndRun(w)
    /\ UNCHANGED <<queueVars, rowVars, request, syncJob, decathlonVars>>

Running(w, j) == pc[w] # "idle" /\ cur[w] = j

(* The stalled-job check finds the job of a dead processor. *)
RecoverStalled(j) ==
    /\ ~(holder[j] \in Workers /\ Running(holder[j], j))
    /\ StallJob(j)
    /\ UNCHANGED <<rowVars, request, syncJob, decathlonVars, runVars>>

(* The lock of a run that is still alive expires (a blocked event loop, a  *)
(* Redis outage): the job is handed out again while the run goes on.       *)
LoseLock(j) ==
    /\ holder[j] \in Workers /\ Running(holder[j], j)
    /\ StallJob(j)
    /\ UNCHANGED <<rowVars, request, syncJob, decathlonVars, runVars>>

(* A refund made in the Seller Portal, or by Decathlon itself. *)
OutsideRefund ==
    /\ lastId < MaxRefundIds
    /\ left > 0
    /\ Apply(Outsider, 1)
    /\ UNCHANGED <<queueVars, rowVars, request, syncJob, inflight, runVars>>

(* Decathlon gets round to a request the client no longer waits for. *)
ApplyLate(q) ==
    /\ q \in inflight
    /\ inflight' = inflight \ {q}
    /\ \/ Apply(q.key, q.amount)
       \/ q.amount > left /\ UNCHANGED <<refunds, lastId, left, paid>>
    /\ UNCHANGED <<queueVars, rowVars, request, syncJob, runVars>>

-----------------------------------------------------------------------------
RunStep(w) ==
    \/ \E j \in Jobs : Start(w, j)
    \/ NotImported(w)
    \/ Claim(w)
    \/ ClaimRefused(w)
    \/ FetchOrder(w)
    \/ OrderNotFound(w)
    \/ MarkAttempt(w)
    \/ BuildFails(w)
    \/ NothingToRefund(w)
    \/ SendApplied(w)
    \/ SendRefused(w)
    \/ SendUnknown(w)
    \/ WriteRow(w)
    \/ FinishRun(w)
    \/ Throw(w)

Step(w) == RunStep(w) /\ UNCHANGED request

Next ==
    \/ \E h \in Handlers : EnqueueRefundSync(h)
    \/ \E j, r \in Jobs : RetryFailedSync(j, r)
    \/ \E w \in Workers : Step(w) \/ Crash(w)
    \/ \E j \in Jobs : RecoverStalled(j) \/ LoseLock(j)
    \/ OutsideRefund
    \/ \E q \in inflight : ApplyLate(q)

Spec == Init /\ [][Next]_vars

(* A live processor goes on with its run and takes waiting jobs, and the   *)
(* stalled-job check runs every 30 s.  Nothing is assumed of webhooks, of  *)
(* the retry sweep or of Decathlon.                                        *)
Fairness ==
    /\ \A w \in Workers : WF_vars(Step(w))
    /\ \A j \in Jobs : WF_vars(RecoverStalled(j))

FairSpec == Spec /\ Fairness

-----------------------------------------------------------------------------
(* Properties                                                              *)

(* Every Shopify refund is applied by Decathlon at most once, whatever     *)
(* crashes, throws, lost locks, retries and unanswered requests happen     *)
(* (order-lifecycle.ts:274 "never refund twice").                          *)
AtMostOnce == \A k \in Keys : paid[k] <= 1

(* A SUCCESS row is either truly refunded, or a refund of somebody else    *)
(* appeared on the order after this one was first attempted: that is the   *)
(* only way the check of order-lifecycle.ts:317-326 can be mistaken.       *)
SuccessExplained ==
    \A k \in Keys :
        row[k] = "SUCCESS" =>
            \/ paid[k] > 0
            \/ \E r \in refunds : r.key # k /\ r.id \notin before[k]

(* A run asks Decathlon for more than it holds only if a refund that no    *)
(* RefundMapping row accounts for was applied after the run read the       *)
(* order: refund jobs never race each other for the balance                *)
(* (worker/src/index.ts:170, concurrency 1).                               *)
OverdrawIsUnaccounted ==
    \A w \in Workers :
        Sending(w) /\ Amount(w) > left =>
            \E r \in refunds :
                r.id \notin seen[w] /\ \A k \in Keys : r.id \notin created[k]

(* The RefundMapping row of a key as a claim on it. *)
ClaimOf(k) ==
    CASE row[k] = "PROCESSING" -> "claimed"
      [] row[k] \in {"SUCCESS", "SKIPPED"} -> "closed"
      [] OTHER -> "free"

Contract == INSTANCE ClaimContract WITH
                claim <- [k \in Keys |-> ClaimOf(k)],
                effects <- paid

(* The refund jobs keep the claim contract: Decathlon refunds on behalf of *)
(* a key at most once, only while its row is PROCESSING, and a closed row  *)
(* is final (fulfillment.repository.ts:42, "claim-before-send").           *)
KeepsClaimContract == Contract!Spec

(* Every enqueued job comes to an end: attempts and stalls are bounded. *)
EveryJobEnds == \A j \in Jobs : job[j] = "waiting" ~> Ended(j)

-----------------------------------------------------------------------------
(* The inductive invariant behind AtMostOnce and SuccessExplained          *)

(* The run owns the row of its key: it has claimed and not yet concluded. *)
Owns(w) == pc[w] \in {"fetch", "mark", "send", "write"}

(* At most one run owns a row, and an owned row is PROCESSING. *)
ClaimIsExclusive ==
    \A w \in Workers : Owns(w) =>
        /\ row[Key(w)] = "PROCESSING"
        /\ \A v \in Workers : Owns(v) /\ Key(v) = Key(w) => v = w

(* Decathlon's ids are fresh, and every stored id was once handed out. *)
IdsHandedOut ==
    /\ \A r \in refunds : r.id <= lastId
    /\ \A k \in Keys : \A i \in before[k] : i <= lastId
    /\ \A w \in Workers : \A i \in seen[w] : i <= lastId

(* A refunded key shows: its attempt is on record, and one of its refunds  *)
(* is not among the ids seen before that attempt.                          *)
PaidIsVisible ==
    /\ \A k \in Keys : paid[k] > 0 =>
            /\ k \in attempted
            /\ \E r \in refunds : r.key = k /\ r.id \notin before[k]
    /\ \A r \in refunds : r.key \in Keys => paid[r.key] > 0

(* A run that is about to send has made sure that nothing was paid yet. *)
SenderIsUnpaid ==
    \A w \in Workers :
        /\ pc[w] \in {"mark", "send"} => paid[Key(w)] = 0
        /\ pc[w] = "send" => Key(w) \in attempted

(* A run about to write SUCCESS has a refund to show for it. *)
SuccessHasCause ==
    \A w \in Workers :
        pc[w] = "write" /\ verdict[w] = "SUCCESS" =>
            /\ Key(w) \in attempted
            /\ \E r \in refunds : r.id \notin before[Key(w)]

RefundInv ==
    /\ TypeOK
    /\ QueueBudget
    /\ inflight = {}
    /\ ClaimIsExclusive
    /\ IdsHandedOut
    /\ PaidIsVisible
    /\ SenderIsUnpaid
    /\ SuccessHasCause
    /\ AtMostOnce
    /\ SuccessExplained

-----------------------------------------------------------------------------
(* What the code's own words claim, and a run refutes                      *)

(* What the SKIPPED message of a refused claim says: a run that finds the  *)
(* row PROCESSING, while no other run is at work on it, ends as "already   *)
(* sent to Decathlon" (order-lifecycle.ts:298), so it was.                 *)
AlreadySentIsTrue ==
    \A w \in Workers :
        /\ pc[w] = "claim"
        /\ row[Key(w)] = "PROCESSING"
        /\ \A v \in Workers \ {w} : pc[v] # "idle" => Key(v) # Key(w)
        => paid[Key(w)] = 1

=============================================================================
