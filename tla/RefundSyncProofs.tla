-------------------------- MODULE RefundSyncProofs --------------------------
(***************************************************************************)
(* Proofs about RefundSync for every set of refunds, jobs and processors,  *)
(* every number of attempts and stalls, and every balance of the order.    *)
(***************************************************************************)
EXTENDS RefundSync, TLAPS

USE QueueAssumption, RefundAssumption

(* The typing part of the induction: QueueBudget is what keeps the counters *)
(* of BullMQ within their bounds.                                           *)
Typed == TypeOK /\ QueueBudget

LEMMA AnyJobIsJob == AnyJob \in Jobs
  BY DEF AnyJob

LEMMA NoRequestIsRequest == NoRequest \in Requests
  BY AnyJobIsJob DEF NoRequest, Requests

LEMMA InitTyped == Init => Typed
  BY AnyJobIsJob, NoRequestIsRequest DEF Init, QueueInit, Typed, TypeOK, QueueTypeOK, QueueBudget, JobStates,
     Status, Places, Verdicts

(* A run takes, completes, fails or loses a job within the types. *)
LEMMA QueueStepTyped ==
  ASSUME QueueTypeOK, QueueBudget, NEW w \in Workers, NEW j \in Jobs,
         \/ AddJob(j)
         \/ TakeJob(w, j)
         \/ CompleteJob(w, j)
         \/ FailJob(w, j)
         \/ StallJob(j)
  PROVE  QueueTypeOK' /\ QueueBudget'
  <1> USE DEF QueueTypeOK, QueueBudget, JobStates, Known, Holds
  <1>1. CASE AddJob(j)
    BY <1>1 DEF AddJob
  <1>2. CASE TakeJob(w, j)
    BY <1>2 DEF TakeJob
  <1>3. CASE CompleteJob(w, j)
    BY <1>3 DEF CompleteJob
  <1>4. CASE FailJob(w, j)
    BY <1>4 DEF FailJob
  <1>5. CASE StallJob(j)
    BY <1>5 DEF StallJob
  <1>6. QED
    BY <1>1, <1>2, <1>3, <1>4, <1>5

(* A refund applied at Decathlon keeps the ledger within the types. *)
LEMMA ApplyTyped ==
  ASSUME TypeOK, NEW o \in Keys \cup {Outsider}, NEW a \in Nat, Apply(o, a)
  PROVE  /\ left' \in Nat
         /\ lastId' \in Nat
         /\ refunds' \subseteq [id : Nat, key : Keys \cup {Outsider}]
         /\ paid' \in [Keys -> Nat]
  BY DEF TypeOK, Apply, NextId

(* What a step of one run changes stays within the types: one case per      *)
(* action of the run.                                                       *)
LEMMA StepTyped ==
  ASSUME Typed, NEW w \in Workers, Step(w)
  PROVE  Typed'
  <1> USE DEF Typed, TypeOK, Status, Places, Verdicts, Key, GoTo, Conclude, EndRun,
              rowVars, decathlonVars, runVars, queueVars
  <1>a. ASSUME UNCHANGED queueVars
        PROVE  QueueTypeOK' /\ QueueBudget'
    BY <1>a DEF QueueTypeOK, QueueBudget
  <1>b. cur[w] \in Jobs /\ KeyOf[cur[w]] \in Keys
    OBVIOUS
  <1>r. request' = request
    BY DEF Step
  <1> USE <1>r
  <1>1. ASSUME NEW j \in Jobs, Start(w, j)
        PROVE  Typed'
    <2>1. QueueTypeOK' /\ QueueBudget'
      BY <1>1, QueueStepTyped DEF Start
    <2>2. QED
      BY <1>1, <2>1 DEF Start
  <1>2. CASE Claim(w)
    BY <1>2, <1>a DEF Claim
  <1>3. CASE ClaimRefused(w)
    <2>1. QueueTypeOK' /\ QueueBudget'
      BY <1>3, QueueStepTyped DEF ClaimRefused
    <2>2. QED
      BY <1>3, <2>1, AnyJobIsJob DEF ClaimRefused
  <1>n. CASE NotImported(w)
    <2>1. QueueTypeOK' /\ QueueBudget'
      BY <1>n, QueueStepTyped DEF NotImported
    <2>2. QED
      BY <1>n, <2>1, AnyJobIsJob DEF NotImported
  <1>4. CASE FetchOrder(w)
    <2>1. RefundIds \in SUBSET Nat /\ Appeared(Key(w)) \in SUBSET Nat
      BY DEF RefundIds, Appeared
    <2>2. pc' \in [Workers -> Places] /\ got' \in [Workers -> SUBSET Nat]
           /\ verdict' \in [Workers -> Verdicts]
      <3>1. CASE Appeared(Key(w)) # {}
        BY <1>4, <2>1, <3>1 DEF FetchOrder
      <3>2. CASE Appeared(Key(w)) = {}
        BY <1>4, <3>2 DEF FetchOrder
      <3>3. QED
        BY <3>1, <3>2
    <2>3. seen' \in [Workers -> SUBSET Nat] /\ room' \in [Workers -> Nat]
      BY <1>4, <2>1 DEF FetchOrder
    <2>4. QED
      BY <1>4, <1>a, <2>2, <2>3 DEF FetchOrder
  <1>5. CASE OrderNotFound(w)
    BY <1>5, <1>a DEF OrderNotFound
  <1>6. CASE MarkAttempt(w)
    BY <1>6, <1>a DEF MarkAttempt
  <1>7. CASE BuildFails(w)
    BY <1>7, <1>a DEF BuildFails
  <1>8. CASE NothingToRefund(w)
    BY <1>8, <1>a DEF NothingToRefund
  <1>c. Amount(w) \in Nat
    BY DEF Amount, AmountFor
  <1>9. CASE SendApplied(w)
    <2>1. /\ left' \in Nat
          /\ lastId' \in Nat
          /\ refunds' \subseteq [id : Nat, key : Keys \cup {Outsider}]
          /\ paid' \in [Keys -> Nat]
      BY <1>9, <1>b, <1>c, ApplyTyped DEF SendApplied
    <2>2. PICK ids \in {{}, {NextId}} : Conclude(w, "SUCCESS", ids)
      BY <1>9 DEF SendApplied
    <2>3. ids \in SUBSET Nat
      BY DEF NextId
    <2>4. got' \in [Workers -> SUBSET Nat] /\ verdict' \in [Workers -> Verdicts]
          /\ pc' \in [Workers -> Places]
      BY <2>2, <2>3
    <2>5. QED
      BY <1>9, <1>a, <2>1, <2>4 DEF SendApplied
  <1>10. CASE SendRefused(w)
    BY <1>10, <1>a DEF SendRefused
  <1>11. CASE SendUnknown(w)
    <2>1. /\ left' \in Nat
          /\ lastId' \in Nat
          /\ refunds' \subseteq [id : Nat, key : Keys \cup {Outsider}]
          /\ paid' \in [Keys -> Nat]
      <3>1. CASE Apply(Key(w), Amount(w))
        BY <3>1, <1>b, <1>c, ApplyTyped
      <3>2. CASE UNCHANGED <<refunds, lastId, left, paid>>
        BY <3>2
      <3>3. QED
        BY <1>11, <3>1, <3>2 DEF SendUnknown
    <2>2. inflight' \subseteq [key : Keys, amount : Nat]
      BY <1>11, <1>b, <1>c DEF SendUnknown
    <2>3. QED
      BY <1>11, <1>a, <2>1, <2>2 DEF SendUnknown
  <1>12. CASE WriteRow(w)
    BY <1>12, <1>a DEF WriteRow
  <1>13. CASE FinishRun(w)
    <2>1. QueueTypeOK' /\ QueueBudget'
      BY <1>13, QueueStepTyped DEF FinishRun
    <2>2. QED
      BY <1>13, <2>1, AnyJobIsJob DEF FinishRun
  <1>14. CASE Throw(w)
    <2>1. QueueTypeOK' /\ QueueBudget'
      BY <1>14, QueueStepTyped DEF Throw
    <2>2. QED
      BY <1>14, <2>1, AnyJobIsJob DEF Throw
  <1>15. QED
    BY <1>1, <1>2, <1>3, <1>4, <1>5, <1>6, <1>7, <1>8, <1>9, <1>10, <1>11,
       <1>12, <1>13, <1>14, <1>n DEF Step, RunStep

(* The steps of the producers and of the environment.                       *)
LEMMA OtherTyped ==
  ASSUME Typed,
         \/ \E h \in Handlers : EnqueueRefundSync(h)
         \/ \E j, r \in Jobs : RetryFailedSync(j, r)
         \/ \E w \in Workers : Crash(w)
         \/ \E j \in Jobs : RecoverStalled(j) \/ LoseLock(j)
         \/ OutsideRefund
         \/ \E q \in inflight : ApplyLate(q)
  PROVE  Typed'
  <1> USE DEF Typed, TypeOK, Status, Places, Verdicts, GoTo, EndRun,
              rowVars, decathlonVars, runVars, queueVars
  <1>a. ASSUME UNCHANGED queueVars
        PROVE  QueueTypeOK' /\ QueueBudget'
    BY <1>a DEF QueueTypeOK, QueueBudget
  <1>1. ASSUME NEW h \in Handlers, EnqueueRefundSync(h)
        PROVE  Typed'
    <2> USE NoRequestIsRequest DEF Requests
    <2>1. CASE \E k \in Keys : IsKnownJob(h, k)
      BY <1>a, <2>1 DEF IsKnownJob
    <2>2. CASE CreateSyncJob(h)
      <3>1. request' \in [Handlers -> Requests]
        BY <2>2 DEF CreateSyncJob
      <3>2. syncJob' \in [Jobs -> Status]
        BY <2>2 DEF CreateSyncJob
      <3>3. QED
        BY <1>a, <2>2, <3>1, <3>2 DEF CreateSyncJob
    <2>3. CASE AddRefundJob(h)
      <3>1. First[request[h].key] \in Jobs
        OBVIOUS
      <3>2. QueueTypeOK' /\ QueueBudget'
        BY <2>3, <3>1 DEF AddRefundJob, AddJob, QueueTypeOK, QueueBudget, JobStates, Known
      <3>3. QED
        BY <2>3, <3>2 DEF AddRefundJob
    <2>4. CASE RequestBreaksOff(h)
      BY <1>a, <2>4 DEF RequestBreaksOff
    <2>5. QED
      BY <1>1, <2>1, <2>2, <2>3, <2>4 DEF EnqueueRefundSync
  <1>2. ASSUME NEW j \in Jobs, NEW r \in Jobs, RetryFailedSync(j, r)
        PROVE  Typed'
    <2>1. QueueTypeOK' /\ QueueBudget'
      BY <1>2 DEF RetryFailedSync, AddJob, QueueTypeOK, QueueBudget, JobStates, Known
    <2>2. QED
      BY <1>2, <2>1 DEF RetryFailedSync
  <1>3. ASSUME NEW w \in Workers, Crash(w)
        PROVE  Typed'
    BY <1>3, <1>a, AnyJobIsJob DEF Crash
  <1>4. ASSUME NEW j \in Jobs, RecoverStalled(j) \/ LoseLock(j)
        PROVE  Typed'
    <2>1. StallJob(j)
      BY <1>4 DEF RecoverStalled, LoseLock
    <2>2. QueueTypeOK' /\ QueueBudget'
      BY <2>1 DEF StallJob, QueueTypeOK, QueueBudget, JobStates
    <2>3. QED
      BY <1>4, <2>2 DEF RecoverStalled, LoseLock
  <1>5. CASE OutsideRefund
    <2>1. /\ left' \in Nat
          /\ lastId' \in Nat
          /\ refunds' \subseteq [id : Nat, key : Keys \cup {Outsider}]
          /\ paid' \in [Keys -> Nat]
      BY <1>5, ApplyTyped DEF OutsideRefund
    <2>2. QED
      BY <1>5, <1>a, <2>1 DEF OutsideRefund
  <1>6. ASSUME NEW q \in inflight, ApplyLate(q)
        PROVE  Typed'
    <2>1. /\ left' \in Nat
          /\ lastId' \in Nat
          /\ refunds' \subseteq [id : Nat, key : Keys \cup {Outsider}]
          /\ paid' \in [Keys -> Nat]
      <3>1. CASE Apply(q.key, q.amount)
        BY <3>1, ApplyTyped
      <3>2. CASE UNCHANGED <<refunds, lastId, left, paid>>
        BY <3>2
      <3>3. QED
        BY <1>6, <3>1, <3>2 DEF ApplyLate
    <2>2. QED
      BY <1>6, <1>a, <2>1 DEF ApplyLate
  <1>7. QED
    BY <1>1, <1>2, <1>3, <1>4, <1>5, <1>6

LEMMA NextTyped == Typed /\ [Next]_vars => Typed'
  <1>1. ASSUME Typed, Next
        PROVE  Typed'
    BY <1>1, StepTyped, OtherTyped DEF Next
  <1>2. ASSUME Typed, UNCHANGED vars
        PROVE  Typed'
    BY <1>2 DEF Typed, TypeOK, QueueTypeOK, QueueBudget, vars, queueVars, rowVars,
       decathlonVars, runVars
  <1>3. QED
    BY <1>1, <1>2

(* Type correctness for all constants: in particular no job ever gets more  *)
(* than MaxAttempts attempts or is stalled more than MaxStalls + 1 times.   *)
THEOREM TypeCorrect == Spec => []TypeOK
  <1>1. Spec => []Typed
    BY InitTyped, NextTyped, PTL DEF Spec
  <1>2. Typed => TypeOK
    BY DEF Typed
  <1>3. QED
    BY <1>1, <1>2, PTL


-----------------------------------------------------------------------------
(* Safety, for a Decathlon that applies no request after the client gave   *)
(* up on it.  AtMostOnce alone is not inductive: that a key is paid must   *)
(* show in what its next run reads (PaidIsVisible), a run that got past    *)
(* that check must be the only one at work on the key (ClaimIsExclusive)   *)
(* and must still be right when it sends (SenderIsUnpaid).                 *)

LEMMA InitSafe == Init => RefundInv
  <1> SUFFICES ASSUME Init
               PROVE  RefundInv
    OBVIOUS
  <1>1. Typed
    BY InitTyped
  <1>2. QED
    BY <1>1 DEF Init, RefundInv, Typed, ClaimIsExclusive, Owns, IdsHandedOut,
       PaidIsVisible, SenderIsUnpaid, SuccessHasCause, AtMostOnce, SuccessExplained

(* The steps of a run that change neither Decathlon's side nor any row.    *)
LEMMA QuietStepSafe ==
  ASSUME RefundInv, Typed', NEW w \in Workers,
         UNCHANGED <<rowVars, decathlonVars>>,
         \A v \in Workers \ {w} :
            UNCHANGED <<pc[v], cur[v], seen[v], verdict[v]>>,
         pc'[w] \in {"idle", "claim", "log"},
         seen'[w] \subseteq seen[w]
  PROVE  RefundInv'
  <1> USE DEF RefundInv, Typed, TypeOK, rowVars, decathlonVars
  <1>1. \A v \in Workers : pc'[v] \notin {"idle", "claim", "log"} =>
          v # w /\ UNCHANGED <<pc[v], cur[v], seen[v], verdict[v]>>
    OBVIOUS
  <1>2. ClaimIsExclusive'
    <2>1. \A v \in Workers : pc'[v] \in {"fetch", "mark", "send", "write"} =>
            UNCHANGED <<pc[v], cur[v]>>
      BY <1>1
    <2>2. QED
      BY <2>1 DEF ClaimIsExclusive, Owns, Key
  <1>3. IdsHandedOut'
    BY DEF IdsHandedOut
  <1>4. PaidIsVisible' /\ AtMostOnce' /\ SuccessExplained'
    BY DEF PaidIsVisible, AtMostOnce, SuccessExplained
  <1>5. SenderIsUnpaid' /\ SuccessHasCause'
    <2>1. \A v \in Workers : pc'[v] \in {"mark", "send", "write"} =>
            UNCHANGED <<pc[v], cur[v], verdict[v]>>
      BY <1>1
    <2>2. SenderIsUnpaid'
      BY <2>1 DEF SenderIsUnpaid, Key
    <2>3. SuccessHasCause'
      BY <2>1 DEF SuccessHasCause, Key
    <2>4. QED
      BY <2>2, <2>3
  <1>6. QED
    BY <1>2, <1>3, <1>4, <1>5

(* The steps of a run that hold its claim, and the write that ends it.     *)
LEMMA OwnedStepSafe ==
  ASSUME ~LateApply, RefundInv, Typed', NEW w \in Workers,
         \/ Claim(w)
         \/ FetchOrder(w)
         \/ OrderNotFound(w)
         \/ MarkAttempt(w)
         \/ BuildFails(w)
         \/ NothingToRefund(w)
         \/ SendApplied(w)
         \/ SendRefused(w)
         \/ SendUnknown(w)
         \/ WriteRow(w)
  PROVE  RefundInv'
  <1> USE DEF RefundInv, Typed, TypeOK, GoTo, Conclude, rowVars, decathlonVars, runVars, Key
  <1>1. CASE Claim(w)
    <2>1. ClaimIsExclusive'
      BY <1>1 DEF Claim, Claimable, ClaimIsExclusive, Owns
    <2>2. IdsHandedOut' /\ PaidIsVisible'
      BY <1>1 DEF Claim, IdsHandedOut, PaidIsVisible
    <2>3. SenderIsUnpaid' /\ SuccessHasCause' /\ AtMostOnce' /\ SuccessExplained'
      BY <1>1 DEF Claim, SenderIsUnpaid, SuccessHasCause, AtMostOnce, SuccessExplained
    <2>4. QED
      BY <1>1, <2>1, <2>2, <2>3 DEF Claim
  <1>2. CASE FetchOrder(w)
    <2>1. ClaimIsExclusive'
      BY <1>2 DEF FetchOrder, ClaimIsExclusive, Owns
    <2>2. IdsHandedOut' /\ PaidIsVisible'
      BY <1>2 DEF FetchOrder, IdsHandedOut, PaidIsVisible, RefundIds
    <2>3. SenderIsUnpaid'
      BY <1>2 DEF FetchOrder, SenderIsUnpaid, PaidIsVisible, Appeared, RefundIds
    <2>4. SuccessHasCause'
      BY <1>2 DEF FetchOrder, SuccessHasCause, Appeared, RefundIds
    <2>5. QED
      BY <1>2, <2>1, <2>2, <2>3, <2>4 DEF FetchOrder, AtMostOnce, SuccessExplained
  <1>3. CASE OrderNotFound(w)
    BY <1>3 DEF OrderNotFound, ClaimIsExclusive, Owns, IdsHandedOut, PaidIsVisible,
       SenderIsUnpaid, SuccessHasCause, AtMostOnce, SuccessExplained
  <1>4. CASE MarkAttempt(w)
    <2>1. ClaimIsExclusive'
      BY <1>4 DEF MarkAttempt, ClaimIsExclusive, Owns
    <2>2. IdsHandedOut'
      BY <1>4 DEF MarkAttempt, IdsHandedOut
    <2>3. PaidIsVisible'
      BY <1>4 DEF MarkAttempt, PaidIsVisible, SenderIsUnpaid
    <2>4. SenderIsUnpaid'
      BY <1>4 DEF MarkAttempt, SenderIsUnpaid
    <2>5. SuccessHasCause' /\ AtMostOnce' /\ SuccessExplained'
      BY <1>4 DEF MarkAttempt, SuccessHasCause, AtMostOnce, SuccessExplained, ClaimIsExclusive, Owns
    <2>6. QED
      BY <1>4, <2>1, <2>2, <2>3, <2>4, <2>5 DEF MarkAttempt
  <1>5. CASE BuildFails(w)
    BY <1>5 DEF BuildFails, ClaimIsExclusive, Owns, IdsHandedOut, PaidIsVisible,
       SenderIsUnpaid, SuccessHasCause, AtMostOnce, SuccessExplained
  <1>6. CASE NothingToRefund(w)
    BY <1>6 DEF NothingToRefund, ClaimIsExclusive, Owns, IdsHandedOut, PaidIsVisible,
       SenderIsUnpaid, SuccessHasCause, AtMostOnce, SuccessExplained
  <1>a. ASSUME Apply(Key(w), Amount(w)), pc[w] = "send", pc'[w] = "write",
               UNCHANGED <<rowVars, cur, seen, inflight>>,
               \A v \in Workers \ {w} : UNCHANGED <<pc[v], verdict[v]>>,
               verdict'[w] \in Verdicts
        PROVE  RefundInv'
    <2> DEFINE new == [id |-> NextId, key |-> Key(w)]
    <2>1. /\ refunds' = refunds \cup {new} /\ new.id = lastId + 1 /\ new.key = KeyOf[cur[w]]
          /\ lastId' = lastId + 1
          /\ paid' = [paid EXCEPT ![KeyOf[cur[w]]] = @ + 1]
      BY <1>a DEF Apply, NextId
    <2> HIDE DEF new
    <2>2. ClaimIsExclusive'
      BY <1>a DEF ClaimIsExclusive, Owns
    <2>3. IdsHandedOut'
      BY <1>a, <2>1 DEF IdsHandedOut
    <2>4. new.id \notin before[KeyOf[cur[w]]]
      BY <2>1 DEF IdsHandedOut
    <2>5. PaidIsVisible'
      BY <1>a, <2>1, <2>4 DEF PaidIsVisible, SenderIsUnpaid
    <2>6. SenderIsUnpaid'
      BY <1>a, <2>1 DEF SenderIsUnpaid, ClaimIsExclusive, Owns
    <2>7. SuccessHasCause'
      BY <1>a, <2>1, <2>4 DEF SuccessHasCause, SenderIsUnpaid
    <2>8. AtMostOnce' /\ SuccessExplained'
      BY <1>a, <2>1 DEF SenderIsUnpaid, AtMostOnce, SuccessExplained
    <2>9. QED
      BY <1>a, <2>2, <2>3, <2>5, <2>6, <2>7, <2>8
  <1>7. CASE SendApplied(w)
    BY <1>7, <1>a DEF SendApplied, Sending, Verdicts
  <1>8. CASE SendRefused(w)
    BY <1>8 DEF SendRefused, Sending, ClaimIsExclusive, Owns, IdsHandedOut, PaidIsVisible,
       SenderIsUnpaid, SuccessHasCause, AtMostOnce, SuccessExplained
  <1>9. CASE SendUnknown(w)
    <2>1. CASE Apply(Key(w), Amount(w)) /\ UNCHANGED inflight
      BY <1>9, <2>1, <1>a DEF SendUnknown, Sending, Verdicts
    <2>2. CASE UNCHANGED decathlonVars
      BY <1>9, <2>2 DEF SendUnknown, Sending, ClaimIsExclusive, Owns, IdsHandedOut,
         PaidIsVisible, SenderIsUnpaid, SuccessHasCause, AtMostOnce, SuccessExplained
    <2>3. QED
      BY <1>9, <2>1, <2>2 DEF SendUnknown
  <1>10. CASE WriteRow(w)
    <2>1. ClaimIsExclusive'
      BY <1>10 DEF WriteRow, ClaimIsExclusive, Owns
    <2>2. IdsHandedOut' /\ PaidIsVisible' /\ SenderIsUnpaid' /\ SuccessHasCause' /\ AtMostOnce'
      BY <1>10 DEF WriteRow, IdsHandedOut, PaidIsVisible, SenderIsUnpaid, SuccessHasCause,
         AtMostOnce
    <2>3. SuccessExplained'
      BY <1>10 DEF WriteRow, SuccessHasCause, SuccessExplained, PaidIsVisible
    <2>4. QED
      BY <1>10, <2>1, <2>2, <2>3 DEF WriteRow
  <1>11. QED
    BY <1>1, <1>2, <1>3, <1>4, <1>5, <1>6, <1>7, <1>8, <1>9, <1>10

(* A step of any run. *)
LEMMA StepSafe ==
  ASSUME ~LateApply, RefundInv, Typed', NEW w \in Workers, Step(w)
  PROVE  RefundInv'
  <1> USE DEF RefundInv, Typed, TypeOK, GoTo, EndRun, Places
  <1>1. ASSUME NEW j \in Jobs, Start(w, j)
        PROVE  RefundInv'
    BY <1>1, QuietStepSafe DEF Start
  <1>2. CASE ClaimRefused(w)
    BY <1>2, QuietStepSafe DEF ClaimRefused
  <1>n. CASE NotImported(w)
    BY <1>n, QuietStepSafe DEF NotImported
  <1>3. CASE FinishRun(w)
    BY <1>3, QuietStepSafe DEF FinishRun
  <1>4. CASE Throw(w)
    BY <1>4, QuietStepSafe DEF Throw
  <1>5. QED
    BY <1>1, <1>2, <1>3, <1>4, <1>n, OwnedStepSafe DEF Step, RunStep

(* The steps of the producers and of the environment.                      *)
LEMMA OtherSafe ==
  ASSUME RefundInv, Typed',
         \/ \E h \in Handlers : EnqueueRefundSync(h)
         \/ \E j, r \in Jobs : RetryFailedSync(j, r)
         \/ \E w \in Workers : Crash(w)
         \/ \E j \in Jobs : RecoverStalled(j) \/ LoseLock(j)
         \/ OutsideRefund
         \/ \E q \in inflight : ApplyLate(q)
  PROVE  RefundInv'
  <1> USE DEF RefundInv, Typed, TypeOK
  <1>a. ASSUME UNCHANGED <<rowVars, decathlonVars, runVars>>
        PROVE  RefundInv'
    BY <1>a DEF rowVars, decathlonVars, runVars, ClaimIsExclusive, Owns, Key, IdsHandedOut,
       PaidIsVisible, SenderIsUnpaid, SuccessHasCause, AtMostOnce, SuccessExplained
  <1>1. CASE \E h \in Handlers : EnqueueRefundSync(h)
    BY <1>1, <1>a DEF EnqueueRefundSync, IsKnownJob, CreateSyncJob, AddRefundJob, RequestBreaksOff
  <1>2. CASE \E j, r \in Jobs : RetryFailedSync(j, r)
    BY <1>2, <1>a DEF RetryFailedSync
  <1>3. ASSUME NEW w \in Workers, Crash(w)
        PROVE  RefundInv'
    BY <1>3, QuietStepSafe DEF Crash, EndRun, GoTo, Places
  <1>4. CASE \E j \in Jobs : RecoverStalled(j) \/ LoseLock(j)
    BY <1>4, <1>a DEF RecoverStalled, LoseLock
  <1>5. CASE OutsideRefund
    <2> DEFINE new == [id |-> NextId, key |-> Outsider]
    <2>1. /\ refunds' = refunds \cup {new} /\ new.id = lastId + 1 /\ new.key = Outsider
          /\ lastId' = lastId + 1
          /\ paid' = paid
      BY <1>5 DEF OutsideRefund, Apply, NextId
    <2> HIDE DEF new
    <2>2. UNCHANGED <<inflight, rowVars, runVars>>
      BY <1>5 DEF OutsideRefund
    <2> USE <2>1, <2>2 DEF rowVars, runVars
    <2>3. ClaimIsExclusive' /\ IdsHandedOut' /\ PaidIsVisible'
      BY DEF ClaimIsExclusive, Owns, Key, IdsHandedOut, PaidIsVisible
    <2>4. SenderIsUnpaid' /\ SuccessHasCause' /\ AtMostOnce' /\ SuccessExplained'
      BY DEF SenderIsUnpaid, SuccessHasCause, AtMostOnce, SuccessExplained, Key
    <2>5. QED
      BY <2>3, <2>4
  <1>6. inflight = {}
    OBVIOUS
  <1>7. QED
    BY <1>1, <1>2, <1>3, <1>4, <1>5, <1>6

LEMMA NextSafe == ~LateApply /\ RefundInv /\ [Next]_vars => RefundInv'
  <1>1. ASSUME ~LateApply, RefundInv, [Next]_vars
        PROVE  Typed'
    BY <1>1, NextTyped DEF RefundInv, Typed
  <1>2. ASSUME ~LateApply, RefundInv, Next
        PROVE  RefundInv'
    BY <1>1, <1>2, StepSafe, OtherSafe DEF Next
  <1>3. ASSUME RefundInv, UNCHANGED vars
        PROVE  RefundInv'
    BY <1>3 DEF RefundInv, TypeOK, QueueTypeOK, QueueBudget, vars, queueVars, rowVars,
       decathlonVars, runVars, ClaimIsExclusive, Owns, Key, IdsHandedOut, PaidIsVisible,
       SenderIsUnpaid, SuccessHasCause, AtMostOnce, SuccessExplained
  <1>4. QED
    BY <1>2, <1>3

(* The invariant holds in every state, for any number of refunds, jobs,    *)
(* processors, attempts and stalls, if Decathlon applies nothing late.     *)
THEOREM InvariantHolds ==
  ASSUME ~LateApply
  PROVE  Spec => []RefundInv
  <1>1. RefundInv /\ [Next]_vars => RefundInv'
    BY NextSafe
  <1>2. QED
    BY <1>1, InitSafe, PTL DEF Spec

(* No Shopify refund reaches the customer twice: "never refund twice",     *)
(* order-lifecycle.ts:274, on condition of what line 350 takes for granted. *)
THEOREM RefundedAtMostOnce ==
  ASSUME ~LateApply
  PROVE  Spec => []AtMostOnce
  <1>1. RefundInv => AtMostOnce
    BY DEF RefundInv
  <1>2. QED
    BY <1>1, InvariantHolds, PTL

(* A row ends SUCCESS only on account of a refund that Decathlon shows.    *)
THEOREM SuccessHasARefund ==
  ASSUME ~LateApply
  PROVE  Spec => []SuccessExplained
  <1>1. RefundInv => SuccessExplained
    BY DEF RefundInv
  <1>2. QED
    BY <1>1, InvariantHolds, PTL

-----------------------------------------------------------------------------
(* Refinement: the refund jobs implement ClaimContract.                    *)

LEMMA ClaimUnchanged ==
  ASSUME TypeOK, TypeOK', row' = row, paid' = paid
  PROVE  UNCHANGED Contract!contractVars
  BY DEF Contract!contractVars, ClaimOf

(* Each step of a run is a step of the contract, or none.                  *)
LEMMA StepKeepsContract ==
  ASSUME ~LateApply, RefundInv, TypeOK', NEW w \in Workers, Step(w)
  PROVE  Contract!Next \/ UNCHANGED Contract!contractVars
  <1> USE DEF RefundInv, rowVars, decathlonVars, GoTo, Conclude
  <1>k. Key(w) \in Keys
    BY DEF TypeOK, Key
  <1>o. Owns(w) => ClaimOf(Key(w)) = "claimed"
    BY DEF ClaimIsExclusive, ClaimOf
  <1>1. ASSUME ~Claim(w), ~WriteRow(w), ~SendApplied(w), ~SendUnknown(w), ~MarkAttempt(w)
        PROVE  UNCHANGED Contract!contractVars
    <2>1. row' = row /\ paid' = paid
      BY <1>1 DEF Step, RunStep, Start, NotImported, ClaimRefused, FetchOrder, OrderNotFound, BuildFails,
         NothingToRefund, SendRefused, FinishRun, Throw
    <2>2. QED
      BY <2>1, ClaimUnchanged
  <1>2. CASE Claim(w)
    <2>1. ClaimOf(Key(w)) = "free"
      BY <1>2 DEF Claim, Claimable, ClaimOf
    <2>2. [k \in Keys |-> ClaimOf(k)]' = [[k \in Keys |-> ClaimOf(k)] EXCEPT ![Key(w)] = "claimed"]
      BY <1>2, <1>k DEF Claim, TypeOK, ClaimOf
    <2>3. Contract!Acquire(Key(w))
      BY <1>2, <1>k, <2>1, <2>2 DEF Contract!Acquire, Contract!Move, Claim
    <2>4. QED
      BY <1>k, <2>3 DEF Contract!Next
  <1>3. CASE MarkAttempt(w)
    <2>1. row' = row /\ paid' = paid
      BY <1>3 DEF MarkAttempt, ClaimIsExclusive, Owns, TypeOK
    <2>2. QED
      BY <2>1, ClaimUnchanged
  <1>4. ASSUME pc[w] = "send", Apply(Key(w), Amount(w)), row' = row
        PROVE  Contract!Next
    <2>1. paid[Key(w)] = 0
      BY <1>4 DEF SenderIsUnpaid
    <2>2. paid' = [paid EXCEPT ![Key(w)] = 1]
      BY <1>4, <1>k, <2>1 DEF Apply, TypeOK
    <2>3. [k \in Keys |-> ClaimOf(k)]' = [k \in Keys |-> ClaimOf(k)]
      BY <1>4 DEF ClaimOf
    <2>4. Contract!Effect(Key(w))
      BY <1>4, <1>k, <1>o, <2>1, <2>2, <2>3 DEF Contract!Effect, Owns
    <2>5. QED
      BY <1>k, <2>4 DEF Contract!Next
  <1>5. CASE SendApplied(w)
    BY <1>5, <1>4 DEF SendApplied, Sending
  <1>6. CASE SendUnknown(w)
    <2>1. row' = row /\ pc[w] = "send"
      BY <1>6 DEF SendUnknown, Sending
    <2>2. CASE Apply(Key(w), Amount(w))
      BY <2>1, <2>2, <1>4
    <2>3. CASE paid' = paid
      BY <2>1, <2>3, ClaimUnchanged
    <2>4. QED
      BY <1>6, <2>2, <2>3 DEF SendUnknown
  <1>7. CASE WriteRow(w)
    <2>1. ClaimOf(Key(w)) = "claimed"
      BY <1>7, <1>o DEF WriteRow, Owns
    <2>2. row' = [row EXCEPT ![Key(w)] = verdict[w]] /\ paid' = paid /\ verdict[w] \in Verdicts
      BY <1>7 DEF WriteRow, TypeOK
    <2>3. CASE verdict[w] = "FAILED"
      <3>1. [k \in Keys |-> ClaimOf(k)]' = [[k \in Keys |-> ClaimOf(k)] EXCEPT ![Key(w)] = "free"]
        BY <1>k, <2>2, <2>3 DEF ClaimOf, TypeOK
      <3>2. Contract!Release(Key(w))
        BY <1>k, <2>1, <2>2, <3>1 DEF Contract!Release, Contract!Move
      <3>3. QED
        BY <1>k, <3>2 DEF Contract!Next
    <2>4. CASE verdict[w] \in {"SUCCESS", "SKIPPED"}
      <3>1. [k \in Keys |-> ClaimOf(k)]' = [[k \in Keys |-> ClaimOf(k)] EXCEPT ![Key(w)] = "closed"]
        BY <1>k, <2>2, <2>4 DEF ClaimOf, TypeOK
      <3>2. Contract!Close(Key(w))
        BY <1>k, <2>1, <2>2, <3>1 DEF Contract!Close, Contract!Move
      <3>3. QED
        BY <1>k, <3>2 DEF Contract!Next
    <2>5. QED
      BY <2>2, <2>3, <2>4 DEF Verdicts
  <1>8. QED
    BY <1>1, <1>2, <1>3, <1>5, <1>6, <1>7

(* What the claim rows promise (fulfillment.repository.ts:42) holds of the *)
(* refunds Decathlon makes, for all constants: see KeepsClaimContract.     *)
THEOREM ClaimContractKept ==
  ASSUME ~LateApply
  PROVE  Spec => KeepsClaimContract
  <1>1. Init => Contract!Init
    BY DEF Init, Contract!Init, ClaimOf
  <1>2. ASSUME RefundInv, RefundInv', [Next]_vars
        PROVE  [Contract!Next]_Contract!contractVars
    <2>1. TypeOK /\ TypeOK'
      BY <1>2 DEF RefundInv
    <2>2. ASSUME NEW w \in Workers, Step(w)
          PROVE  Contract!Next \/ UNCHANGED Contract!contractVars
      BY <1>2, <2>1, <2>2, StepKeepsContract
    <2>3. ASSUME ~\E w \in Workers : Step(w)
          PROVE  UNCHANGED Contract!contractVars
      <3>1. row' = row /\ paid' = paid
        BY <1>2, <2>3 DEF Next, vars, rowVars, decathlonVars, EnqueueRefundSync, IsKnownJob,
           CreateSyncJob, AddRefundJob, RequestBreaksOff, RetryFailedSync, Crash, RecoverStalled, LoseLock, OutsideRefund, Apply,
           RefundInv
      <3>2. QED
        BY <2>1, <3>1, ClaimUnchanged
    <2>4. QED
      BY <2>2, <2>3
  <1>3. QED
    BY <1>1, <1>2, InvariantHolds, PTL DEF Spec, KeepsClaimContract, Contract!Spec

-----------------------------------------------------------------------------
(* The balance, however late Decathlon applies what it was asked.  The     *)
(* worker runs one refund job at a time (worker/src/index.ts:170).         *)

OneProcessor == \A v, w \in Workers : v = w

(* What a run or a row names are refunds of the order.                     *)
IdsAreRefunds ==
    /\ \A r \in refunds : r.id <= lastId
    /\ \A w \in Workers : \A i \in seen[w] : i <= lastId
    /\ \A k \in Keys : created[k] \subseteq RefundIds
    /\ \A w \in Workers : got[w] \subseteq RefundIds

(* A run that has read the order has seen every refund a row accounts for, *)
(* and what was taken from the balance since then is a refund it has not   *)
(* seen.                                                                   *)
ReadAccountsForRows ==
    \A w \in Workers : pc[w] \in {"mark", "send"} =>
        /\ \A k \in Keys : created[k] \subseteq seen[w]
        /\ left < room[w] => \E r \in refunds : r.id \notin seen[w]

MoneyInv == Typed /\ IdsAreRefunds /\ ReadAccountsForRows

LEMMA InitMoney == Init => MoneyInv
  BY InitTyped DEF Init, MoneyInv, IdsAreRefunds, ReadAccountsForRows

(* A refund Decathlon makes has an id that nobody has seen.                *)
LEMMA ApplyMoney ==
  ASSUME MoneyInv, Typed', NEW o \in Keys \cup {Outsider}, NEW a \in Nat, Apply(o, a),
         created' = created,
         \A w \in Workers :
            /\ seen'[w] = seen[w] /\ room'[w] = room[w]
            /\ pc'[w] \in {"mark", "send"} => pc[w] \in {"mark", "send"}
            /\ got'[w] \subseteq got[w] \cup {NextId}
  PROVE  MoneyInv'
  <1> USE DEF MoneyInv, Typed, TypeOK
  <1> DEFINE new == [id |-> NextId, key |-> o]
  <1>1. /\ refunds' = refunds \cup {new} /\ new.id = lastId + 1 /\ NextId = lastId + 1
        /\ lastId' = lastId + 1
    BY DEF Apply, NextId
  <1> HIDE DEF new
  <1>2. RefundIds' = RefundIds \cup {NextId}
    BY <1>1 DEF RefundIds
  <1>3. \A w \in Workers : new.id \notin seen[w]
    BY <1>1 DEF IdsAreRefunds
  <1>4. IdsAreRefunds'
    <2>1. \A r \in refunds' : r.id <= lastId'
      BY <1>1 DEF IdsAreRefunds
    <2>2. \A w \in Workers : \A i \in seen'[w] : i <= lastId'
      BY <1>1 DEF IdsAreRefunds
    <2>3. \A k \in Keys : created'[k] \subseteq RefundIds'
      BY <1>2 DEF IdsAreRefunds
    <2>4. \A w \in Workers : got'[w] \subseteq RefundIds'
      BY <1>2 DEF IdsAreRefunds
    <2>5. QED
      BY <2>1, <2>2, <2>3, <2>4 DEF IdsAreRefunds
  <1>5. ReadAccountsForRows'
    BY <1>1, <1>3 DEF ReadAccountsForRows
  <1>6. QED
    BY <1>4, <1>5

(* A step that leaves the order alone and accounts for nothing new.        *)
LEMMA QuietMoney ==
  ASSUME MoneyInv, Typed', UNCHANGED <<refunds, lastId, left>>,
         \A k \in Keys : created'[k] \subseteq created[k],
         \A w \in Workers :
            /\ seen'[w] \subseteq seen[w] /\ got'[w] \subseteq got[w]
            /\ pc'[w] \in {"mark", "send"} =>
                   pc[w] \in {"mark", "send"} /\ seen'[w] = seen[w] /\ room'[w] = room[w]
  PROVE  MoneyInv'
  <1> USE DEF MoneyInv, Typed, TypeOK
  <1>1. RefundIds' = RefundIds
    BY DEF RefundIds
  <1>2. IdsAreRefunds'
    BY <1>1 DEF IdsAreRefunds
  <1>3. ReadAccountsForRows'
    BY DEF ReadAccountsForRows
  <1>4. QED
    BY <1>2, <1>3

(* The step of a run.                                                      *)
LEMMA StepMoney ==
  ASSUME OneProcessor, MoneyInv, Typed', NEW w \in Workers, Step(w)
  PROVE  MoneyInv'
  <1> USE DEF MoneyInv, Typed, TypeOK, GoTo, Conclude, rowVars, decathlonVars, runVars
  <1>0. Workers = {w} /\ Key(w) \in Keys /\ Amount(w) \in Nat
    BY DEF OneProcessor, Key, Amount, AmountFor
  <1>1. CASE \E j \in Jobs : Start(w, j)
    BY <1>1, QuietMoney DEF Start
  <1>2. CASE Claim(w)
    BY <1>2, QuietMoney DEF Claim
  <1>3. CASE NotImported(w) \/ ClaimRefused(w) \/ FinishRun(w) \/ Throw(w)
    BY <1>3, QuietMoney DEF NotImported, ClaimRefused, FinishRun, Throw, EndRun
  <1>4. CASE FetchOrder(w)
    <2>1. /\ UNCHANGED <<refunds, lastId, left, created>> /\ RefundIds' = RefundIds
          /\ seen'[w] = RefundIds /\ room'[w] = left
      BY <1>4 DEF FetchOrder, RefundIds
    <2>2. Appeared(Key(w)) \subseteq RefundIds
      BY DEF Appeared
    <2>3. got'[w] \subseteq RefundIds
      <3>1. CASE Appeared(Key(w)) # {}
        BY <1>4, <2>2, <3>1 DEF FetchOrder
      <3>2. CASE Appeared(Key(w)) = {}
        BY <1>4, <3>2 DEF FetchOrder, IdsAreRefunds
      <3>3. QED
        BY <3>1, <3>2
    <2>4. \A i \in RefundIds : i <= lastId
      BY DEF IdsAreRefunds, RefundIds
    <2>5. IdsAreRefunds'
      BY <1>0, <2>1, <2>3, <2>4 DEF IdsAreRefunds
    <2>6. ReadAccountsForRows'
      BY <1>0, <2>1 DEF ReadAccountsForRows, IdsAreRefunds
    <2>7. QED
      BY <2>5, <2>6
  <1>5. CASE OrderNotFound(w) \/ BuildFails(w) \/ NothingToRefund(w) \/ SendRefused(w)
    BY <1>5, QuietMoney DEF OrderNotFound, BuildFails, NothingToRefund, SendRefused
  <1>6. CASE MarkAttempt(w)
    BY <1>0, <1>6, QuietMoney DEF MarkAttempt
  <1>7. CASE SendApplied(w)
    BY <1>0, <1>7, ApplyMoney DEF SendApplied
  <1>8. CASE SendUnknown(w)
    <2>1. CASE Apply(Key(w), Amount(w))
      BY <1>0, <1>8, <2>1, ApplyMoney DEF SendUnknown
    <2>2. CASE UNCHANGED <<refunds, lastId, left, paid>>
      BY <1>8, <2>2, QuietMoney DEF SendUnknown
    <2>3. QED
      BY <1>8, <2>1, <2>2 DEF SendUnknown
  <1>9. CASE WriteRow(w)
    <2>1. /\ UNCHANGED <<refunds, lastId, left, seen, got>> /\ RefundIds' = RefundIds
          /\ pc'[w] = "log"
      BY <1>9 DEF WriteRow, RefundIds
    <2>2. \A k \in Keys : created'[k] \subseteq RefundIds
      BY <1>0, <1>9 DEF WriteRow, IdsAreRefunds
    <2>3. IdsAreRefunds'
      BY <2>1, <2>2 DEF IdsAreRefunds
    <2>4. ReadAccountsForRows'
      BY <1>0, <2>1 DEF ReadAccountsForRows
    <2>5. QED
      BY <2>3, <2>4
  <1>10. QED
    BY <1>1, <1>2, <1>3, <1>4, <1>5, <1>6, <1>7, <1>8, <1>9 DEF Step, RunStep

LEMMA NextMoney == OneProcessor /\ MoneyInv /\ [Next]_vars => MoneyInv'
  <1> SUFFICES ASSUME OneProcessor, MoneyInv, [Next]_vars
               PROVE  MoneyInv'
    OBVIOUS
  <1> USE DEF MoneyInv, decathlonVars, rowVars, runVars
  <1>0. Typed'
    BY NextTyped
  <1>1. ASSUME NEW w \in Workers, Step(w)
        PROVE  MoneyInv'
    BY <1>0, <1>1, StepMoney
  <1>2. ASSUME NEW w \in Workers, Crash(w)
        PROVE  MoneyInv'
    BY <1>0, <1>2, QuietMoney DEF Crash, EndRun, GoTo, Typed, TypeOK
  <1>3. ASSUME UNCHANGED <<rowVars, decathlonVars, runVars>>
        PROVE  MoneyInv'
    BY <1>0, <1>3, QuietMoney
  <1>4. CASE OutsideRefund
    BY <1>0, <1>4, ApplyMoney DEF OutsideRefund
  <1>5. ASSUME NEW q \in inflight, ApplyLate(q)
        PROVE  MoneyInv'
    <2>1. q.key \in Keys \cup {Outsider} /\ q.amount \in Nat
      BY DEF Typed, TypeOK
    <2>2. CASE Apply(q.key, q.amount)
      BY <1>0, <1>5, <2>1, <2>2, ApplyMoney DEF ApplyLate
    <2>3. CASE UNCHANGED <<refunds, lastId, left, paid>>
      BY <1>0, <1>5, <2>3, QuietMoney DEF ApplyLate
    <2>4. QED
      BY <1>5, <2>2, <2>3 DEF ApplyLate
  <1>6. CASE UNCHANGED vars
    BY <1>3, <1>6 DEF vars
  <1>7. CASE Next
    BY <1>1, <1>2, <1>3, <1>4, <1>5, <1>7
       DEF Next, EnqueueRefundSync, IsKnownJob, CreateSyncJob, AddRefundJob, RequestBreaksOff,
           RetryFailedSync, RecoverStalled, LoseLock
  <1>8. QED
    BY <1>6, <1>7

(* Refund jobs that run one at a time never race each other for the        *)
(* balance, crashes, lost locks and late requests included: a run that     *)
(* asks for more than there is does so on account of a refund made after   *)
(* it read the order, which no row accounts for.                           *)
THEOREM OverdrawNeedsAnother ==
  ASSUME OneProcessor
  PROVE  Spec => []OverdrawIsUnaccounted
  <1>1. MoneyInv => OverdrawIsUnaccounted
    <2> SUFFICES ASSUME MoneyInv, NEW w \in Workers, Sending(w), Amount(w) > left
                 PROVE  \E r \in refunds :
                           r.id \notin seen[w] /\ \A k \in Keys : r.id \notin created[k]
      BY DEF OverdrawIsUnaccounted
    <2> USE DEF MoneyInv, Typed, TypeOK
    <2>1. Key(w) \in Keys /\ room[w] \in Nat /\ left \in Nat
      BY DEF Key
    <2>2. Amount(w) \in Nat /\ Amount(w) <= room[w]
      BY <2>1 DEF Amount, AmountFor
    <2>3. left < room[w]
      BY <2>1, <2>2
    <2>4. QED
      BY <2>3 DEF Sending, ReadAccountsForRows
  <1>2. MoneyInv /\ [Next]_vars => MoneyInv'
    BY NextMoney
  <1>3. QED
    BY <1>1, <1>2, InitMoney, PTL DEF Spec

=============================================================================
