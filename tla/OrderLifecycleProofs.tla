------------------------ MODULE OrderLifecycleProofs ------------------------
(***************************************************************************)
(* Proofs about two parts of order-lifecycle.ts: ShipmentSync for every    *)
(* set of fulfillments, deliveries and processors (what a shipped row      *)
(* says, when lines go out twice, which tracking it holds), and            *)
(* ReturnsSync for any returns, orders and failures (which tag an order    *)
(* may lack).                                                              *)
(***************************************************************************)
EXTENDS ShipmentSync, ReturnsSync, TLAPS

-----------------------------------------------------------------------------
(* ShipmentSync                                                            *)

(* A processor that holds the claim of its fulfillment. *)
Claiming(w) == pc[w] \in {"send", "write"}

(* No shipment yet, or one that an unanswered request may have made. *)
Clean(k) == shipped[k] = 0 \/ k \in doubt

Types ==
    /\ row \in [Keys -> Status] /\ withId \subseteq Keys /\ recorded \subseteq Keys
    /\ shipped \in [Keys -> Nat] /\ doubt \subseteq Keys
    /\ pc \in [Workers -> Places] /\ cur \in [Workers -> Jobs]
    /\ verdict \in [Workers -> Verdicts] /\ gotId \in [Workers -> BOOLEAN]

(* The claim row lets one run at a time near ST01. *)
OneClaimant ==
    /\ \A w \in Workers : Claiming(w) => row[Key(w)] = "PROCESSING"
    /\ \A u, w \in Workers : Claiming(u) /\ Claiming(w) /\ Key(u) = Key(w) => u = w

(* What a run knows between its request and the row. *)
RunsKnow ==
    \A w \in Workers :
        /\ pc[w] = "send" => Clean(Key(w)) /\ ~gotId[w]
        /\ pc[w] = "write" =>
               IF verdict[w] = "SUCCESS" THEN shipped[Key(w)] > 0
                                         ELSE Clean(Key(w)) /\ ~gotId[w]
        /\ pc[w] = "record" => row[Key(w)] = "SUCCESS" /\ Key(w) \in withId
        /\ gotId[w] => pc[w] \in {"write", "record", "log"}

RowsKnow == \A k \in Keys : row[k] \in {"NONE", "FAILED"} => Clean(k)

IInv ==
    Types /\ OneClaimant /\ RunsKnow /\ RowsKnow /\ ShippedTwiceNeedsDoubt /\ SuccessIsShipped

LEMMA KeyTyped ==
  ASSUME Types, NEW w \in Workers
  PROVE  Key(w) \in Keys
  BY ShipmentAssumption DEF Types, Key

LEMMA InitIInv == Init => IInv
  <1> SUFFICES ASSUME Init PROVE IInv
    OBVIOUS
  <1>1. AnyJob \in Jobs
    BY ShipmentAssumption DEF AnyJob
  <1>2. Types
    BY <1>1 DEF Init, Types, Status, Places, Verdicts
  <1>3. OneClaimant /\ RunsKnow
    BY DEF Init, OneClaimant, RunsKnow, Claiming
  <1>4. RowsKnow /\ ShippedTwiceNeedsDoubt /\ SuccessIsShipped
    BY DEF Init, RowsKnow, Clean, ShippedTwiceNeedsDoubt, SuccessIsShipped
  <1>5. QED
    BY <1>2, <1>3, <1>4 DEF IInv

(* A step of one run that leaves the row, the order and the shipments      *)
(* alone, and ends away from the claim.                                    *)
Aside(w) ==
    /\ UNCHANGED <<row, withId, recorded, shipped, doubt>>
    /\ \E p \in Places \ {"send", "write", "record"} : pc' = [pc EXCEPT ![w] = p]
    /\ \E j \in Jobs : cur' = [cur EXCEPT ![w] = j]
    /\ \E v \in Verdicts : verdict' = [verdict EXCEPT ![w] = v]
    /\ gotId' = gotId \/ gotId' = [gotId EXCEPT ![w] = FALSE]
    /\ gotId'[w] => pc'[w] = "log"

LEMMA AsideKeeps ==
  ASSUME IInv, NEW w \in Workers, Aside(w)
  PROVE  IInv'
  <1> USE DEF IInv, Types
  <1>1. PICK p \in Places \ {"send", "write", "record"} : pc' = [pc EXCEPT ![w] = p]
    BY DEF Aside
  <1>2. Types'
    <2>1. PICK j \in Jobs, v \in Verdicts : /\ cur' = [cur EXCEPT ![w] = j]
                                           /\ verdict' = [verdict EXCEPT ![w] = v]
      BY DEF Aside
    <2>2. pc' \in [Workers -> Places] /\ cur' \in [Workers -> Jobs]
      BY <1>1, <2>1
    <2>3. verdict' \in [Workers -> Verdicts] /\ gotId' \in [Workers -> BOOLEAN]
      BY <2>1 DEF Aside
    <2>4. QED
      BY <2>2, <2>3 DEF Aside
  <1>3. /\ \A u \in Workers \ {w} :
             pc'[u] = pc[u] /\ cur'[u] = cur[u] /\ verdict'[u] = verdict[u] /\ gotId'[u] = gotId[u]
        /\ pc'[w] \notin {"send", "write", "record"}
        /\ gotId'[w] => pc'[w] = "log"
    BY <1>1 DEF Aside
  <1>4. UNCHANGED <<row, withId, recorded, shipped, doubt>>
    BY DEF Aside
  <1>5. OneClaimant'
    BY <1>3, <1>4 DEF OneClaimant, Claiming, Key
  <1>6. RunsKnow'
    <2> SUFFICES ASSUME NEW u \in Workers
                 PROVE  /\ pc'[u] = "send" => Clean(Key(u))' /\ ~gotId'[u]
                        /\ pc'[u] = "write" =>
                             IF verdict'[u] = "SUCCESS" THEN shipped'[Key(u)'] > 0
                                                        ELSE Clean(Key(u))' /\ ~gotId'[u]
                        /\ pc'[u] = "record" => row'[Key(u)'] = "SUCCESS" /\ Key(u)' \in withId'
                        /\ gotId'[u] => pc'[u] \in {"write", "record", "log"}
      BY DEF RunsKnow
    <2>1. CASE u = w
      BY <1>3, <2>1
    <2>2. CASE u # w
      BY <1>3, <1>4, <2>2 DEF RunsKnow, Clean, Key
    <2>3. QED
      BY <2>1, <2>2
  <1>7. RowsKnow' /\ ShippedTwiceNeedsDoubt' /\ SuccessIsShipped'
    BY <1>4 DEF RowsKnow, Clean, ShippedTwiceNeedsDoubt, SuccessIsShipped
  <1>8. QED
    BY <1>2, <1>5, <1>6, <1>7

(* Everything a run does but claim, send and write is such a step. *)
LEMMA AsideSteps ==
  ASSUME IInv, NEW w \in Workers,
         \/ \E j \in Jobs : Start(w, j)
         \/ NotImported(w) \/ NotShippable(w) \/ Lookup(w) \/ ClaimRefused(w)
         \/ TrackStep(w) \/ FinishRun(w) \/ Throw(w) \/ Crash(w)
  PROVE  Aside(w)
  <1> USE DEF IInv, Types, RunsKnow, Places, Verdicts, GoTo, Conclude, rowVars, decathlonVars
  <1>0. /\ cur[w] \in Jobs /\ verdict[w] \in Verdicts
        /\ cur = [cur EXCEPT ![w] = cur[w]] /\ verdict = [verdict EXCEPT ![w] = verdict[w]]
    OBVIOUS
  <1>1. CASE \E j \in Jobs : Start(w, j)
    <2>1. PICK j \in Jobs : Start(w, j)
      BY <1>1
    <2>2. cur' = [cur EXCEPT ![w] = j] /\ pc' = [pc EXCEPT ![w] = "lookup"]
          /\ UNCHANGED <<row, withId, recorded, shipped, doubt, verdict, gotId>> /\ ~gotId[w]
      BY <2>1 DEF Start
    <2>3. QED
      BY <1>0, <2>2 DEF Aside
  <1>2. CASE NotImported(w) \/ NotShippable(w)
    BY <1>0, <1>2 DEF NotImported, NotShippable, Aside
  <1>3. CASE Lookup(w)
    BY <1>0, <1>3 DEF Lookup, Aside
  <1>4. CASE ClaimRefused(w)
    BY <1>0, <1>4 DEF ClaimRefused, Aside
  <1>5. CASE TrackingUnchanged(w)
    BY <1>0, <1>5 DEF TrackingUnchanged, Aside
  <1>6. CASE NoShipmentId(w)
    BY <1>0, <1>6 DEF NoShipmentId, Aside
  <1>7. CASE TrackingAccepted(w)
    BY <1>0, <1>7 DEF TrackingAccepted, Updating, Aside
  <1>8. CASE TrackingRefused(w)
    BY <1>0, <1>8 DEF TrackingRefused, Updating, Aside
  <1>9. CASE WriteTracking(w)
    BY <1>0, <1>9 DEF WriteTracking, Aside
  <1>10. ASSUME EndRun(w), UNCHANGED <<row, withId, recorded, shipped, doubt>>
         PROVE  Aside(w)
    <2>1. AnyJob \in Jobs
      BY ShipmentAssumption DEF AnyJob
    <2>2. QED
      BY <1>10, <2>1 DEF EndRun, Aside
  <1>11. CASE TrackingThrows(w)
    BY <1>10, <1>11 DEF TrackingThrows
  <1>12. CASE FinishRun(w)
    BY <1>10, <1>12 DEF FinishRun
  <1>13. CASE Throw(w)
    BY <1>10, <1>13 DEF Throw
  <1>14. CASE Crash(w)
    BY <1>10, <1>14 DEF Crash
  <1>15. QED
    BY <1>1, <1>2, <1>3, <1>4, <1>5, <1>6, <1>7, <1>8, <1>9, <1>11, <1>12, <1>13, <1>14
    DEF TrackStep

(* A step of the run that holds the claim of its fulfillment, or takes it, *)
(* disturbs no other run and no other fulfillment.                         *)
Alone(w) ==
    /\ cur' = cur
    /\ \E p \in Places : pc' = [pc EXCEPT ![w] = p]
    /\ \E v \in Verdicts : verdict' = [verdict EXCEPT ![w] = v]
    /\ \E b \in BOOLEAN : gotId' = [gotId EXCEPT ![w] = b]
    /\ \E s \in Status : row' = [row EXCEPT ![Key(w)] = s]
    /\ \E n \in Nat : shipped' = [shipped EXCEPT ![Key(w)] = n]
    /\ doubt' \in {doubt, doubt \cup {Key(w)}}
    /\ withId' \in {withId, withId \cup {Key(w)}}
    /\ recorded' = recorded

(* Then the others keep what they know, and the rest is about w and its    *)
(* fulfillment.                                                            *)
LEMMA AloneKeeps ==
  ASSUME IInv, NEW w \in Workers, Alone(w),
         Claiming(w) \/ row[Key(w)] \in {"NONE", "FAILED"},
         Claiming(w)' => row'[Key(w)] = "PROCESSING",
         pc'[w] = "send" => Clean(Key(w))' /\ ~gotId'[w],
         pc'[w] = "write" => IF verdict'[w] = "SUCCESS" THEN shipped'[Key(w)] > 0
                                                         ELSE Clean(Key(w))' /\ ~gotId'[w],
         pc'[w] = "record" => row'[Key(w)] = "SUCCESS" /\ Key(w) \in withId',
         gotId'[w] => pc'[w] \in {"write", "record", "log"},
         row'[Key(w)] \in {"NONE", "FAILED"} => Clean(Key(w))',
         shipped'[Key(w)] > 1 => Key(w) \in doubt',
         row'[Key(w)] = "SUCCESS" => shipped'[Key(w)] > 0
  PROVE  IInv'
  <1> USE DEF IInv, Types
  <1>1. Key(w) \in Keys /\ Key(w)' = Key(w) /\ \A u \in Workers : Key(u)' = Key(u) /\ Key(u) \in Keys
    BY KeyTyped DEF Alone, Key
  <1>2. Types'
    BY <1>1 DEF Alone
  <1>3. \A u \in Workers \ {w} :
          pc'[u] = pc[u] /\ verdict'[u] = verdict[u] /\ gotId'[u] = gotId[u]
    BY DEF Alone
  <1>4. /\ \A k \in Keys \ {Key(w)} :
             /\ row'[k] = row[k] /\ shipped'[k] = shipped[k]
             /\ k \in doubt' <=> k \in doubt
             /\ k \in withId' <=> k \in withId
        /\ withId \subseteq withId' /\ recorded' = recorded
    BY <1>1 DEF Alone
  <1>5. row[Key(w)] # "SUCCESS" /\ row[Key(w)] \in {"NONE", "FAILED", "PROCESSING"}
    BY DEF OneClaimant
  <1>6. \A u \in Workers \ {w} : Claiming(u) => Key(u) # Key(w)
    BY <1>5 DEF OneClaimant
  <1>7. \A u \in Workers \ {w} : pc[u] = "record" => Key(u) # Key(w)
    BY <1>5 DEF RunsKnow
  <1>8. OneClaimant'
    <2>1. \A u \in Workers : Claiming(u)' => row'[Key(u)'] = "PROCESSING"
      BY <1>1, <1>3, <1>4, <1>6 DEF OneClaimant, Claiming
    <2>2. \A u, v \in Workers :
            Claiming(u)' /\ Claiming(v)' /\ Key(u)' = Key(v)' => u = v
      BY <1>1, <1>3, <1>6 DEF OneClaimant, Claiming
    <2>3. QED
      BY <2>1, <2>2 DEF OneClaimant
  <1>9. RunsKnow'
    <2> SUFFICES ASSUME NEW u \in Workers
                 PROVE  /\ pc'[u] = "send" => Clean(Key(u))' /\ ~gotId'[u]
                        /\ pc'[u] = "write" =>
                             IF verdict'[u] = "SUCCESS" THEN shipped'[Key(u)'] > 0
                                                        ELSE Clean(Key(u))' /\ ~gotId'[u]
                        /\ pc'[u] = "record" => row'[Key(u)'] = "SUCCESS" /\ Key(u)' \in withId'
                        /\ gotId'[u] => pc'[u] \in {"write", "record", "log"}
      BY DEF RunsKnow
    <2>1. CASE u = w
      BY <1>1, <2>1 DEF Clean
    <2>2. CASE u # w
      BY <1>1, <1>3, <1>4, <1>6, <1>7, <2>2 DEF RunsKnow, Clean, Claiming
    <2>3. QED
      BY <2>1, <2>2
  <1>10. RowsKnow' /\ ShippedTwiceNeedsDoubt'
    BY <1>1, <1>4 DEF RowsKnow, Clean, ShippedTwiceNeedsDoubt
  <1>11. SuccessIsShipped'
    BY <1>1, <1>4, <1>5 DEF SuccessIsShipped
  <1>12. QED
    BY <1>2, <1>8, <1>9, <1>10, <1>11

(* Recording on the order follows the row, which keeps its SUCCESS. *)
LEMMA RecordKeeps ==
  ASSUME IInv, NEW w \in Workers, RecordShipment(w)
  PROVE  IInv'
  <1> USE DEF IInv, Types, decathlonVars
  <1>1. /\ pc' = [pc EXCEPT ![w] = "log"] /\ recorded' = recorded \cup {Key(w)}
        /\ UNCHANGED <<row, withId, shipped, doubt, cur, verdict, gotId>>
    BY DEF RecordShipment, GoTo
  <1>2. Key(w) \in Keys /\ row[Key(w)] = "SUCCESS" /\ Key(w) \in withId
    BY KeyTyped DEF RecordShipment, RunsKnow
  <1>3. Types'
    BY <1>1, <1>2 DEF Places
  <1>4. OneClaimant' /\ RunsKnow' /\ RowsKnow' /\ ShippedTwiceNeedsDoubt'
    BY <1>1 DEF OneClaimant, RunsKnow, RowsKnow, ShippedTwiceNeedsDoubt, Clean, Claiming, Key
  <1>5. SuccessIsShipped'
    BY <1>1, <1>2 DEF SuccessIsShipped
  <1>6. QED
    BY <1>3, <1>4, <1>5

(* The steps of the run that takes the claim or holds it. *)
LEMMA ShipStepKeeps ==
  ASSUME IInv, NEW w \in Workers, ShipStep(w)
  PROVE  IInv'
  <1> USE DEF IInv, Types, RunsKnow, OneClaimant, RowsKnow, ShippedTwiceNeedsDoubt, Clean,
              Places, Verdicts, Status, GoTo, Conclude, rowVars, decathlonVars
  <1>0. /\ Key(w) \in Keys
        /\ \A p \in Places : pc' = [pc EXCEPT ![w] = p] => pc'[w] = p
        /\ cur' = cur => Key(w)' = Key(w)
        /\ verdict = [verdict EXCEPT ![w] = verdict[w]] /\ verdict[w] \in Verdicts
        /\ gotId = [gotId EXCEPT ![w] = gotId[w]] /\ gotId[w] \in BOOLEAN
        /\ row = [row EXCEPT ![Key(w)] = row[Key(w)]] /\ row[Key(w)] \in Status
        /\ shipped = [shipped EXCEPT ![Key(w)] = shipped[Key(w)]] /\ shipped[Key(w)] \in Nat
    BY KeyTyped DEF Key
  <1>1. CASE Claim(w)
    <2>1. Alone(w)
      BY <1>0, <1>1 DEF Claim, Alone
    <2>2. row[Key(w)] \in {"NONE", "FAILED"} /\ ~gotId[w] /\ gotId' = gotId /\ pc'[w] = "send"
          /\ row'[Key(w)] = "PROCESSING" /\ shipped' = shipped /\ doubt' = doubt
          /\ Key(w)' = Key(w)
      BY <1>0, <1>1 DEF Claim, Claimable
    <2>3. QED
      BY <1>0, <2>1, <2>2, AloneKeeps
  <1>2. CASE ClaimRefused(w)
    BY <1>2, AsideSteps, AsideKeeps
  <1>3. CASE LinesUnresolved(w) \/ ShipmentRefused(w)
    <2>1. Alone(w)
      BY <1>0, <1>3 DEF LinesUnresolved, ShipmentRefused, Alone
    <2>2. pc[w] = "send" /\ pc'[w] = "write" /\ verdict'[w] = "FAILED" /\ gotId' = gotId
          /\ row' = row /\ shipped' = shipped /\ doubt' = doubt /\ Key(w)' = Key(w)
      BY <1>0, <1>3 DEF LinesUnresolved, ShipmentRefused, Sending
    <2>3. QED
      BY <1>0, <2>1, <2>2, AloneKeeps DEF Claiming
  <1>4. CASE ShipmentCreated(w)
    <2>1. Alone(w)
      <3>1. PICK b \in BOOLEAN : gotId' = [gotId EXCEPT ![w] = b]
        BY <1>4 DEF ShipmentCreated
      <3>2. cur' = cur /\ doubt' = doubt /\ UNCHANGED <<row, withId, recorded>>
            /\ pc' = [pc EXCEPT ![w] = "write"] /\ verdict' = [verdict EXCEPT ![w] = "SUCCESS"]
            /\ shipped' = [shipped EXCEPT ![Key(w)] = shipped[Key(w)] + 1]
        BY <1>4 DEF ShipmentCreated, Ship
      <3>3. shipped[Key(w)] + 1 \in Nat
        BY <1>0
      <3>4. QED
        BY <1>0, <3>1, <3>2, <3>3 DEF Alone
    <2>2. pc[w] = "send" /\ pc'[w] = "write" /\ verdict'[w] = "SUCCESS" /\ row' = row
          /\ shipped'[Key(w)] = shipped[Key(w)] + 1 /\ doubt' = doubt /\ Key(w)' = Key(w)
      BY <1>0, <1>4 DEF ShipmentCreated, Ship, Sending
    <2>3. QED
      BY <1>0, <2>1, <2>2, AloneKeeps DEF Claiming
  <1>5. CASE ShipmentUnknown(w)
    <2>1. Alone(w)
      BY <1>0, <1>5 DEF ShipmentUnknown, Ship, Alone
    <2>2. pc[w] = "send" /\ pc'[w] = "write" /\ verdict'[w] = "FAILED" /\ gotId' = gotId
          /\ row' = row /\ Key(w) \in doubt' /\ Key(w)' = Key(w)
      BY <1>0, <1>5 DEF ShipmentUnknown, Sending
    <2>3. QED
      BY <1>0, <2>1, <2>2, AloneKeeps DEF Claiming
  <1>6. CASE WriteRow(w)
    <2>1. Alone(w)
      BY <1>0, <1>6 DEF WriteRow, Alone
    <2>2. pc[w] = "write" /\ pc'[w] = (IF gotId[w] THEN "record" ELSE "log") /\ gotId' = gotId
          /\ row'[Key(w)] = verdict[w] /\ shipped' = shipped /\ doubt' = doubt /\ Key(w)' = Key(w)
      BY <1>0, <1>6 DEF WriteRow
    <2>3. CASE verdict[w] = "SUCCESS"
      <3>1. shipped[Key(w)] > 0
        BY <2>2, <2>3
      <3>2. gotId[w] => Key(w) \in withId'
        BY <1>6 DEF WriteRow
      <3>3. QED
        BY <1>0, <2>1, <2>2, <2>3, <3>1, <3>2, AloneKeeps DEF Claiming
    <2>4. CASE verdict[w] # "SUCCESS"
      <3>1. Clean(Key(w)) /\ ~gotId[w]
        BY <2>2, <2>4
      <3>2. QED
        BY <1>0, <2>1, <2>2, <2>4, <3>1, AloneKeeps DEF Claiming
    <2>5. QED
      BY <2>3, <2>4
  <1>7. CASE RecordShipment(w)
    BY <1>0, <1>7, RecordKeeps
  <1>8. QED
    BY <1>1, <1>2, <1>3, <1>4, <1>5, <1>6, <1>7 DEF ShipStep

(* Webhooks, the sweep and the stalled-job check touch only the queue. *)
LEMMA UnchangedKeeps ==
  ASSUME IInv, UNCHANGED <<rowVars, decathlonVars, runVars>>
  PROVE  IInv'
  <1>1. UNCHANGED <<row, withId, recorded, shipped, doubt, pc, cur, verdict, gotId>>
    BY DEF rowVars, decathlonVars, runVars
  <1>2. QED
    BY <1>1 DEF IInv, Types, OneClaimant, RunsKnow, RowsKnow, ShippedTwiceNeedsDoubt,
       SuccessIsShipped, Clean, Claiming, Key

LEMMA StepIInv ==
  ASSUME IInv, [Next]_vars
  PROVE  IInv'
  <1>1. CASE \E j \in Jobs : EnqueueFulfillmentSync(j)
    BY <1>1, UnchangedKeeps DEF EnqueueFulfillmentSync
  <1>2. CASE \E j, r \in Jobs : RetryFailedSync(j, r)
    BY <1>2, UnchangedKeeps DEF RetryFailedSync
  <1>3. ASSUME NEW w \in Workers, Step(w) \/ Crash(w)
        PROVE  IInv'
    BY <1>3, AsideSteps, AsideKeeps, ShipStepKeeps DEF Step
  <1>4. CASE \E j \in Jobs : RecoverStalled(j) \/ LoseLock(j)
    BY <1>4, UnchangedKeeps DEF RecoverStalled, LoseLock
  <1>5. CASE UNCHANGED vars
    BY <1>5, UnchangedKeeps DEF vars
  <1>6. QED
    BY <1>1, <1>2, <1>3, <1>4, <1>5 DEF Next

(* The inductive invariant holds throughout. *)
THEOREM Invariant == Spec => []IInv
  <1>1. IInv /\ [Next]_vars => IInv'
    BY StepIInv
  <1>2. QED
    BY InitIInv, <1>1, PTL DEF Spec

(* Lines go out a second time only after an ST01 request whose outcome was *)
(* unknown (order-lifecycle.ts:155-205, fulfillment.repository.ts).        *)
THEOREM SecondShipmentNeedsDoubt == Spec => []ShippedTwiceNeedsDoubt
  <1>1. IInv => ShippedTwiceNeedsDoubt
    BY DEF IInv
  <1>2. QED
    BY Invariant, <1>1, PTL

(* A row that says SUCCESS has a shipment behind it, and an order records  *)
(* only what its row knows (order-lifecycle.ts:207-217).                   *)
THEOREM RowsTellTheTruth == Spec => []SuccessIsShipped
  <1>1. IInv => SuccessIsShipped
    BY DEF IInv
  <1>2. QED
    BY Invariant, <1>1, PTL

-----------------------------------------------------------------------------
(* Refinement: the shipment jobs implement ClaimContract.                  *)

LEMMA ClaimUnchanged ==
  ASSUME UNCHANGED <<row, shipped, doubt>>
  PROVE  UNCHANGED Contract!contractVars
  BY DEF Contract!contractVars, ClaimOf, Answered

(* The row of one fulfillment moves, and the claim with it. *)
LEMMA ClaimMoves ==
  ASSUME IInv, NEW k \in Keys, NEW s \in Status, NEW from, NEW to,
         row' = [row EXCEPT ![k] = s], shipped' = shipped, doubt' = doubt,
         ClaimOf(k) = from,
         to = CASE s = "PROCESSING" -> "claimed" [] s = "SUCCESS" -> "closed" [] OTHER -> "free"
  PROVE  Contract!Move(k, from, to)
  <1>1. [l \in Keys |-> ClaimOf(l)]' = [[l \in Keys |-> ClaimOf(l)] EXCEPT ![k] = to]
    <2>1. ASSUME NEW l \in Keys
          PROVE  ClaimOf(l)' = IF l = k THEN to ELSE ClaimOf(l)
      BY DEF IInv, Types, ClaimOf
    <2>2. QED
      BY <2>1
  <1>2. [l \in Keys |-> Answered(l)]' = [l \in Keys |-> Answered(l)]
    BY DEF Answered
  <1>3. QED
    BY <1>1, <1>2 DEF Contract!Move

(* A request that was answered is an effect under the claim; once one was  *)
(* not, nothing more is told apart.                                        *)
LEMMA SendKeepsContract ==
  ASSUME IInv, NEW w \in Workers, ShipmentCreated(w) \/ ShipmentUnknown(w)
  PROVE  Contract!Next \/ UNCHANGED Contract!contractVars
  <1> USE DEF IInv, Types, Contract!contractVars
  <1>1. Key(w) \in Keys /\ pc[w] = "send" /\ row' = row
    BY KeyTyped DEF ShipmentCreated, ShipmentUnknown, Sending, rowVars
  <1>2. ClaimOf(Key(w)) = "claimed" /\ Clean(Key(w))
    BY <1>1 DEF OneClaimant, Claiming, RunsKnow, ClaimOf
  <1>3. [k \in Keys |-> ClaimOf(k)]' = [k \in Keys |-> ClaimOf(k)]
    BY <1>1 DEF ClaimOf
  <1>4. CASE ShipmentCreated(w)
    <2>1. shipped' = [shipped EXCEPT ![Key(w)] = @ + 1] /\ doubt' = doubt
      BY <1>4 DEF ShipmentCreated, Ship
    <2>2. CASE Key(w) \in doubt
      <3>1. [k \in Keys |-> Answered(k)]' = [k \in Keys |-> Answered(k)]
        BY <1>1, <2>1, <2>2 DEF Answered
      <3>2. QED
        BY <1>3, <3>1
    <2>3. CASE Key(w) \notin doubt
      <3>1. Answered(Key(w)) = 0 /\ shipped[Key(w)] = 0
        BY <1>2, <2>3 DEF Clean, Answered
      <3>2. [k \in Keys |-> Answered(k)]' = [[k \in Keys |-> Answered(k)] EXCEPT ![Key(w)] = 1]
        <4>1. ASSUME NEW k \in Keys
              PROVE  Answered(k)' = IF k = Key(w) THEN 1 ELSE Answered(k)
          BY <1>1, <2>1, <2>3, <3>1 DEF Answered
        <4>2. QED
          BY <4>1
      <3>3. Contract!Effect(Key(w))
        BY <1>1, <1>2, <1>3, <3>1, <3>2 DEF Contract!Effect
      <3>4. QED
        BY <1>1, <3>3 DEF Contract!Next
    <2>4. QED
      BY <2>2, <2>3
  <1>5. CASE ShipmentUnknown(w)
    <2>1. doubt' = doubt \cup {Key(w)} /\ \A k \in Keys \ {Key(w)} : shipped'[k] = shipped[k]
      BY <1>1, <1>5 DEF ShipmentUnknown, Ship
    <2>2. Answered(Key(w)) = 0
      BY <1>2 DEF Clean, Answered
    <2>3. [k \in Keys |-> Answered(k)]' = [k \in Keys |-> Answered(k)]
      BY <2>1, <2>2 DEF Answered
    <2>4. QED
      BY <1>3, <2>3
  <1>6. QED
    BY <1>4, <1>5

LEMMA ShipStepKeepsContract ==
  ASSUME IInv, NEW w \in Workers, ShipStep(w)
  PROVE  Contract!Next \/ UNCHANGED Contract!contractVars
  <1> USE DEF IInv, Types, GoTo, Conclude, rowVars, decathlonVars
  <1>0. Key(w) \in Keys
    BY KeyTyped
  <1>1. CASE Claim(w)
    <2>1. ClaimOf(Key(w)) = "free"
      BY <1>1 DEF Claim, Claimable, ClaimOf
    <2>2. row' = [row EXCEPT ![Key(w)] = "PROCESSING"] /\ UNCHANGED <<shipped, doubt>>
      BY <1>1 DEF Claim
    <2>3. Contract!Acquire(Key(w))
      BY <1>0, <2>1, <2>2, ClaimMoves DEF Contract!Acquire, Status
    <2>4. QED
      BY <1>0, <2>3 DEF Contract!Next
  <1>2. CASE WriteRow(w)
    <2>1. ClaimOf(Key(w)) = "claimed"
      BY <1>2 DEF WriteRow, OneClaimant, Claiming, ClaimOf
    <2>2. row' = [row EXCEPT ![Key(w)] = verdict[w]] /\ UNCHANGED <<shipped, doubt>>
          /\ verdict[w] \in Verdicts
      BY <1>2 DEF WriteRow
    <2>3. CASE verdict[w] = "SUCCESS"
      <3>1. Contract!Close(Key(w))
        BY <1>0, <2>1, <2>2, <2>3, ClaimMoves DEF Contract!Close, Status
      <3>2. QED
        BY <1>0, <3>1 DEF Contract!Next
    <2>4. CASE verdict[w] # "SUCCESS"
      <3>1. Contract!Release(Key(w))
        BY <1>0, <2>1, <2>2, <2>4, ClaimMoves DEF Contract!Release, Status, Verdicts
      <3>2. QED
        BY <1>0, <3>1 DEF Contract!Next
    <2>5. QED
      BY <2>3, <2>4
  <1>3. CASE ShipmentCreated(w) \/ ShipmentUnknown(w)
    BY <1>3, SendKeepsContract
  <1>4. CASE ClaimRefused(w) \/ LinesUnresolved(w) \/ ShipmentRefused(w) \/ RecordShipment(w)
    BY <1>4, ClaimUnchanged DEF ClaimRefused, LinesUnresolved, ShipmentRefused, RecordShipment
  <1>5. QED
    BY <1>1, <1>2, <1>3, <1>4 DEF ShipStep

(* The claim rows (fulfillment.repository.ts) let the lines of a           *)
(* fulfillment be shipped once and under the claim, as long as Decathlon   *)
(* answers, whatever becomes of the jobs: see KeepsContractWhenAnswered.          *)
THEOREM ShipmentContractKept == Spec => KeepsContractWhenAnswered
  <1>1. Init => Contract!Init
    BY DEF Init, Contract!Init, ClaimOf, Answered
  <1>2. ASSUME IInv, [Next]_vars
        PROVE  [Contract!Next]_Contract!contractVars
    <2>1. ASSUME NEW w \in Workers, Step(w) \/ Crash(w)
          PROVE  Contract!Next \/ UNCHANGED Contract!contractVars
      BY <1>2, <2>1, AsideSteps, ShipStepKeepsContract, ClaimUnchanged DEF Step, Aside
    <2>2. ASSUME ~\E w \in Workers : Step(w) \/ Crash(w)
          PROVE  UNCHANGED Contract!contractVars
      <3>1. UNCHANGED <<row, shipped, doubt>>
        BY <1>2, <2>2 DEF Next, vars, rowVars, decathlonVars, EnqueueFulfillmentSync,
           RetryFailedSync, RecoverStalled, LoseLock
      <3>2. QED
        BY <3>1, ClaimUnchanged
    <2>3. QED
      BY <2>1, <2>2
  <1>3. QED
    BY <1>1, <1>2, Invariant, PTL DEF Spec, KeepsContractWhenAnswered, Contract!Spec

-----------------------------------------------------------------------------
(* Tracking: what a row and Decathlon say about it, and who is to blame    *)
(* when they disagree.                                                     *)

TrackTypes ==
    /\ job \in [Jobs -> JobStates] /\ holder \in [Jobs -> Workers \cup {NoWorker}]
    /\ attempts \in [Jobs -> Nat] /\ stalls \in [Jobs -> Nat]
    /\ rowTracking \in [Keys -> Tracking] /\ shown \in [Keys -> Tracking]
    /\ tracking \in [Workers -> Tracking] /\ stored \in [Workers -> Tracking]
    /\ crossed \subseteq Keys

(* A run has the lock of its job, unless it was found stalled.             *)
LocksHold ==
    /\ \A w \in Workers : pc[w] # "idle" => Holds(w, cur[w]) \/ stalls[cur[w]] > 0
    /\ \A j \in Jobs : job[j] = "active" => holder[j] \in Workers

(* The causes DivergenceHasCause names, but for a run under way.           *)
Orphan(j) == job[j] = "active" /\ ~Running(holder[j], j)
Trouble(k) ==
    \/ k \in crossed
    \/ \E j \in Jobs : KeyOf[j] = k /\ (attempts[j] > 0 \/ stalls[j] > 0 \/ Orphan(j))

(* Only what was shipped gets its tracking corrected.                      *)
TrackersShipped == \A w \in Workers : pc[w] \in {"track", "writeTracking"} => row[Key(w)] = "SUCCESS"

(* A run that has told Decathlon a tracking and not yet written it.        *)
Tells(w) == pc[w] = "writeTracking" \/ (pc[w] = "write" /\ verdict[w] = "SUCCESS")

(* Without trouble one run at a time tells Decathlon, and the row follows. *)
Told(k) ==
    /\ row[k] = "SUCCESS" /\ rowTracking[k] # shown[k] =>
           \E w \in Workers : pc[w] = "writeTracking" /\ Key(w) = k
    /\ \A w \in Workers : Tells(w) /\ Key(w) = k =>
           /\ shown[k] = tracking[w]
           /\ \A u \in Workers : Tells(u) /\ Key(u) = k => u = w

RowsTell == \A k \in Keys : Trouble(k) \/ Told(k)

TrackInv == IInv /\ TrackTypes /\ LocksHold /\ TrackersShipped /\ RowsTell

LEMMA InitTrackInv == Init => TrackInv
  <1> SUFFICES ASSUME Init PROVE TrackInv
    OBVIOUS
  <1>1. TrackTypes
    BY DEF Init, QueueInit, TrackTypes, JobStates, Tracking, NoTracking
  <1>2. LocksHold /\ TrackersShipped
    BY DEF Init, QueueInit, LocksHold, TrackersShipped
  <1>3. RowsTell
    BY DEF Init, RowsTell, Told, Tells
  <1>4. QED
    BY <1>1, <1>2, <1>3, InitIInv DEF TrackInv

-----------------------------------------------------------------------------
(* The steps of a run, by what they do to the queue.                       *)

(* A step of a run that goes on.                                           *)
GoesOn(w) ==
    /\ UNCHANGED <<queueVars, cur>>
    /\ pc[w] # "idle" /\ pc'[w] # "idle"
    /\ \A v \in Workers \ {w} : pc'[v] = pc[v]
    /\ crossed \subseteq crossed'

Threw(w) == FailJob(w, cur[w]) /\ EndRun(w) /\ pc[w] # "idle" /\ crossed' = crossed

LEMMA StepKinds ==
  ASSUME Types, TrackTypes, NEW w \in Workers, Step(w) \/ Crash(w)
  PROVE  \/ \E j \in Jobs : Start(w, j)
         \/ GoesOn(w)
         \/ FinishRun(w)
         \/ Threw(w)
         \/ Crash(w)
  <1> USE DEF Types, GoTo, Conclude, rowVars, decathlonVars, runVars
  <1>1. CASE NotImported(w) \/ NotShippable(w) \/ Lookup(w)
    BY <1>1 DEF NotImported, NotShippable, Lookup, GoesOn
  <1>2. CASE Claim(w) \/ ClaimRefused(w) \/ LinesUnresolved(w)
    BY <1>2 DEF Claim, ClaimRefused, LinesUnresolved, GoesOn
  <1>3. CASE ShipmentCreated(w) \/ ShipmentRefused(w) \/ ShipmentUnknown(w)
    BY <1>3 DEF ShipmentCreated, ShipmentRefused, ShipmentUnknown, Sending, GoesOn
  <1>4. CASE WriteRow(w) \/ RecordShipment(w)
    BY <1>4 DEF WriteRow, RecordShipment, GoesOn
  <1>5. CASE TrackingUnchanged(w) \/ NoShipmentId(w) \/ TrackingRefused(w) \/ WriteTracking(w)
    BY <1>5 DEF TrackingUnchanged, NoShipmentId, TrackingRefused, Updating, WriteTracking, GoesOn
  <1>6. CASE TrackingAccepted(w)
    BY <1>6 DEF TrackingAccepted, Updating, Cross, GoesOn
  <1>7. CASE TrackingThrows(w)
    BY <1>7 DEF TrackingThrows, Updating, Threw
  <1>8. CASE Throw(w)
    BY <1>8 DEF Throw, Threw
  <1>9. QED
    BY <1>1, <1>2, <1>3, <1>4, <1>5, <1>6, <1>7, <1>8 DEF Step, ShipStep, TrackStep

LEMMA ResolvedTyped ==
  ASSUME NEW j \in Deliveries, NEW t \in Resolved(j)
  PROVE  t \in Tracking
  BY ShipmentAssumption DEF Resolved, Tracking, NoTracking

LEMMA StepTrackTypes ==
  ASSUME Types, TrackTypes, [Next]_vars
  PROVE  TrackTypes'
  <1> USE DEF TrackTypes, Types, rowVars, decathlonVars, runVars, queueVars
  <1>1. ASSUME NEW j \in Jobs, AddJob(j) \/ StallJob(j), UNCHANGED <<rowVars, decathlonVars, runVars>>
        PROVE  TrackTypes'
    BY <1>1 DEF AddJob, StallJob, JobStates
  <1>2. ASSUME NEW w \in Workers, Step(w) \/ Crash(w)
        PROVE  TrackTypes'
    <2>1. ASSUME NEW j \in Jobs, \/ TakeJob(w, j) \/ CompleteJob(w, j) \/ FailJob(w, j)
                                 \/ UNCHANGED queueVars
          PROVE  /\ job' \in [Jobs -> JobStates] /\ holder' \in [Jobs -> Workers \cup {NoWorker}]
                 /\ attempts' \in [Jobs -> Nat] /\ stalls' \in [Jobs -> Nat]
      BY <2>1 DEF TakeJob, CompleteJob, FailJob, JobStates
    <2>2. Key(w) \in Keys /\ cur[w] \in Jobs /\ Payload(w) \in Deliveries /\ NoTracking \in Tracking
      BY KeyTyped, ShipmentAssumption DEF Payload, Tracking, NoTracking
    <2>3. ASSUME EndRun(w), UNCHANGED <<rowVars, crossed>>, shown' \in [Keys -> Tracking],
                 \/ CompleteJob(w, cur[w]) \/ FailJob(w, cur[w]) \/ UNCHANGED queueVars
          PROVE  TrackTypes'
      BY <2>1, <2>2, <2>3 DEF EndRun
    <2>4. CASE FinishRun(w) \/ Throw(w) \/ Crash(w)
      BY <2>3, <2>4 DEF FinishRun, Throw, Crash
    <2>5. CASE TrackingThrows(w)
      <3>1. shown' \in [Keys -> Tracking]
        BY <2>2, <2>5 DEF TrackingThrows, Show
      <3>2. QED
        BY <2>3, <2>5, <3>1 DEF TrackingThrows
    <2>6. CASE \E j \in Jobs : Start(w, j)
      BY <2>1, <2>6 DEF Start
    <2>7. CASE Lookup(w)
      <3>1. tracking' \in [Workers -> Tracking]
        BY <2>2, <2>7, ResolvedTyped DEF Lookup
      <3>2. stored' \in [Workers -> Tracking]
        BY <2>2, <2>7 DEF Lookup
      <3>3. QED
        BY <2>7, <3>1, <3>2 DEF Lookup
    <2>8. CASE ShipmentCreated(w) \/ ShipmentUnknown(w)
      <3>1. shown' \in [Keys -> Tracking]
        BY <2>2, <2>8 DEF ShipmentCreated, ShipmentUnknown, Ship
      <3>2. QED
        BY <2>8, <3>1 DEF ShipmentCreated, ShipmentUnknown
    <2>9. CASE WriteRow(w) \/ WriteTracking(w)
      <3>1. rowTracking' \in [Keys -> Tracking]
        BY <2>2, <2>9 DEF WriteRow, WriteTracking
      <3>2. QED
        BY <2>9, <3>1 DEF WriteRow, WriteTracking
    <2>10. CASE TrackingAccepted(w)
      <3>1. shown' \in [Keys -> Tracking] /\ crossed' \subseteq Keys
        BY <2>2, <2>10 DEF TrackingAccepted, Show, Cross
      <3>2. QED
        BY <2>10, <3>1 DEF TrackingAccepted
    <2>11. CASE \/ NotImported(w) \/ NotShippable(w) \/ Claim(w) \/ ClaimRefused(w) \/ LinesUnresolved(w)
                \/ ShipmentRefused(w) \/ RecordShipment(w) \/ TrackingUnchanged(w)
                \/ NoShipmentId(w) \/ TrackingRefused(w)
      BY <2>11 DEF NotImported, NotShippable, Claim, ClaimRefused, LinesUnresolved, ShipmentRefused,
         RecordShipment, TrackingUnchanged, NoShipmentId, TrackingRefused
    <2>12. QED
      BY <1>2, <2>4, <2>5, <2>6, <2>7, <2>8, <2>9, <2>10, <2>11 DEF Step, ShipStep, TrackStep
  <1>3. CASE UNCHANGED vars
    BY <1>3 DEF vars
  <1>4. CASE Next
    BY <1>1, <1>2, <1>4
       DEF Next, EnqueueFulfillmentSync, RetryFailedSync, RecoverStalled, LoseLock
  <1>5. QED
    BY <1>3, <1>4

(* Trouble does not go away: attempts and stalls only grow, and the job of *)
(* a run that is gone stays active until it is found stalled.              *)
LEMMA LocksStep ==
  ASSUME Types, TrackTypes, LocksHold, [Next]_vars
  PROVE  /\ LocksHold'
         /\ \A k \in Keys : Trouble(k) => Trouble(k)'
  <1> DEFINE Grows == /\ crossed \subseteq crossed'
                      /\ \A j \in Jobs : /\ attempts[j] > 0 => attempts'[j] > 0
                                         /\ stalls[j] > 0 => stalls'[j] > 0
                                         /\ Orphan(j) => stalls'[j] > 0 \/ Orphan(j)'
  <1>0. ASSUME Grows
        PROVE  \A k \in Keys : Trouble(k) => Trouble(k)'
    BY <1>0 DEF Trouble
  <1> USE DEF TrackTypes, Types, LocksHold, Holds, Running, Orphan
  <1>1. ASSUME NEW j \in Jobs, AddJob(j), UNCHANGED <<decathlonVars, runVars>>
        PROVE  LocksHold' /\ Grows
    BY <1>1 DEF AddJob, Known, runVars, decathlonVars
  <1>2. ASSUME NEW j \in Jobs, StallJob(j), UNCHANGED <<decathlonVars, runVars>>
        PROVE  LocksHold' /\ Grows
    BY <1>2 DEF StallJob, runVars, decathlonVars
  <1>3. ASSUME NEW w \in Workers, NEW j \in Jobs, Start(w, j)
        PROVE  LocksHold' /\ Grows
    BY <1>3 DEF Start, TakeJob, GoTo, decathlonVars
  <1>4. ASSUME NEW w \in Workers, GoesOn(w)
        PROVE  LocksHold' /\ Grows
    BY <1>4 DEF GoesOn, queueVars
  <1>5. ASSUME NEW w \in Workers, pc[w] # "idle", EndRun(w), crossed \subseteq crossed',
               \/ CompleteJob(w, cur[w]) \/ FailJob(w, cur[w]) \/ UNCHANGED queueVars
        PROVE  LocksHold' /\ Grows
    <2>1. /\ pc'[w] = "idle"
          /\ \A v \in Workers \ {w} : pc'[v] = pc[v] /\ cur'[v] = cur[v]
      BY <1>5 DEF EndRun, GoTo
    <2>2. /\ \A j \in Jobs : (attempts[j] > 0 => attempts'[j] > 0) /\ stalls'[j] = stalls[j]
          /\ \A j \in Jobs : ~Holds(w, j) => job'[j] = job[j] /\ holder'[j] = holder[j]
      BY <1>5 DEF CompleteJob, FailJob, queueVars
    <2>3. LocksHold'
      <3>1. \A v \in Workers \ {w} : Holds(v, cur[v]) => Holds(v, cur[v])'
        BY <1>5, <2>1, <2>2 DEF CompleteJob, FailJob, queueVars
      <3>2. \A j \in Jobs : job'[j] = "active" => holder'[j] \in Workers
        BY <1>5 DEF CompleteJob, FailJob, queueVars
      <3>3. QED
        BY <2>1, <2>2, <3>1, <3>2
    <2>4. ASSUME NEW j \in Jobs, Orphan(j)
          PROVE  Orphan(j)'
      <3>1. CASE Holds(w, j)
        <4>1. cur[w] # j
          BY <1>5, <2>4, <3>1
        <4>2. job'[j] = job[j] /\ holder'[j] = holder[j]
          BY <1>5, <4>1 DEF CompleteJob, FailJob, queueVars
        <4>3. QED
          BY <2>1, <3>1, <4>2
      <3>2. CASE ~Holds(w, j)
        BY <2>1, <2>2, <2>4, <3>2
      <3>3. QED
        BY <3>1, <3>2
    <2>5. QED
      BY <1>5, <2>2, <2>3, <2>4
  <1>6. ASSUME NEW w \in Workers, Step(w) \/ Crash(w)
        PROVE  LocksHold' /\ Grows
    <2>1. CASE FinishRun(w)
      BY <1>5, <2>1 DEF FinishRun, decathlonVars
    <2>2. CASE Crash(w)
      BY <1>5, <2>2 DEF Crash, decathlonVars
    <2>3. CASE Threw(w)
      BY <1>5, <2>3 DEF Threw
    <2>4. QED
      BY <1>3, <1>4, <1>6, <2>1, <2>2, <2>3, StepKinds
  <1>7. CASE UNCHANGED vars
    <2>1. UNCHANGED <<job, attempts, stalls, holder, pc, cur, crossed>>
      BY <1>7 DEF vars, queueVars, runVars, decathlonVars
    <2>2. LocksHold'
      BY <2>1
    <2>3. Grows
      BY <2>1
    <2>4. QED
      BY <1>0, <2>2, <2>3
  <1>8. CASE Next
    BY <1>0, <1>1, <1>2, <1>6, <1>8
       DEF Next, EnqueueFulfillmentSync, RetryFailedSync, RecoverStalled, LoseLock
  <1>9. QED
    BY <1>0, <1>7, <1>8

(* A row that says SUCCESS is not claimed again.                           *)
LEMMA TrackersStep ==
  ASSUME IInv, TrackersShipped, [Next]_vars
  PROVE  TrackersShipped'
  <1> USE DEF IInv, Types, TrackersShipped, Key, GoTo, Conclude, rowVars, decathlonVars, runVars
  <1>1. ASSUME UNCHANGED row, NEW w \in Workers, pc'[w] \notin {"track", "writeTracking"},
               \A v \in Workers \ {w} : pc'[v] = pc[v] /\ cur'[v] = cur[v]
        PROVE  TrackersShipped'
    BY <1>1
  <1>2. ASSUME NEW w \in Workers, Step(w) \/ Crash(w)
        PROVE  TrackersShipped'
    <2>1. CASE \E j \in Jobs : Start(w, j)
      BY <1>1, <2>1 DEF Start
    <2>2. CASE FinishRun(w) \/ Throw(w) \/ Crash(w) \/ TrackingThrows(w)
      BY <1>1, <2>2 DEF FinishRun, Throw, Crash, TrackingThrows, EndRun
    <2>3. CASE \/ NotImported(w) \/ NotShippable(w) \/ ClaimRefused(w)
                \/ LinesUnresolved(w) \/ TrackingUnchanged(w)
      BY <1>1, <2>3 DEF NotImported, NotShippable, ClaimRefused, LinesUnresolved, TrackingUnchanged
    <2>4. CASE ShipmentCreated(w) \/ ShipmentRefused(w) \/ ShipmentUnknown(w)
      BY <1>1, <2>4 DEF ShipmentCreated, ShipmentRefused, ShipmentUnknown
    <2>5. CASE RecordShipment(w) \/ NoShipmentId(w) \/ TrackingRefused(w) \/ WriteTracking(w)
      BY <1>1, <2>5 DEF RecordShipment, NoShipmentId, TrackingRefused, WriteTracking
    <2>6. CASE Lookup(w)
      BY <2>6 DEF Lookup
    <2>7. CASE TrackingAccepted(w)
      BY <2>7 DEF TrackingAccepted, Updating
    <2>8. CASE Claim(w)
      BY <2>8 DEF Claim, Claimable
    <2>9. CASE WriteRow(w)
      <3>1. row[Key(w)] = "PROCESSING"
        BY <2>9 DEF WriteRow, OneClaimant, Claiming
      <3>2. QED
        BY <2>9, <3>1 DEF WriteRow
    <2>10. QED
      BY <1>2, <2>1, <2>2, <2>3, <2>4, <2>5, <2>6, <2>7, <2>8, <2>9 DEF Step, ShipStep, TrackStep
  <1>3. CASE UNCHANGED <<row, pc, cur>>
    BY <1>3
  <1>4. CASE UNCHANGED vars
    BY <1>3, <1>4 DEF vars
  <1>5. CASE Next
    BY <1>2, <1>3, <1>5
       DEF Next, EnqueueFulfillmentSync, RetryFailedSync, RecoverStalled, LoseLock
  <1>6. QED
    BY <1>4, <1>5

(* A run that breaks off leaves trouble behind.                            *)
LEMMA BreakIsTrouble ==
  ASSUME Types, TrackTypes, LocksHold, NEW w \in Workers, Threw(w) \/ Crash(w),
         NEW j \in Jobs, j = cur[w]
  PROVE  Trouble(KeyOf[j])'
  <1> USE DEF Types, TrackTypes, LocksHold
  <1>1. pc[w] # "idle" /\ (Holds(w, j) \/ stalls[j] > 0)
    BY DEF Threw, Crash
  <1>2. attempts'[j] > 0 \/ stalls'[j] > 0 \/ Orphan(j)'
    <2>1. CASE Threw(w)
      BY <1>1, <2>1 DEF Threw, FailJob
    <2>2. CASE Crash(w)
      BY <1>1, <2>2 DEF Crash, EndRun, GoTo, Orphan, Running, Holds, queueVars
    <2>3. QED
      BY <2>1, <2>2
  <1>3. QED
    BY <1>2 DEF Trouble

(* A step of w that tells Decathlon nothing about k.                       *)
Others(w) == \A v \in Workers \ {w} :
    UNCHANGED <<pc[v], cur[v], verdict[v], tracking[v]>>

LEMMA ToldElsewhere ==
  ASSUME NEW k \in Keys, Told(k), NEW w \in Workers, Others(w),
         row'[k] = "SUCCESS" => row[k] = "SUCCESS" /\ rowTracking'[k] = rowTracking[k],
         shown'[k] = shown[k],
         Key(w) = k => pc[w] # "writeTracking",
         ~(Tells(w) /\ Key(w) = k)'
  PROVE  Told(k)'
  <1>1. ASSUME NEW v \in Workers \ {w}
        PROVE  /\ pc'[v] = pc[v] /\ tracking'[v] = tracking[v]
               /\ Key(v)' = Key(v)
               /\ Tells(v)' <=> Tells(v)
    <2>1. pc'[v] = pc[v] /\ cur'[v] = cur[v] /\ verdict'[v] = verdict[v] /\ tracking'[v] = tracking[v]
      BY DEF Others
    <2>2. QED
      BY <2>1 DEF Tells, Key
  <1>2. ASSUME (row[k] = "SUCCESS" /\ rowTracking[k] # shown[k])'
        PROVE  (\E v \in Workers : pc[v] = "writeTracking" /\ Key(v) = k)'
    <2>1. PICK v \in Workers : pc[v] = "writeTracking" /\ Key(v) = k
      BY <1>2 DEF Told
    <2>2. v # w
      BY <2>1
    <2>3. (pc[v] = "writeTracking" /\ Key(v) = k)'
      BY <1>1, <2>1, <2>2
    <2>4. QED
      BY <2>3
  <1>3. ASSUME NEW v \in Workers, (Tells(v) /\ Key(v) = k)'
        PROVE  /\ shown'[k] = tracking'[v]
               /\ \A u \in Workers : (Tells(u) /\ Key(u) = k)' => u = v
    BY <1>1, <1>3 DEF Told
  <1>4. QED
    BY <1>2, <1>3 DEF Told

(* A step of w after which w, and nobody else, has told Decathlon about k, *)
(* or nobody has and the row says it.                                      *)
LEMMA ToldByOne ==
  ASSUME NEW k \in Keys, NEW w \in Workers, Others(w), Key(w)' = Key(w),
         \A v \in Workers \ {w} : ~(Tells(v) /\ Key(v) = k),
         Tells(w)' => shown'[k] = tracking'[w],
         row'[k] = "SUCCESS" /\ rowTracking'[k] # shown'[k] =>
            pc'[w] = "writeTracking" /\ Key(w) = k
  PROVE  Told(k)'
  <1>1. \A v \in Workers \ {w} : ~(Tells(v) /\ Key(v) = k)'
    BY DEF Others, Tells, Key
  <1>2. ASSUME (row[k] = "SUCCESS" /\ rowTracking[k] # shown[k])'
        PROVE  (\E v \in Workers : pc[v] = "writeTracking" /\ Key(v) = k)'
    <2>1. (pc[w] = "writeTracking" /\ Key(w) = k)'
      BY <1>2
    <2>2. QED
      BY <2>1
  <1>3. ASSUME NEW v \in Workers, (Tells(v) /\ Key(v) = k)'
        PROVE  /\ shown'[k] = tracking'[v]
               /\ \A u \in Workers : (Tells(u) /\ Key(u) = k)' => u = v
    BY <1>1, <1>3
  <1>4. QED
    BY <1>2, <1>3 DEF Told

LEMMA StepTells ==
  ASSUME TrackInv, NEW w \in Workers, Step(w) \/ Crash(w),
         NEW k \in Keys, ~Trouble(k)', Told(k)
  PROVE  Told(k)'
  <1> USE DEF TrackInv, IInv, Types, TrackTypes, GoTo, Conclude, rowVars, decathlonVars, runVars
  <1>0. /\ Key(w) \in Keys /\ cur[w] \in Jobs /\ KeyOf[cur[w]] = Key(w)
        /\ cur' = cur => Key(w)' = Key(w)
    BY KeyTyped DEF Key
  <1>1. CASE Throw(w) \/ TrackingThrows(w) \/ Crash(w)
    <2>0. Threw(w) \/ Crash(w)
      BY <1>1 DEF Throw, TrackingThrows, Updating, Threw
    <2>1. Key(w) # k
      BY <1>0, <2>0, BreakIsTrouble
    <2>2. Others(w) /\ pc'[w] = "idle"
      BY <2>0 DEF Threw, Crash, EndRun, Others
    <2>3. row' = row /\ rowTracking' = rowTracking /\ shown'[k] = shown[k]
      BY <1>1, <2>1 DEF Throw, TrackingThrows, Show, Crash
    <2>4. QED
      BY <2>1, <2>2, <2>3, ToldElsewhere DEF Tells
  <1>2. CASE \E j \in Jobs : Start(w, j)
    BY <1>2, ToldElsewhere DEF Start, Others, Tells
  <1>3. CASE FinishRun(w)
    BY <1>3, ToldElsewhere DEF FinishRun, EndRun, Others, Tells
  <1>4. CASE NotImported(w) \/ NotShippable(w) \/ ClaimRefused(w) \/ TrackingUnchanged(w)
    BY <1>4, ToldElsewhere DEF NotImported, NotShippable, ClaimRefused, TrackingUnchanged, Others, Tells
  <1>5. CASE LinesUnresolved(w) \/ ShipmentRefused(w)
    BY <1>5, ToldElsewhere DEF LinesUnresolved, ShipmentRefused, Sending, Others, Tells
  <1>6. CASE RecordShipment(w) \/ NoShipmentId(w) \/ TrackingRefused(w)
    BY <1>6, ToldElsewhere DEF RecordShipment, NoShipmentId, TrackingRefused, Updating, Others, Tells
  <1>7. CASE Lookup(w)
    BY <1>7, ToldElsewhere DEF Lookup, Others, Tells
  <1>8. CASE Claim(w)
    BY <1>8, ToldElsewhere DEF Claim, Others, Tells
  <1>9. ASSUME Claiming(w), Key(w) = k
        PROVE  /\ row[k] = "PROCESSING"
               /\ \A v \in Workers \ {w} : ~(Tells(v) /\ Key(v) = k)
    BY <1>9 DEF OneClaimant, Claiming, TrackersShipped, Tells
  <1>10. CASE ShipmentCreated(w) \/ ShipmentUnknown(w)
    <2>1. /\ Others(w) /\ cur' = cur /\ tracking' = tracking /\ UNCHANGED <<row, rowTracking>>
          /\ pc[w] = "send" /\ pc'[w] = "write"
          /\ Key(w) # k => shown'[k] = shown[k]
      BY <1>0, <1>10 DEF ShipmentCreated, ShipmentUnknown, Ship, Sending, Others
    <2>2. CASE Key(w) = k
      <3>1. Tells(w)' => shown'[k] = tracking'[w]
        BY <1>0, <1>10, <2>2 DEF ShipmentCreated, ShipmentUnknown, Ship, Tells
      <3>2. QED
        BY <1>0, <1>9, <2>1, <2>2, <3>1, ToldByOne DEF Claiming
    <2>3. CASE Key(w) # k
      BY <1>0, <2>1, <2>3, ToldElsewhere
    <2>4. QED
      BY <2>2, <2>3
  <1>11. CASE WriteRow(w)
    <2>1. /\ Others(w) /\ cur' = cur /\ UNCHANGED <<shown, tracking, verdict>>
          /\ pc[w] = "write" /\ pc'[w] \in {"record", "log"}
          /\ Key(w) # k => row'[k] = row[k] /\ rowTracking'[k] = rowTracking[k]
      BY <1>0, <1>11 DEF WriteRow, Others
    <2>2. CASE Key(w) = k
      <3>1. row'[k] = "SUCCESS" => rowTracking'[k] = shown'[k]
        <4>1. row'[k] = verdict[w]
          BY <1>0, <1>11, <2>2 DEF WriteRow
        <4>2. CASE verdict[w] = "SUCCESS"
          <5>1. shown[k] = tracking[w]
            BY <2>1, <2>2, <4>2 DEF Told, Tells
          <5>2. rowTracking'[k] = tracking[w]
            BY <1>0, <1>11, <2>2, <4>2 DEF WriteRow
          <5>3. QED
            BY <2>1, <5>1, <5>2
        <4>3. QED
          BY <4>1, <4>2
      <3>2. QED
        BY <1>0, <1>9, <2>1, <2>2, <3>1, ToldByOne DEF Claiming, Tells
    <2>3. CASE Key(w) # k
      BY <1>0, <2>1, <2>3, ToldElsewhere
    <2>4. QED
      BY <2>2, <2>3
  <1>12. CASE TrackingAccepted(w)
    <2>1. /\ Others(w) /\ cur' = cur /\ UNCHANGED <<row, rowTracking, tracking>>
          /\ pc[w] = "track" /\ pc'[w] = "writeTracking"
          /\ Key(w) # k => shown'[k] = shown[k]
      BY <1>0, <1>12 DEF TrackingAccepted, Updating, Show, Others
    <2>2. CASE Key(w) = k
      <3>1. shown'[k] = tracking'[w]
        BY <1>0, <1>12, <2>2 DEF TrackingAccepted, Show
      <3>2. row[k] = "SUCCESS"
        BY <2>1, <2>2 DEF TrackersShipped
      <3>3. \A v \in Workers \ {w} : ~(pc[v] = "writeTracking" /\ Key(v) = k)
        BY <1>12, <2>2 DEF TrackingAccepted, Cross, Trouble
      <3>4. \A v \in Workers \ {w} : ~(Tells(v) /\ Key(v) = k)
        BY <3>2, <3>3 DEF OneClaimant, Claiming, Tells
      <3>5. QED
        BY <1>0, <2>1, <2>2, <3>1, <3>4, ToldByOne
    <2>3. CASE Key(w) # k
      BY <1>0, <2>1, <2>3, ToldElsewhere
    <2>4. QED
      BY <2>2, <2>3
  <1>13. CASE WriteTracking(w)
    <2>1. /\ Others(w) /\ cur' = cur /\ UNCHANGED <<row, shown, tracking>>
          /\ pc[w] = "writeTracking" /\ pc'[w] = "log"
          /\ Key(w) # k => rowTracking'[k] = rowTracking[k]
      BY <1>0, <1>13 DEF WriteTracking, Others
    <2>2. CASE Key(w) = k
      <3>1. /\ shown[k] = tracking[w]
            /\ \A v \in Workers \ {w} : ~(Tells(v) /\ Key(v) = k)
        BY <2>1, <2>2 DEF Told, Tells
      <3>2. rowTracking'[k] = tracking[w]
        BY <1>0, <1>13, <2>2 DEF WriteTracking
      <3>3. QED
        BY <1>0, <2>1, <2>2, <3>1, <3>2, ToldByOne DEF Tells
    <2>3. CASE Key(w) # k
      BY <1>0, <2>1, <2>3, ToldElsewhere
    <2>4. QED
      BY <2>2, <2>3
  <1>14. QED
    BY <1>1, <1>2, <1>3, <1>4, <1>5, <1>6, <1>7, <1>8, <1>10, <1>11, <1>12, <1>13
       DEF Step, ShipStep, TrackStep

LEMMA StepTrackInv ==
  ASSUME TrackInv, [Next]_vars
  PROVE  TrackInv'
  <1>1. IInv'
    BY StepIInv DEF TrackInv
  <1>2. TrackTypes' /\ LocksHold' /\ TrackersShipped'
    BY StepTrackTypes, LocksStep, TrackersStep DEF TrackInv, IInv
  <1>3. ASSUME NEW k \in Keys, ~Trouble(k)'
        PROVE  Told(k)'
    <2>1. Told(k)
      <3>1. Trouble(k) => Trouble(k)'
        BY LocksStep DEF TrackInv, IInv
      <3>2. QED
        BY <1>3, <3>1 DEF TrackInv, RowsTell
    <2>2. ASSUME NEW w \in Workers, Step(w) \/ Crash(w)
          PROVE  Told(k)'
      BY <1>3, <2>1, <2>2, StepTells
    <2>3. CASE UNCHANGED <<rowVars, decathlonVars, runVars>>
      BY <2>1, <2>3 DEF Told, Tells, Key, rowVars, decathlonVars, runVars
    <2>4. CASE UNCHANGED vars
      BY <2>3, <2>4 DEF vars
    <2>5. CASE Next
      BY <2>2, <2>3, <2>5
         DEF Next, EnqueueFulfillmentSync, RetryFailedSync, RecoverStalled, LoseLock
    <2>6. QED
      BY <2>4, <2>5
  <1>4. RowsTell'
    BY <1>3 DEF RowsTell
  <1>5. QED
    BY <1>1, <1>2, <1>4 DEF TrackInv

(* The tracking of a shipped row is what Decathlon shows, but while a run  *)
(* is between its request and its row, or where one broke off there, lost  *)
(* its lock or met another (order-lifecycle.ts, updateTracking).           *)
THEOREM TrackingAgrees == Spec => []DivergenceHasCause
  <1>1. TrackInv => DivergenceHasCause
    BY DEF TrackInv, RowsTell, Told, Trouble, Orphan, DivergenceHasCause
  <1>2. TrackInv /\ [Next]_vars => TrackInv'
    BY StepTrackInv
  <1>3. QED
    BY InitTrackInv, <1>1, <1>2, PTL DEF Spec

(* The rest of the types: the counters of BullMQ stay in their range, as a *)
(* job that may still run has attempts and stalls to spend, and a job's    *)
(* SyncJob row holds a status.                                             *)
CountersTyped == QueueTypeOK /\ QueueBudget /\ syncJob \in [Jobs -> Status]

LEMMA ShipmentQueueTyped ==
  ASSUME QueueTypeOK, QueueBudget, NEW w, NEW j \in Jobs,
         \/ AddJob(j) \/ StallJob(j) \/ CompleteJob(w, j) \/ FailJob(w, j)
         \/ w \in Workers /\ TakeJob(w, j)
         \/ UNCHANGED queueVars
  PROVE  QueueTypeOK' /\ QueueBudget'
  <1> USE QueueAssumption DEF QueueTypeOK, QueueBudget, JobStates, Known, Holds
  <1>1. CASE AddJob(j)
    BY <1>1 DEF AddJob
  <1>2. CASE StallJob(j)
    BY <1>2 DEF StallJob
  <1>3. CASE CompleteJob(w, j)
    BY <1>3 DEF CompleteJob
  <1>4. CASE FailJob(w, j)
    BY <1>4 DEF FailJob
  <1>5. CASE w \in Workers /\ TakeJob(w, j)
    BY <1>5 DEF TakeJob
  <1>6. CASE UNCHANGED queueVars
    BY <1>6 DEF queueVars
  <1>7. QED
    BY <1>1, <1>2, <1>3, <1>4, <1>5, <1>6

LEMMA StepCountersTyped ==
  ASSUME Types, TrackTypes, CountersTyped, [Next]_vars
  PROVE  CountersTyped'
  <1> USE DEF CountersTyped, Types
  <1>1. ASSUME NEW w \in Workers, Step(w) \/ Crash(w)
        PROVE  CountersTyped'
    <2>1. cur[w] \in Jobs /\ verdict[w] \in Status
      BY DEF Verdicts, Status
    <2>2. CASE \E j \in Jobs : Start(w, j)
      BY <2>2, ShipmentQueueTyped DEF Start, Status
    <2>3. CASE FinishRun(w)
      BY <2>1, <2>3, ShipmentQueueTyped DEF FinishRun
    <2>4. CASE ~(\E j \in Jobs : Start(w, j)) /\ ~FinishRun(w)
      <3>1. FailJob(w, cur[w]) \/ UNCHANGED queueVars
        BY <1>1, <2>4, StepKinds DEF GoesOn, Threw, Crash
      <3>2. syncJob' = syncJob
        BY <1>1, <2>4 DEF Step, NotImported, NotShippable, Lookup, ShipStep, Claim, ClaimRefused,
           LinesUnresolved, ShipmentCreated, ShipmentRefused, ShipmentUnknown, WriteRow,
           RecordShipment, TrackStep, TrackingUnchanged, NoShipmentId, TrackingAccepted,
           TrackingRefused, TrackingThrows, WriteTracking, Throw, Crash
      <3>3. QED
        BY <2>1, <3>1, <3>2, ShipmentQueueTyped
    <2>5. QED
      BY <2>2, <2>3, <2>4
  <1>2. ASSUME NEW j \in Jobs, AddJob(j) \/ StallJob(j), syncJob' \in [Jobs -> Status]
        PROVE  CountersTyped'
    BY <1>2, ShipmentQueueTyped
  <1>3. CASE UNCHANGED vars
    BY <1>3 DEF vars, queueVars, QueueTypeOK, QueueBudget
  <1>4. CASE Next
    BY <1>1, <1>2, <1>4 DEF Next, EnqueueFulfillmentSync, RetryFailedSync, RecoverStalled,
       LoseLock, Status
  <1>5. QED
    BY <1>3, <1>4

(* Type correctness; by the bounds of BullQueue no delivery is run more    *)
(* often than its attempts and stalls allow (queues.ts).                   *)
THEOREM ShipmentTypeCorrect == Spec => []TypeOK
  <1>1. TrackInv /\ CountersTyped => TypeOK
    BY DEF TrackInv, IInv, Types, TrackTypes, CountersTyped, TypeOK
  <1>2. Init => CountersTyped
    BY QueueAssumption DEF Init, QueueInit, CountersTyped, QueueTypeOK, QueueBudget, JobStates, Status
  <1>3. TrackInv /\ CountersTyped /\ [Next]_vars => TrackInv' /\ CountersTyped'
    BY StepTrackInv, StepCountersTyped DEF TrackInv, IInv
  <1>4. QED
    BY InitTrackInv, <1>1, <1>2, <1>3, PTL DEF Spec

-----------------------------------------------------------------------------
(* ReturnsSync                                                             *)

(* Rows and tags have a value for each return and each order. *)
RowsAndTags ==
    /\ mirror = [r \in Returns |-> mirror[r]]
    /\ tags = [o \in Orders |-> tags[o]]

(* The row a run has read is still the row, and the row it has written is  *)
(* what it is about to tag.                                                *)
RunKnowsRow == Head(todo) \in Returns =>
    /\ at = "upsert" => previous = mirror[Head(todo)]
    /\ at = "tag" => mirror[Head(todo)] = seen[Head(todo)]

(* The states that are not tagged yet. *)
TagIsComing ==
    \A r \in Returns : mirror[r] # 0 =>
        \/ mirror[r] \in tags[OrderOf[r]]
        \/ r \in hit
        \/ at = "tag" /\ r = Head(todo)

ReturnsInv == RowsAndTags /\ RunKnowsRow /\ TagIsComing

(* No row, nothing to tag. *)
LEMMA ReturnsInitInv == ReturnsInit => ReturnsInv
  BY DEF ReturnsInit, Nothing, ReturnsInv, RowsAndTags, RunKnowsRow, TagIsComing

(* The lists of a run are not needed: a return is written and tagged as    *)
(* the head of one and the same list, whatever is on it.                   *)
LEMMA ReturnsStepInv ==
  ASSUME ReturnsInv, [ReturnsNext]_returnsVars
  PROVE  ReturnsInv'
  <1> USE ReturnsAssumption DEF ReturnsInv, RowsAndTags, RunKnowsRow, TagIsComing
  <1>1. ASSUME UNCHANGED <<mirror, tags, hit>>, at # "tag", at' \notin {"upsert", "tag"}
        PROVE  ReturnsInv'
    BY <1>1
  <1>2. ASSUME UNCHANGED <<mirror, tags, hit, syncVars>>
        PROVE  ReturnsInv'
    BY <1>2 DEF syncVars
  <1>3. CASE (\E r \in Returns : Move(r)) \/ (\E o \in Orders : ImportOrder(o)) \/ UNCHANGED returnsVars
    BY <1>2, <1>3 DEF Move, ImportOrder, returnsVars, sourceVars, mirrorVars
  <1>4. CASE Begin \/ ListNewest \/ ListOpen \/ Recheck \/ NoNeedToRecheck \/ Rechecked \/ NotOurs
    BY <1>1, <1>4 DEF Begin, ListNewest, ListOpen, Recheck, NoNeedToRecheck, Rechecked, NotOurs,
       RestOf, NextReturn, sourceVars, mirrorVars
  <1>5. CASE FindPrevious
    BY <1>5 DEF FindPrevious, sourceVars, mirrorVars
  <1>6. CASE Upsert
    <2>1. mirror' = [mirror EXCEPT ![Head(todo)] = seen[Head(todo)]] /\ at = "upsert"
          /\ tags' = tags /\ hit' = hit
      BY <1>6 DEF Upsert
    <2>2. CASE previous = seen[Head(todo)]
      <3>1. mirror' = mirror
        BY <2>1, <2>2
      <3>2. QED
        BY <1>1, <1>6, <2>1, <2>2, <3>1 DEF Upsert, NextReturn, RestOf
    <2>3. CASE previous # seen[Head(todo)]
      <3>1. at' = "tag" /\ todo' = todo /\ seen' = seen
        BY <1>6, <2>3 DEF Upsert
      <3>2. QED
        BY <2>1, <3>1
    <2>4. QED
      BY <2>2, <2>3
  <1>7. ASSUME mirror' = mirror, at' \notin {"upsert", "tag"},
               \/ at = "tag" /\ Tagged /\ hit' = hit
               \/ Interrupted
        PROVE  ReturnsInv'
    <2>1. tags' = [o \in Orders |-> tags'[o]] /\ \A o \in Orders : tags[o] \subseteq tags'[o]
      BY <1>7 DEF Interrupted, Tagged
    <2>2. hit \subseteq hit'
      BY <1>7 DEF Interrupted
    <2>3. ASSUME at = "tag", Head(todo) \in Returns
          PROVE  mirror[Head(todo)] \in tags'[OrderOf[Head(todo)]] \/ Head(todo) \in hit'
      BY <1>7, <2>3 DEF Interrupted, Tagged, Order
    <2>4. QED
      BY <1>7, <2>1, <2>2, <2>3
  <1>8. CASE TagsAdd
    BY <1>7, <1>8 DEF TagsAdd, NextReturn, RestOf, mirrorVars
  <1>9. CASE ReturnFails \/ RunEnds
    BY <1>7, <1>9 DEF ReturnFails, RunEnds, NextReturn, RestOf, mirrorVars
  <1>10. QED
    BY <1>3, <1>4, <1>5, <1>6, <1>8, <1>9 DEF ReturnsNext, SyncReturns, ApplyReturn

(* Between runs an order carries the tag of every state its returns are    *)
(* mirrored in, unless a failure hit the return between its row and its    *)
(* tag (applyReturn, order-lifecycle.ts:407-445).                          *)
THEOREM TagsAreThere == ReturnsSpec => []MissingTagHasCause
  <1>1. ReturnsInv => MissingTagHasCause
    BY DEF ReturnsInv, TagIsComing, MissingTagHasCause
  <1>2. QED
    BY ReturnsInitInv, ReturnsStepInv, <1>1, PTL DEF ReturnsSpec

=============================================================================
