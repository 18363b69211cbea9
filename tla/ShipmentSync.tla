---------------------------- MODULE ShipmentSync ----------------------------
(***************************************************************************)
(* Pushing Shopify fulfillments to Decathlon:                              *)
(* OrderLifecycleSync.syncFulfillment and updateTracking                   *)
(* (packages/sync/src/order-lifecycle.ts), the ShipmentMapping claim row,  *)
(* the producer keyed on the webhook delivery, and the queue that runs and *)
(* re-runs the jobs.                                                       *)
(*                                                                         *)
(* A job is one fulfillments/create or fulfillments/update delivery.  A    *)
(* fulfillment whose row is SUCCESS gets its tracking corrected (ST23);    *)
(* any other one is claimed and shipped (ST01).                            *)
(***************************************************************************)
EXTENDS BullQueue

CONSTANTS
    Keys,         \* Shopify fulfillments of Decathlon orders
    KeyOf,        \* the fulfillment a job is about
    Deliveries,   \* the jobs of webhook deliveries; the others are requeues
    PayloadOf,    \* the delivery whose payload a job carries
    Shippable,    \* deliveries whose fulfillment status is "success"
    Numbers,      \* tracking numbers
    NoNumber,     \* no tracking number
    NumberOf,     \* the tracking number in a delivery
    Carriers,     \* how its carrier may be sent
    Unresolvable  \* deliveries with a line that may not be found on the order

ASSUME ShipmentAssumption ==
    /\ Jobs # {}
    /\ KeyOf \in [Jobs -> Keys]
    /\ Deliveries \subseteq Jobs
    /\ PayloadOf \in [Jobs -> Deliveries]
    /\ \A j \in Jobs : KeyOf[PayloadOf[j]] = KeyOf[j]
    /\ \A j \in Deliveries : PayloadOf[j] = j
    /\ Shippable \subseteq Deliveries
    /\ NoNumber \notin Numbers
    /\ NumberOf \in [Deliveries -> Numbers \cup {NoNumber}]
    /\ Carriers \in (SUBSET {"code", "name"}) \ {{}}
    /\ Unresolvable \subseteq Deliveries

VARIABLES
    row,          \* ShipmentMapping.status of each fulfillment ("NONE": no row)
    withId,       \* fulfillments whose row holds a Decathlon shipment id
    rowTracking,  \* tracking number and carrier stored in the row
    recorded,     \* fulfillments recorded on their OrderMapping (recordShipment)
    syncJob,      \* SyncJob.status of the latest run of each job
    shipped,      \* how often Decathlon shipped the lines of each fulfillment
    shown,        \* the tracking of its newest shipment that Decathlon shows
    doubt,        \* fulfillments with an ST01 request whose outcome is unknown
    crossed,      \* fulfillments Decathlon got two corrections of at once
    pc,           \* where each processor is in syncFulfillment
    cur,          \* the job it runs
    tracking,     \* the tracking resolved for it
    stored,       \* the tracking of the row it found
    verdict,      \* the status it is about to write
    gotId         \* whether ST01 returned a shipment id

rowVars == <<row, withId, rowTracking, recorded>>
decathlonVars == <<shipped, shown, doubt, crossed>>
runVars == <<pc, cur, tracking, stored, verdict, gotId>>
vars == <<queueVars, rowVars, syncJob, decathlonVars, runVars>>

Status == {"NONE", "PENDING", "PROCESSING", "SUCCESS", "FAILED", "RETRYING", "SKIPPED"}
Verdicts == {"SUCCESS", "FAILED", "SKIPPED"}
Places == {"idle", "lookup", "claim", "send", "write", "record", "track", "writeTracking", "log"}

(* A carrier the operator knows goes by code, any other by name.           *)
Tracking == [number : Numbers \cup {NoNumber}, carrier : Carriers \cup {"none"}]
NoTracking == [number |-> NoNumber, carrier |-> "none"]

TypeOK ==
    /\ QueueTypeOK
    /\ row \in [Keys -> Status]
    /\ withId \subseteq Keys
    /\ rowTracking \in [Keys -> Tracking]
    /\ recorded \subseteq Keys
    /\ syncJob \in [Jobs -> Status]
    /\ shipped \in [Keys -> Nat]
    /\ shown \in [Keys -> Tracking]
    /\ doubt \subseteq Keys
    /\ crossed \subseteq Keys
    /\ pc \in [Workers -> Places]
    /\ cur \in [Workers -> Jobs]
    /\ tracking \in [Workers -> Tracking]
    /\ stored \in [Workers -> Tracking]
    /\ verdict \in [Workers -> Verdicts]
    /\ gotId \in [Workers -> BOOLEAN]

AnyJob == CHOOSE j \in Jobs : TRUE

Init ==
    /\ QueueInit
    /\ row = [k \in Keys |-> "NONE"]
    /\ withId = {}
    /\ rowTracking = [k \in Keys |-> NoTracking]
    /\ recorded = {}
    /\ syncJob = [j \in Jobs |-> "NONE"]
    /\ shipped = [k \in Keys |-> 0]
    /\ shown = [k \in Keys |-> NoTracking]
    /\ doubt = {}
    /\ crossed = {}
    /\ pc = [w \in Workers |-> "idle"]
    /\ cur = [w \in Workers |-> AnyJob]
    /\ tracking = [w \in Workers |-> NoTracking]
    /\ stored = [w \in Workers |-> NoTracking]
    /\ verdict = [w \in Workers |-> "SKIPPED"]
    /\ gotId = [w \in Workers |-> FALSE]

-----------------------------------------------------------------------------
(* Producers                                                               *)

(* A webhook delivery.  The job id is the delivery's id, so a redelivery   *)
(* finds the job and enqueues nothing.                                     *)
EnqueueFulfillmentSync(j) ==
    /\ j \in Deliveries /\ ~Known(j)
    /\ syncJob' = [syncJob EXCEPT ![j] = "PENDING"]
    /\ AddJob(j)
    /\ UNCHANGED <<rowVars, decathlonVars, runVars>>

(* The retry-failed-sync processor requeues the payload under a fresh id.  *)
RetryFailedSync(j, r) ==
    /\ syncJob[j] # "NONE"
    /\ r \notin Deliveries /\ PayloadOf[r] = PayloadOf[j] /\ ~Known(r)
    /\ syncJob' = [syncJob EXCEPT ![j] = "RETRYING"]
    /\ AddJob(r)
    /\ UNCHANGED <<rowVars, decathlonVars, runVars>>

-----------------------------------------------------------------------------
(* One run of syncFulfillment                                              *)

Key(w) == KeyOf[cur[w]]
Payload(w) == PayloadOf[cur[w]]

GoTo(w, place) == pc' = [pc EXCEPT ![w] = place]

Conclude(w, place, v) ==
    /\ GoTo(w, place)
    /\ verdict' = [verdict EXCEPT ![w] = v]

EndRun(w) ==
    /\ GoTo(w, "idle")
    /\ cur' = [cur EXCEPT ![w] = AnyJob]
    /\ tracking' = [tracking EXCEPT ![w] = NoTracking]
    /\ stored' = [stored EXCEPT ![w] = NoTracking]
    /\ verdict' = [verdict EXCEPT ![w] = "SKIPPED"]
    /\ gotId' = [gotId EXCEPT ![w] = FALSE]

Start(w, j) ==
    /\ pc[w] = "idle"
    /\ TakeJob(w, j)
    /\ cur' = [cur EXCEPT ![w] = j]
    /\ GoTo(w, "lookup")
    /\ syncJob' = [syncJob EXCEPT ![j] = "PROCESSING"]
    /\ UNCHANGED <<rowVars, decathlonVars, tracking, stored, verdict, gotId>>

(* loadOrder finds no mapping of the order.  A row refers to its mapping   *)
(* and is deleted with it, so there is none then.                          *)
NotImported(w) ==
    /\ pc[w] = "lookup"
    /\ row[Key(w)] = "NONE"
    /\ Conclude(w, "log", "SKIPPED")
    /\ UNCHANGED <<queueVars, rowVars, syncJob, decathlonVars, cur, tracking, stored, gotId>>

(* Only successful fulfillments are sent; Mirakl has no "unship". *)
NotShippable(w) ==
    /\ pc[w] = "lookup"
    /\ Payload(w) \notin Shippable
    /\ Conclude(w, "log", "SKIPPED")
    /\ UNCHANGED <<queueVars, rowVars, syncJob, decathlonVars, cur, tracking, stored, gotId>>

(* resolveTracking: the carrier goes by code if SH21 answered and knows    *)
(* it, and by name otherwise (a failing SH21 is only logged).              *)
Resolved(j) ==
    IF NumberOf[j] = NoNumber THEN {NoTracking}
    ELSE {[number |-> NumberOf[j], carrier |-> c] : c \in Carriers}

(* The carriers are listed, then the ShipmentMapping row is read. *)
Lookup(w) ==
    /\ pc[w] = "lookup"
    /\ Payload(w) \in Shippable
    /\ \E t \in Resolved(Payload(w)) : tracking' = [tracking EXCEPT ![w] = t]
    /\ IF row[Key(w)] = "SUCCESS"
         THEN GoTo(w, "track") /\ stored' = [stored EXCEPT ![w] = rowTracking[Key(w)]]
         ELSE GoTo(w, "claim") /\ UNCHANGED stored
    /\ UNCHANGED <<queueVars, rowVars, syncJob, decathlonVars, cur, verdict, gotId>>

(* Faulty variant: a claim that takes over a row being sent. *)
ClaimableUnlessDone(k) == row[k] # "SUCCESS"

Claimable(k) == row[k] \in {"NONE", "FAILED"}

(* ShipmentMappingRepository.claim *)
Claim(w) ==
    /\ pc[w] = "claim"
    /\ Claimable(Key(w))
    /\ row' = [row EXCEPT ![Key(w)] = "PROCESSING"]
    /\ GoTo(w, "send")
    /\ UNCHANGED <<queueVars, withId, rowTracking, recorded, syncJob, decathlonVars,
                   cur, tracking, stored, verdict, gotId>>

(* "This fulfillment is already being sent to Decathlon" *)
ClaimRefused(w) ==
    /\ pc[w] = "claim"
    /\ ~Claimable(Key(w))
    /\ Conclude(w, "log", "SKIPPED")
    /\ UNCHANGED <<queueVars, rowVars, syncJob, decathlonVars, cur, tracking, stored, gotId>>

Sending(w) == pc[w] = "send"

(* resolveLines finds a line without a property by the variant of a product *)
(* mapping, which may be there in one run and not in another.              *)
LinesUnresolved(w) ==
    /\ pc[w] = "send"
    /\ Payload(w) \in Unresolvable
    /\ Conclude(w, "write", "FAILED")
    /\ UNCHANGED <<queueVars, rowVars, syncJob, decathlonVars, cur, tracking, stored, gotId>>

(* Decathlon creates a shipment for the lines of the run's fulfillment. *)
Ship(w) ==
    /\ shipped' = [shipped EXCEPT ![Key(w)] = @ + 1]
    /\ shown' = [shown EXCEPT ![Key(w)] = tracking[w]]

(* ST01 reports a shipment; its id may be missing from the answer. *)
ShipmentCreated(w) ==
    /\ Sending(w)
    /\ Ship(w)
    /\ Conclude(w, "write", "SUCCESS")
    /\ \E b \in BOOLEAN : gotId' = [gotId EXCEPT ![w] = b]
    /\ UNCHANGED <<queueVars, rowVars, syncJob, doubt, crossed, cur, tracking, stored>>

(* Faulty variant: the status code is trusted, the body is not read. *)
ShipmentRefusedIgnored(w) ==
    /\ Sending(w)
    /\ Conclude(w, "write", "SUCCESS")
    /\ UNCHANGED <<queueVars, rowVars, syncJob, decathlonVars, cur, tracking, stored, gotId>>

(* ST01 answers 4xx, or 201 with shipment_errors or without a shipment. *)
ShipmentRefused(w) ==
    /\ Sending(w)
    /\ Conclude(w, "write", "FAILED")
    /\ UNCHANGED <<queueVars, rowVars, syncJob, decathlonVars, cur, tracking, stored, gotId>>

(* DecathlonOutcomeUnknownError: the shipment may or may not exist. *)
ShipmentUnknown(w) ==
    /\ Sending(w)
    /\ Ship(w) \/ UNCHANGED <<shipped, shown>>
    /\ doubt' = doubt \cup {Key(w)}
    /\ Conclude(w, "write", "FAILED")
    /\ UNCHANGED <<queueVars, rowVars, syncJob, crossed, cur, tracking, stored, gotId>>

(* The row is updated: FAILED with a message, or SUCCESS with the shipment *)
(* id (an absent one leaves the column alone) and the tracking.            *)
WriteRow(w) ==
    /\ pc[w] = "write"
    /\ row' = [row EXCEPT ![Key(w)] = verdict[w]]
    /\ withId' = IF gotId[w] THEN withId \cup {Key(w)} ELSE withId
    /\ rowTracking' = IF verdict[w] = "SUCCESS"
                        THEN [rowTracking EXCEPT ![Key(w)] = tracking[w]] ELSE rowTracking
    /\ GoTo(w, IF gotId[w] THEN "record" ELSE "log")
    /\ UNCHANGED <<queueVars, recorded, syncJob, decathlonVars, cur, tracking, stored,
                   verdict, gotId>>

(* orderMappings.recordShipment *)
RecordShipment(w) ==
    /\ pc[w] = "record"
    /\ recorded' = recorded \cup {Key(w)}
    /\ GoTo(w, "log")
    /\ UNCHANGED <<queueVars, row, withId, rowTracking, syncJob, decathlonVars, cur,
                   tracking, stored, verdict, gotId>>

-----------------------------------------------------------------------------
(* updateTracking: the fulfillment has been shipped before                 *)

Unchanged(w) == tracking[w].number = NoNumber \/ tracking[w] = stored[w]

TrackingUnchanged(w) ==
    /\ pc[w] = "track"
    /\ Unchanged(w)
    /\ Conclude(w, "log", "SKIPPED")
    /\ UNCHANGED <<queueVars, rowVars, syncJob, decathlonVars, cur, tracking, stored, gotId>>

(* The shipment id was never returned: nothing can be updated. *)
NoShipmentId(w) ==
    /\ pc[w] = "track"
    /\ ~Unchanged(w) /\ Key(w) \notin withId
    /\ Conclude(w, "log", "FAILED")
    /\ UNCHANGED <<queueVars, rowVars, syncJob, decathlonVars, cur, tracking, stored, gotId>>

Updating(w) == pc[w] = "track" /\ ~Unchanged(w) /\ Key(w) \in withId

Show(w) == shown' = [shown EXCEPT ![Key(w)] = tracking[w]]

(* Another run may have told Decathlon and not yet written its row. *)
Cross(w) ==
    crossed' = IF \E u \in Workers \ {w} : pc[u] = "writeTracking" /\ Key(u) = Key(w)
                 THEN crossed \cup {Key(w)} ELSE crossed

TrackingAccepted(w) ==
    /\ Updating(w)
    /\ Show(w)
    /\ Cross(w)
    /\ Conclude(w, "writeTracking", "SUCCESS")
    /\ UNCHANGED <<queueVars, rowVars, syncJob, shipped, doubt, cur, tracking, stored, gotId>>

(* Faulty variant: a refused correction is stored like an accepted one. *)
TrackingRefusedStored(w) ==
    /\ Updating(w)
    /\ Conclude(w, "writeTracking", "FAILED")
    /\ UNCHANGED <<queueVars, rowVars, syncJob, decathlonVars, cur, tracking, stored, gotId>>

TrackingRefused(w) ==
    /\ Updating(w)
    /\ Conclude(w, "log", "FAILED")
    /\ UNCHANGED <<queueVars, rowVars, syncJob, decathlonVars, cur, tracking, stored, gotId>>

(* ST23 throws, applied or not: there is no catch, the job is tried again. *)
TrackingThrows(w) ==
    /\ Updating(w)
    /\ Show(w) \/ UNCHANGED shown
    /\ FailJob(w, cur[w])
    /\ EndRun(w)
    /\ UNCHANGED <<rowVars, syncJob, shipped, doubt, crossed>>

WriteTracking(w) ==
    /\ pc[w] = "writeTracking"
    /\ rowTracking' = [rowTracking EXCEPT ![Key(w)] = tracking[w]]
    /\ GoTo(w, "log")
    /\ UNCHANGED <<queueVars, row, withId, recorded, syncJob, decathlonVars, cur,
                   tracking, stored, verdict, gotId>>

-----------------------------------------------------------------------------
(* refreshOrderState (a status shown in the dashboard, not modelled), the  *)
(* SyncLog row, and syncJobs.finish.                                       *)
FinishRun(w) ==
    /\ pc[w] = "log"
    /\ syncJob' = [syncJob EXCEPT ![cur[w]] = verdict[w]]
    /\ CompleteJob(w, cur[w])
    /\ EndRun(w)
    /\ UNCHANGED <<rowVars, decathlonVars>>

(* Anything outside the try block around ST01 throws. *)
Throw(w) ==
    /\ pc[w] # "idle"
    /\ FailJob(w, cur[w])
    /\ EndRun(w)
    /\ UNCHANGED <<rowVars, syncJob, decathlonVars>>

(* The process dies, or SIGTERM ends it. *)
Crash(w) ==
    /\ pc[w] # "idle"
    /\ EndRun(w)
    /\ UNCHANGED <<queueVars, rowVars, syncJob, decathlonVars>>

Running(w, j) == pc[w] # "idle" /\ cur[w] = j

RecoverStalled(j) ==
    /\ ~(holder[j] \in Workers /\ Running(holder[j], j))
    /\ StallJob(j)
    /\ UNCHANGED <<rowVars, syncJob, decathlonVars, runVars>>

LoseLock(j) ==
    /\ holder[j] \in Workers /\ Running(holder[j], j)
    /\ StallJob(j)
    /\ UNCHANGED <<rowVars, syncJob, decathlonVars, runVars>>

-----------------------------------------------------------------------------
ShipStep(w) ==
    \/ Claim(w)
    \/ ClaimRefused(w)
    \/ LinesUnresolved(w)
    \/ ShipmentCreated(w)
    \/ ShipmentRefused(w)
    \/ ShipmentUnknown(w)
    \/ WriteRow(w)
    \/ RecordShipment(w)

TrackStep(w) ==
    \/ TrackingUnchanged(w)
    \/ NoShipmentId(w)
    \/ TrackingAccepted(w)
    \/ TrackingRefused(w)
    \/ TrackingThrows(w)
    \/ WriteTracking(w)

Step(w) ==
    \/ \E j \in Jobs : Start(w, j)
    \/ NotImported(w)
    \/ NotShippable(w)
    \/ Lookup(w)
    \/ ShipStep(w)
    \/ TrackStep(w)
    \/ FinishRun(w)
    \/ Throw(w)

Next ==
    \/ \E j \in Jobs : EnqueueFulfillmentSync(j)
    \/ \E j, r \in Jobs : RetryFailedSync(j, r)
    \/ \E w \in Workers : Step(w) \/ Crash(w)
    \/ \E j \in Jobs : RecoverStalled(j) \/ LoseLock(j)

Spec == Init /\ [][Next]_vars

-----------------------------------------------------------------------------
(* Properties                                                              *)

(* The lines of a fulfillment are shipped a second time only after an ST01 *)
(* request whose outcome was unknown: webhook redeliveries, retries, lost  *)
(* locks and crashes alone never do it (queue-producer.service.ts:226).    *)
ShippedTwiceNeedsDoubt == \A k \in Keys : shipped[k] > 1 => k \in doubt

(* A row that says SUCCESS, or an order that records the shipment, has one *)
(* behind it; what the order records, the row knows as well.               *)
SuccessIsShipped ==
    /\ \A k \in Keys : row[k] = "SUCCESS" => shipped[k] > 0
    /\ \A k \in recorded : row[k] = "SUCCESS" /\ k \in withId

(* The tracking Decathlon shows differs from the one in a shipped row only *)
(* while a run is between the request and the write, after a job of the    *)
(* fulfillment threw, crashed or lost its lock, or when two runs were      *)
(* there at once.                                                          *)
DivergenceHasCause ==
    \A k \in Keys :
        row[k] = "SUCCESS" /\ k \in withId /\ rowTracking[k] # shown[k] =>
            \/ \E w \in Workers : pc[w] = "writeTracking" /\ Key(w) = k
            \/ k \in crossed
            \/ \E j \in Jobs : KeyOf[j] = k /\
                   \/ attempts[j] > 0 \/ stalls[j] > 0
                   \/ job[j] = "active" /\ ~Running(holder[j], j)

-----------------------------------------------------------------------------
(* The claim rows keep ClaimContract, as far as Decathlon has answered     *)

ClaimOf(k) ==
    CASE row[k] = "PROCESSING" -> "claimed"
      [] row[k] = "SUCCESS" -> "closed"
      [] OTHER -> "free"

(* The shipments of a fulfillment, not told apart from those an unanswered *)
(* request may have made once there is such a request.                     *)
Answered(k) == IF k \in doubt THEN 0 ELSE shipped[k]

Contract == INSTANCE ClaimContract WITH
                claim <- [k \in Keys |-> ClaimOf(k)],
                effects <- [k \in Keys |-> Answered(k)]

(* The shipment jobs keep the claim contract of fulfillment.repository.ts: *)
(* a fulfillment is claimed before its lines are shipped, one run at a     *)
(* time, a failed claim may be taken again, and a row that says SUCCESS is *)
(* final.  While every request was answered, its lines are shipped once    *)
(* and only under the claim.                                               *)
KeepsContractWhenAnswered == Contract!Spec

=============================================================================
