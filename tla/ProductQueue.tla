---------------------------- MODULE ProductQueue ----------------------------
(***************************************************************************)
(* How edits of one Shopify product get into the product-sync queue and    *)
(* out of it: QueueProducerService.enqueueProductSync and clearFinishedJob *)
(* (apps/web/backend/src/scheduler/queue-producer.service.ts) with the     *)
(* read-compare-submit-store cycle of SyncEngine.syncProduct.              *)
(*                                                                         *)
(* A product has two job ids.  "base" coalesces a burst of edits; an edit  *)
(* that finds it running queues "next".  Every call to Redis or to the     *)
(* database is a step, so handlers and runs interleave between them.       *)
(***************************************************************************)
EXTENDS BullQueue, FiniteSets

CONSTANTS
    Producers,  \* requests the backend handles at the same time
    Versions,   \* what Decathlon would be sent: a variant's P41 row
    NoVersion,  \* nothing sent yet
    MaxEdits,   \* bound: edits in Shopify
    MaxClicks,  \* bound: "Sync products now"
    MaxFaults   \* bound: runs that throw or die

ASSUME ProductQueueAssumption ==
    /\ Jobs = {"base", "next"}
    /\ IsFiniteSet(Producers)
    /\ NoVersion \notin Versions /\ Versions # {}
    /\ MaxEdits \in Nat /\ MaxClicks \in Nat /\ MaxFaults \in Nat

VARIABLES
    content,     \* the product in Shopify
    edits,       \* edits so far
    deliveries,  \* products/update webhooks not yet handled
    clicks,      \* manual syncs so far
    trigger,     \* ProductSyncJobPayload.trigger of each job
    fresh,       \* jobs whose SyncJob row no run has started
    pendingRows, \* SyncJob rows on PENDING
    at,          \* where each producer is in enqueueProductSync
    asks,        \* what it was called for
    target,      \* the job id it is looking at
    missed,      \* history: a producer left its edit to a run that did not see it
    clash,       \* history: two producers were between look and add of one id
    pc,          \* where each processor is in syncProduct
    cur,         \* the job it runs
    seen,        \* the content it read
    hash,        \* ProductMapping.lastPayloadHash
    decathlon,   \* the content Decathlon was sent last
    click,       \* history: the last click: no submission since, left to another's job
    crossed,     \* history: two runs overlapped and had read different contents
    faults       \* runs that threw or died so far

shopVars == <<content, edits, deliveries, clicks>>
jobVars == <<trigger, fresh, pendingRows>>
historyVars == <<missed, clash>>
producerVars == <<at, asks, target, historyVars>>
runVars == <<pc, cur, seen>>
syncVars == <<hash, decathlon, click, crossed, faults>>
vars == <<queueVars, shopVars, jobVars, producerVars, runVars, syncVars>>

Steps == {"idle", "look", "remove", "pending", "state", "create", "add"}
Places == {"idle", "fetch", "compare", "submit", "store", "skip", "done"}

TypeOK ==
    /\ QueueTypeOK
    /\ content \in Versions
    /\ edits \in 0..MaxEdits
    /\ deliveries \in 0..(MaxEdits + MaxFaults)
    /\ clicks \in 0..MaxClicks
    /\ trigger \in [Jobs -> {"webhook", "manual"}]
    /\ fresh \subseteq Jobs
    /\ pendingRows \in Nat
    /\ at \in [Producers -> Steps]
    /\ asks \in [Producers -> {"webhook", "manual"}]
    /\ target \in [Producers -> Jobs]
    /\ missed \in BOOLEAN /\ clash \in BOOLEAN
    /\ pc \in [Workers -> Places]
    /\ cur \in [Workers -> Jobs]
    /\ seen \in [Workers -> Versions \cup {NoVersion}]
    /\ hash \in Versions \cup {NoVersion}
    /\ decathlon \in Versions \cup {NoVersion}
    /\ click \in {"none", "unsent", "coalesced"}
    /\ crossed \in BOOLEAN
    /\ faults \in 0..MaxFaults

Init ==
    /\ QueueInit
    /\ content \in Versions
    /\ edits = 0 /\ deliveries = 0 /\ clicks = 0
    /\ trigger = [j \in Jobs |-> "webhook"]
    /\ fresh = {} /\ pendingRows = 0
    /\ at = [p \in Producers |-> "idle"]
    /\ asks = [p \in Producers |-> "webhook"]
    /\ target = [p \in Producers |-> "base"]
    /\ missed = FALSE /\ clash = FALSE
    /\ pc = [w \in Workers |-> "idle"]
    /\ cur = [w \in Workers |-> "base"]
    /\ seen = [w \in Workers |-> NoVersion]
    /\ hash = NoVersion /\ decathlon = NoVersion
    /\ click = "none" /\ crossed = FALSE
    /\ faults = 0

-----------------------------------------------------------------------------
(* Shopify                                                                 *)

(* The merchant edits the product; Shopify sends products/update. *)
Edit ==
    /\ edits < MaxEdits
    /\ edits' = edits + 1
    /\ content' \in Versions
    /\ deliveries' = deliveries + 1
    /\ UNCHANGED <<queueVars, clicks, jobVars, producerVars, runVars, syncVars>>

-----------------------------------------------------------------------------
(* enqueueProductSync                                                      *)

Go(p, step) == at' = [at EXCEPT ![p] = step]

Leave(p) ==
    /\ Go(p, "idle")
    /\ asks' = [asks EXCEPT ![p] = "webhook"]
    /\ target' = [target EXCEPT ![p] = "base"]

HandleWebhook(p) ==
    /\ at[p] = "idle" /\ deliveries > 0
    /\ deliveries' = deliveries - 1
    /\ Go(p, "look")
    /\ UNCHANGED <<queueVars, content, edits, clicks, jobVars, asks, target, historyVars, runVars,
                   syncVars>>

SyncProductsNow(p) ==
    /\ at[p] = "idle" /\ clicks < MaxClicks
    /\ clicks' = clicks + 1
    /\ asks' = [asks EXCEPT ![p] = "manual"]
    /\ Go(p, "look")
    /\ click' = "unsent"
    /\ UNCHANGED <<queueVars, content, edits, deliveries, jobVars, target, historyVars, runVars,
                   hash, decathlon, crossed, faults>>

(* The request has looked at an id that it may go on to add. *)
Adding(p) == at[p] \in {"remove", "pending", "create", "add"}

(* The run of the job has read the product. *)
HasRead(j) == \E w \in Workers : cur[w] = j /\ pc[w] \notin {"idle", "fetch"}

(* clearFinishedJob reads the state of the job; a follow-up that runs is   *)
(* left as it is, and the request will take it for one still to come.      *)
Look(p) ==
    /\ at[p] = "look"
    /\ missed' = (missed \/ (target[p] = "next" /\ HasRead("next")))
    /\ Go(p, IF Ended(target[p]) THEN "remove" ELSE "pending")
    /\ clash' = (clash \/ \E q \in Producers : Adding(q) /\ target[q] = target[p])
    /\ UNCHANGED <<queueVars, shopVars, jobVars, asks, target, runVars, syncVars>>

(* ... and it removes a finished one by its id, whatever has become of it meanwhile.      *)
Remove(p) ==
    /\ at[p] = "remove"
    /\ job[target[p]] # "active"
    /\ FreeJob(target[p])
    /\ fresh' = fresh \ {target[p]}
    /\ Go(p, "pending")
    /\ UNCHANGED <<shopVars, trigger, pendingRows, asks, target, historyVars, runVars, syncVars>>

(* An active job is locked and cannot be removed: the request fails, and   *)
(* Shopify delivers a webhook again.                                       *)
RemoveFails(p) ==
    /\ at[p] = "remove"
    /\ job[target[p]] = "active"
    /\ deliveries' = IF asks[p] = "webhook" THEN deliveries + 1 ELSE deliveries
    /\ click' = IF asks[p] = "manual" THEN "none" ELSE click
    /\ Leave(p)
    /\ UNCHANGED <<queueVars, content, edits, clicks, jobVars, historyVars, runVars, hash,
                   decathlon, crossed, faults>>

(* Faulty variant: the row is written before the id is looked up. *)
FreeOrNot(p) ==
    /\ at[p] = "pending"
    /\ Go(p, "create")
    /\ UNCHANGED <<queueVars, shopVars, jobVars, asks, target, historyVars, runVars, syncVars>>

Free(p) ==
    /\ at[p] = "pending"
    /\ ~Known(target[p])
    /\ Go(p, "create")
    /\ UNCHANGED <<queueVars, shopVars, jobVars, asks, target, historyVars, runVars, syncVars>>

BaseKnown(p) ==
    /\ at[p] = "pending" /\ target[p] = "base"
    /\ Known("base")
    /\ Go(p, "state")
    /\ UNCHANGED <<queueVars, shopVars, jobVars, asks, target, historyVars, runVars, syncVars>>

(* The request leaves its wish to a job that is there already. *)
Coalesce(p) ==
    click' = IF asks[p] = "manual" /\ click = "unsent" THEN "coalesced" ELSE click

(* One follow-up is queued already. *)
NextKnown(p) ==
    /\ at[p] = "pending" /\ target[p] = "next"
    /\ Known("next")
    /\ Coalesce(p)
    /\ Leave(p)
    /\ UNCHANGED <<queueVars, shopVars, jobVars, historyVars, runVars, hash, decathlon, crossed, faults>>

(* Not active: "that run hasn't read the product yet". *)
StillPending(p) ==
    /\ at[p] = "state"
    /\ job["base"] # "active"
    /\ missed' = (missed \/ Ended("base"))
    /\ Coalesce(p)
    /\ Leave(p)
    /\ UNCHANGED <<queueVars, shopVars, jobVars, clash, runVars, hash, decathlon, crossed, faults>>

(* Faulty variant: an edit during a run is left to that run. *)
LeftToTheRun(p) ==
    /\ at[p] = "state"
    /\ job["base"] = "active"
    /\ Leave(p)
    /\ UNCHANGED <<queueVars, shopVars, jobVars, historyVars, runVars, syncVars>>

(* Active: it may have read the product before this edit. *)
FollowUp(p) ==
    /\ at[p] = "state"
    /\ job["base"] = "active"
    /\ target' = [target EXCEPT ![p] = "next"]
    /\ Go(p, "look")
    /\ UNCHANGED <<queueVars, shopVars, jobVars, asks, historyVars, runVars, syncVars>>

CreateRow(p) ==
    /\ at[p] = "create"
    /\ pendingRows' = pendingRows + 1
    /\ Go(p, "add")
    /\ UNCHANGED <<queueVars, shopVars, trigger, fresh, asks, target, historyVars, runVars,
                   syncVars>>

Add(p) ==
    /\ at[p] = "add"
    /\ AddJob(target[p])
    /\ IF Known(target[p]) THEN UNCHANGED <<trigger, fresh>>
       ELSE /\ trigger' = [trigger EXCEPT ![target[p]] = asks[p]]
            /\ fresh' = fresh \cup {target[p]}
    /\ Leave(p)
    /\ UNCHANGED <<shopVars, pendingRows, historyVars, runVars, syncVars>>

-----------------------------------------------------------------------------
(* syncProduct                                                             *)

GoTo(w, place) == pc' = [pc EXCEPT ![w] = place]

EndRun(w) ==
    /\ GoTo(w, "idle")
    /\ cur' = [cur EXCEPT ![w] = "base"]
    /\ seen' = [seen EXCEPT ![w] = NoVersion]

Start(w, j) ==
    /\ pc[w] = "idle"
    /\ TakeJob(w, j)
    /\ cur' = [cur EXCEPT ![w] = j]
    /\ GoTo(w, "fetch")
    /\ fresh' = fresh \ {j}
    /\ pendingRows' = IF j \in fresh THEN pendingRows - 1 ELSE pendingRows
    /\ UNCHANGED <<shopVars, trigger, producerVars, seen, syncVars>>

(* Between reading the product and storing its hash. *)
Underway(w) == pc[w] \in {"compare", "submit", "store"}

(* prepareProductImport reads the product from Shopify ... *)
Fetch(w) ==
    /\ pc[w] = "fetch"
    /\ seen' = [seen EXCEPT ![w] = content]
    /\ GoTo(w, "compare")
    /\ crossed' = (crossed \/ \E v \in Workers : Underway(v) /\ seen[v] # content)
    /\ UNCHANGED <<queueVars, shopVars, jobVars, producerVars, cur, hash, decathlon, click, faults>>

(* Faulty variant: the hash decides for every sync. *)
CompareAlways(w) ==
    /\ pc[w] = "compare"
    /\ GoTo(w, IF hash = seen[w] THEN "skip" ELSE "submit")
    /\ UNCHANGED <<queueVars, shopVars, jobVars, producerVars, cur, seen, syncVars>>

(* ... and then the mapping, whose hash decides for a webhook sync.        *)
Compare(w) ==
    /\ pc[w] = "compare"
    /\ GoTo(w, IF trigger[cur[w]] = "webhook" /\ hash = seen[w] THEN "skip" ELSE "submit")
    /\ UNCHANGED <<queueVars, shopVars, jobVars, producerVars, cur, seen, syncVars>>

Skip(w) ==
    /\ pc[w] = "skip"
    /\ GoTo(w, "done")
    /\ UNCHANGED <<queueVars, shopVars, jobVars, producerVars, cur, seen, syncVars>>

(* P41 accepts the import. *)
Submit(w) ==
    /\ pc[w] = "submit"
    /\ decathlon' = seen[w]
    /\ click' = "none"
    /\ GoTo(w, "store")
    /\ UNCHANGED <<queueVars, shopVars, jobVars, producerVars, cur, seen, hash, crossed, faults>>

(* Faulty variant: the hash of the product as it is now. *)
StoreCurrent(w) ==
    /\ pc[w] = "store"
    /\ hash' = content
    /\ GoTo(w, "done")
    /\ UNCHANGED <<queueVars, shopVars, jobVars, producerVars, cur, seen, decathlon, click,
                   crossed, faults>>

(* upsertForVariant *)
Store(w) ==
    /\ pc[w] = "store"
    /\ hash' = seen[w]
    /\ GoTo(w, "done")
    /\ UNCHANGED <<queueVars, shopVars, jobVars, producerVars, cur, seen, decathlon, click,
                   crossed, faults>>

Complete(w) ==
    /\ pc[w] = "done"
    /\ CompleteJob(w, cur[w])
    /\ EndRun(w)
    /\ UNCHANGED <<shopVars, jobVars, producerVars, syncVars>>

(* Any call throws; P41 may have taken the import all the same. *)
Throw(w) ==
    /\ pc[w] \notin {"idle", "done"} /\ faults < MaxFaults
    /\ faults' = faults + 1
    /\ \/ decathlon' = decathlon
       \/ pc[w] = "submit" /\ decathlon' = seen[w]
    /\ FailJob(w, cur[w])
    /\ EndRun(w)
    /\ UNCHANGED <<shopVars, jobVars, producerVars, hash, click, crossed>>

Crash(w) ==
    /\ pc[w] # "idle" /\ faults < MaxFaults
    /\ faults' = faults + 1
    /\ EndRun(w)
    /\ UNCHANGED <<queueVars, shopVars, jobVars, producerVars, hash, decathlon, click, crossed>>

Running(w, j) == pc[w] # "idle" /\ cur[w] = j

RecoverStalled(j) ==
    /\ ~(holder[j] \in Workers /\ Running(holder[j], j))
    /\ StallJob(j)
    /\ UNCHANGED <<shopVars, jobVars, producerVars, runVars, syncVars>>

-----------------------------------------------------------------------------
Produce(p) ==
    \/ HandleWebhook(p)
    \/ SyncProductsNow(p)
    \/ Look(p)
    \/ Remove(p)
    \/ RemoveFails(p)
    \/ Free(p)
    \/ BaseKnown(p)
    \/ NextKnown(p)
    \/ StillPending(p)
    \/ FollowUp(p)
    \/ CreateRow(p)
    \/ Add(p)

Run(w) ==
    \/ \E j \in Jobs : Start(w, j)
    \/ Fetch(w)
    \/ Compare(w)
    \/ Skip(w)
    \/ Submit(w)
    \/ Store(w)
    \/ Complete(w)

Next ==
    \/ Edit
    \/ \E p \in Producers : Produce(p)
    \/ \E w \in Workers : Run(w) \/ Throw(w) \/ Crash(w)
    \/ \E j \in Jobs : RecoverStalled(j)

Spec == Init /\ [][Next]_vars

-----------------------------------------------------------------------------
(* Properties                                                              *)

(* Every edit has been handled and every job has ended. *)
Quiet ==
    /\ deliveries = 0
    /\ \A p \in Producers : at[p] = "idle"
    /\ \A w \in Workers : pc[w] = "idle"
    /\ \A j \in Jobs : job[j] \notin {"waiting", "active"}

(* "Already running: it may have read the product before this edit, so     *)
(* queue ONE follow-up" (queue-producer.service.ts:101): without failures, *)
(* once all is quiet, Decathlon has been sent the last edit, although five *)
(* runs go side by side (worker/src/index.ts:125), the follow-up beside    *)
(* its run among them.  Two exceptions: the edit was left to a run that    *)
(* did not see it (missed: one that had just ended, or a follow-up that    *)
(* had read the product), or two runs overlapped that had read different   *)
(* contents (crossed), whose requests may go out in either order.          *)
FollowUpArrives ==
    Quiet /\ edits > 0 /\ faults = 0 /\ ~missed /\ ~crossed => decathlon = content

(* A run skips a product as unchanged only when Decathlon was last sent    *)
(* what the run has read (schema.prisma:158-160), as long as no run failed *)
(* and no two runs overlapped that had read different contents: then one's *)
(* hash may stand beside the other's row.                                  *)
SkippedIsCurrent == [][\A w \in Workers :
    pc[w] = "compare" /\ pc'[w] = "skip" /\ faults = 0 /\ ~crossed => decathlon = seen[w]]_vars

(* "Returning before the SyncJob row is written avoids a row BullMQ would  *)
(* never run" (queue-producer.service.ts:99): every PENDING row belongs to *)
(* a job that will be run, or to one that is about to be added, unless two *)
(* requests were looking at one id at the same time.                       *)
EveryRowRuns ==
    clash \/ pendingRows = Cardinality(fresh) + Cardinality({p \in Producers : at[p] = "add"})

(* "'Sync products now' ... always sends" (queues.ts:24-25): once all is   *)
(* quiet and nothing failed, something was submitted after the last click, *)
(* unless the click was left to a job that was queued already, or another  *)
(* request was looking at the same id.                                     *)
ManualSends == Quiet /\ faults = 0 /\ ~clash => click # "unsent"

=============================================================================
