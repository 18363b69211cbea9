----------------------------- MODULE ImportSync -----------------------------
(***************************************************************************)
(* Publishing one Shopify product on Decathlon: SyncEngine.syncProduct,    *)
(* syncOffers, pollImportStatus and failStalledImport                      *)
(* (packages/sync/src/engine.ts) with the chaining that                    *)
(* worker/src/index.ts puts around them.                                   *)
(*                                                                         *)
(* P41 (product) and OF01/OF24 (offer) only accept an import.  Its SyncLog *)
(* row stays PROCESSING until a poll job reads the result: each poll that  *)
(* finds the import still running adds the next one, a published product   *)
(* adds an offer-sync, and after MaxPolls the import is given up.          *)
(*                                                                         *)
(* Every job is a record [queue, of, n]: the n-th poll of import number of *)
(* for the polls, any pair of numbers for the others.                      *)
(***************************************************************************)
EXTENDS BullQueue, Sequences, FiniteSets

CONSTANTS
    ProductJobs,  \* product-sync jobs added by the producer
    Requeues,     \* product-sync jobs added by retry-failed-sync
    OfferJob,     \* the offer-sync job of this product's variants
    OriginalOf,   \* the job whose payload a requeue carries
    WebhookJobs,  \* product jobs with trigger "webhook"
    Variants,     \* the product's variants
    MaxImports,   \* bound: imports Decathlon accepts
    MaxPolls,     \* MAX_IMPORT_POLL_ATTEMPTS
    StockMoves,   \* whether inventory webhooks come in for the variants
    Faults,       \* the failures considered: "throw", "crash", "lock"
    MaxFaults     \* bound: failures of a behaviour

Imports == 1..MaxImports
PollJobs == [queue : {"poll"}, of : Imports, n : 1..MaxPolls]
Poll(i, n) == [queue |-> "poll", of |-> i, n |-> n]

ASSUME ImportAssumption ==
    /\ MaxImports \in Nat /\ MaxPolls \in Nat \ {0}
    /\ Jobs = ProductJobs \cup Requeues \cup {OfferJob} \cup PollJobs
    /\ PollJobs \cap (ProductJobs \cup Requeues \cup {OfferJob}) = {}
    /\ OriginalOf \in [Requeues -> ProductJobs]
    /\ WebhookJobs \subseteq ProductJobs
    /\ StockMoves \in BOOLEAN
    /\ Faults \subseteq {"throw", "crash", "lock"}
    /\ MaxFaults \in Nat

VARIABLES
    mapping,    \* ProductMapping.status of each variant
    hashed,     \* variants whose row holds the hash of the present content
    linked,     \* variants whose row holds a Decathlon product id
    syncJob,    \* SyncJob.status of each job of the producer
    log,        \* the SyncLog rows of submitted imports, oldest first
    offerCorr,  \* the import whose correlation id the offer job carries
    imports,    \* the imports Decathlon accepted: what was sent, and by whom
    stage1,     \* per import and variant: the transformation's result
    stage2,     \* per product import and variant: the integration's result
    faults,     \* failures so far
    severed,    \* whether one of them took a job away from its run
    handling,   \* where the "failed" handler of each poll job is
    target,     \* the row it found
    pc,         \* where each processor is
    cur,        \* the job it runs
    imp,        \* the import it is about (0: none yet)
    left,       \* variants it has still to write
    subs,       \* variants it submits or submitted
    good,       \* whether the status it read says the import succeeded
    seen,       \* variants whose integration that status counted
    bad,        \* variants the reports it read call failed
    at,         \* the variant it is about to mark, as a set
    ided,       \* that variant, if the mapping it read had a Decathlon id
    found       \* the row it found to resolve (0: none)

products == <<mapping, hashed, linked>>
rowVars == <<products, syncJob, log>>
decathlonVars == <<imports, stage1, stage2>>
failures == <<faults, severed>>
handlers == <<handling, target>>
outside == <<offerCorr, decathlonVars, failures, handlers>>
reading == <<good, seen, bad>>
marking == <<at, ided>>
registers == <<cur, imp, left, subs, reading, marking, found>>
runVars == <<pc, registers>>
vars == <<queueVars, rowVars, outside, runVars>>

Status == {"NONE", "PENDING", "PROCESSING", "SUCCESS", "FAILED", "RETRYING", "SKIPPED"}
MappingStatus == {"NONE", "PENDING", "SYNCED", "FAILED"}
Places == {"idle", "prepare", "submit", "map", "log", "poll", "refresh", "done",
           "status", "report", "mark", "update", "find", "resolve", "finish",
           "after", "repoll"}
HandlerPlaces == {"none", "find", "resolve", "finish"}

\* Of an offer job: the id an unchanged product sync drew, or no id at all.
Unchanged == 0
NoCorrelation == MaxImports + 1

\* A SyncLog row: the import it was written for, its correlation id and
\* type, what it says, the import whose result it reports, and the variants
\* that result counted as integrated or refused.
LogRow == [of : Imports, corr : 0..MaxImports, kind : {"product", "offer"},
           says : {"PROCESSING", "SUCCESS", "FAILED"}, about : 0..MaxImports,
           seen : SUBSET Variants]

TypeOK ==
    /\ QueueTypeOK
    /\ mapping \in [Variants -> MappingStatus]
    /\ hashed \subseteq Variants
    /\ linked \subseteq Variants
    /\ syncJob \in [ProductJobs -> Status]
    /\ log \in Seq(LogRow)
    /\ offerCorr \in 0..NoCorrelation
    /\ Len(imports) <= MaxImports
    /\ stage1 \in [Imports -> [Variants -> {"none", "running", "ok", "error"}]]
    /\ stage2 \in [Imports -> [Variants -> {"none", "published", "refused"}]]
    /\ faults \in 0..MaxFaults
    /\ severed \in BOOLEAN
    /\ handling \in [PollJobs -> HandlerPlaces]
    /\ target \in [PollJobs -> 0..Len(log)]
    /\ pc \in [Workers -> Places]
    /\ cur \in [Workers -> Jobs]
    /\ imp \in [Workers -> 0..MaxImports]
    /\ left \in [Workers -> SUBSET Variants]
    /\ subs \in [Workers -> SUBSET Variants]
    /\ good \in [Workers -> BOOLEAN]
    /\ seen \in [Workers -> SUBSET Variants]
    /\ bad \in [Workers -> SUBSET Variants]
    /\ at \in [Workers -> SUBSET Variants]
    /\ ided \in [Workers -> SUBSET Variants]
    /\ found \in [Workers -> 0..Len(log)]

Init ==
    /\ QueueInit
    /\ mapping = [v \in Variants |-> "NONE"]
    /\ hashed = {} /\ linked = {}
    /\ syncJob = [j \in ProductJobs |-> "NONE"]
    /\ log = <<>>
    /\ offerCorr = NoCorrelation
    /\ imports = <<>>
    /\ stage1 = [i \in Imports |-> [v \in Variants |-> "none"]]
    /\ stage2 = [i \in Imports |-> [v \in Variants |-> "none"]]
    /\ faults = 0 /\ severed = FALSE
    /\ handling = [j \in PollJobs |-> "none"]
    /\ target = [j \in PollJobs |-> 0]
    /\ pc = [w \in Workers |-> "idle"]
    /\ cur = [w \in Workers |-> OfferJob]
    /\ imp = [w \in Workers |-> 0]
    /\ left = [w \in Workers |-> {}]
    /\ subs = [w \in Workers |-> {}]
    /\ good = [w \in Workers |-> FALSE]
    /\ seen = [w \in Workers |-> {}]
    /\ bad = [w \in Workers |-> {}]
    /\ at = [w \in Workers |-> {}]
    /\ ided = [w \in Workers |-> {}]
    /\ found = [w \in Workers |-> 0]

-----------------------------------------------------------------------------
(* Producers                                                               *)

(* The producer writes a SyncJob and adds the job; how it coalesces jobs   *)
(* of one product is the subject of ProductQueue.                          *)
EnqueueProductSync(j) ==
    /\ j \in ProductJobs /\ ~Known(j)
    /\ syncJob' = [syncJob EXCEPT ![j] = "PENDING"]
    /\ AddJob(j)
    /\ UNCHANGED <<products, log, outside, runVars>>

(* retry-failed-sync: the stored payload, trigger included, goes back. *)
RetryFailedSync(r) ==
    /\ r \in Requeues /\ ~Known(r)
    /\ syncJob[OriginalOf[r]] # "NONE"
    /\ syncJob' = [syncJob EXCEPT ![OriginalOf[r]] = "RETRYING"]
    /\ AddJob(r)
    /\ UNCHANGED <<products, log, outside, runVars>>

(* An inventory webhook: a finished job under the id is removed first.  The *)
(* payload has no correlation id.  (Considered while the bound on imports  *)
(* leaves the offer-sync something to submit.)                             *)
EnqueueOfferSync ==
    /\ StockMoves /\ Len(imports) < MaxImports
    /\ ~Known(OfferJob) \/ Ended(OfferJob)
    /\ RenewJob(OfferJob)
    /\ offerCorr' = NoCorrelation
    /\ UNCHANGED <<rowVars, decathlonVars, failures, handlers, runVars>>

-----------------------------------------------------------------------------
(* The processor (registerWorker)                                          *)

GoTo(w, place) == pc' = [pc EXCEPT ![w] = place]

EndRun(w) ==
    /\ GoTo(w, "idle")
    /\ cur' = [cur EXCEPT ![w] = OfferJob]
    /\ imp' = [imp EXCEPT ![w] = 0]
    /\ left' = [left EXCEPT ![w] = {}]
    /\ subs' = [subs EXCEPT ![w] = {}]
    /\ good' = [good EXCEPT ![w] = FALSE]
    /\ seen' = [seen EXCEPT ![w] = {}]
    /\ bad' = [bad EXCEPT ![w] = {}]
    /\ at' = [at EXCEPT ![w] = {}]
    /\ ided' = [ided EXCEPT ![w] = {}]
    /\ found' = [found EXCEPT ![w] = 0]

IsProduct(j) == j \in ProductJobs \cup Requeues
IsPoll(j) == j \in PollJobs

(* A requeue has no SyncJob id in its payload: its run makes a row of its  *)
(* own, and the row of the original is left as it is.                      *)
Report(j, s) == syncJob' = IF j \in ProductJobs THEN [syncJob EXCEPT ![j] = s] ELSE syncJob

Start(w, j) ==
    /\ pc[w] = "idle"
    /\ TakeJob(w, j)
    /\ cur' = [cur EXCEPT ![w] = j]
    /\ imp' = [imp EXCEPT ![w] = IF IsPoll(j) THEN j.of ELSE 0]
    /\ GoTo(w, IF IsPoll(j) THEN "status" ELSE "prepare")
    /\ Report(j, "PROCESSING")
    /\ UNCHANGED <<products, log, outside, left, subs, reading, marking, found>>

(* Poll jobs are added with removeOnComplete, the others are kept. *)
Complete(w) ==
    /\ pc[w] = "done"
    /\ IF IsPoll(cur[w]) THEN RemoveJob(w, cur[w]) ELSE CompleteJob(w, cur[w])
    /\ EndRun(w)
    /\ UNCHANGED <<rowVars, outside>>

(* One more failure of the kind given happens. *)
Fault(kind) ==
    /\ kind \in Faults /\ faults < MaxFaults
    /\ faults' = faults + 1
    /\ severed' = (severed \/ kind # "throw")

(* The run ends in an exception.  A poll job that has no attempt left is   *)
(* handed to the "failed" handler.                                         *)
GiveBack(w) ==
    /\ FailJob(w, cur[w])
    /\ handling' = IF IsPoll(cur[w]) /\ Holds(w, cur[w]) /\ job'[cur[w]] = "failed"
                     THEN [handling EXCEPT ![cur[w]] = "find"] ELSE handling
    /\ EndRun(w)
    /\ UNCHANGED target

(* A database, Redis or Shopify call outside the engine's try blocks fails. *)
Throw(w) ==
    /\ Fault("throw") /\ pc[w] \notin {"idle", "done"}
    /\ GiveBack(w)
    /\ UNCHANGED <<rowVars, offerCorr, decathlonVars>>

-----------------------------------------------------------------------------
(* syncProduct and syncOffers                                              *)

Payload(j) == IF j \in Requeues THEN OriginalOf[j] ELSE j

(* Variants whose row changed since the last import; a manual sync sends all. *)
Changed(j) == IF Payload(j) \in WebhookJobs THEN Variants \ hashed ELSE Variants

Preparing(w, product) == pc[w] = "prepare" /\ IsProduct(cur[w]) = product

(* Shopify or the catalog cannot be reached: reported, and tried again. *)
PrepareThrows(w) ==
    /\ Fault("throw")
    /\ Preparing(w, TRUE)
    /\ Report(cur[w], "FAILED")
    /\ GiveBack(w)
    /\ UNCHANGED <<products, log, offerCorr, decathlonVars>>

(* The product is a draft (SKIPPED), or its data cannot be sent (FAILED). *)
NotImportable(w) ==
    /\ Preparing(w, TRUE)
    /\ \E s \in {"SKIPPED", "FAILED"} : Report(cur[w], s)
    /\ GoTo(w, "done")
    /\ UNCHANGED <<queueVars, products, log, outside, registers>>

(* Nothing to import: only price and stock of the live variants follow. *)
NothingChanged(w) ==
    /\ Preparing(w, TRUE)
    /\ Changed(cur[w]) = {}
    /\ Report(cur[w], "SKIPPED")
    /\ GoTo(w, IF linked = {} THEN "done" ELSE "refresh")
    /\ UNCHANGED <<queueVars, products, log, outside, registers>>

RefreshOffers(w) ==
    /\ pc[w] = "refresh"
    /\ AddJob(OfferJob)
    /\ offerCorr' = IF Known(OfferJob) THEN offerCorr ELSE Unchanged
    /\ GoTo(w, "done")
    /\ UNCHANGED <<rowVars, decathlonVars, failures, handlers, registers>>

Ready(w) ==
    /\ Preparing(w, TRUE)
    /\ Changed(cur[w]) # {}
    /\ subs' = [subs EXCEPT ![w] = Changed(cur[w])]
    /\ GoTo(w, "submit")
    /\ UNCHANGED <<queueVars, rowVars, outside, cur, imp, left, reading, marking, found>>

(* syncOffers: no variant is known to Decathlon, or none could be read back. *)
NoOffers(w) ==
    /\ Preparing(w, FALSE)
    /\ GoTo(w, "done")
    /\ UNCHANGED <<queueVars, rowVars, outside, registers>>

OffersReady(w) ==
    /\ Preparing(w, FALSE)
    /\ linked # {}
    /\ subs' = [subs EXCEPT ![w] = linked]
    /\ GoTo(w, "submit")
    /\ UNCHANGED <<queueVars, rowVars, outside, cur, imp, left, reading, marking, found>>

Kind(j) == IF IsProduct(j) THEN "product" ELSE "offer"

(* A product payload carries no correlation id, so each run draws one; an  *)
(* offer job that was chained has its own in each of its runs.             *)
Correlation(j, i) == IF IsProduct(j) \/ offerCorr = NoCorrelation THEN i ELSE offerCorr

(* Decathlon accepts the import and returns its id. *)
Submit(w) ==
    /\ pc[w] = "submit"
    /\ Len(imports) < MaxImports
    /\ LET i == Len(imports) + 1 IN
         /\ imports' = Append(imports, [kind |-> Kind(cur[w]), variants |-> subs[w],
                                        corr |-> Correlation(cur[w], i), by |-> cur[w]])
         /\ stage1' = [stage1 EXCEPT ![i] =
                          [v \in Variants |-> IF v \in subs[w] THEN "running" ELSE "none"]]
         /\ imp' = [imp EXCEPT ![w] = i]
    /\ left' = [left EXCEPT ![w] = IF IsProduct(cur[w]) THEN subs[w] ELSE {}]
    /\ GoTo(w, IF IsProduct(cur[w]) THEN "map" ELSE "log")
    /\ UNCHANGED <<queueVars, rowVars, offerCorr, stage2, failures, handlers,
                   cur, subs, reading, marking, found>>

(* The request fails: reported, an offer import also on its mappings, and  *)
(* tried again.  (What Decathlon made of a lost request is never asked.)   *)
SubmitFails(w) ==
    /\ Fault("throw")
    /\ pc[w] = "submit"
    /\ mapping' = IF IsProduct(cur[w]) THEN mapping
                  ELSE [v \in Variants |-> IF v \in subs[w] THEN "FAILED" ELSE mapping[v]]
    /\ Report(cur[w], "FAILED")
    /\ GiveBack(w)
    /\ UNCHANGED <<hashed, linked, log, offerCorr, decathlonVars>>

(* The answer has no import id: reported, and not tried again. *)
NoImportId(w) ==
    /\ pc[w] = "submit"
    /\ Report(cur[w], "FAILED")
    /\ GoTo(w, "done")
    /\ UNCHANGED <<queueVars, products, log, outside, registers>>

(* upsertForVariant, one variant after the other.  A listing found by P31  *)
(* links a row that is created.                                            *)
UpsertMapping(w) ==
    /\ pc[w] = "map"
    /\ \E v \in left[w] :
         /\ mapping' = [mapping EXCEPT ![v] = IF @ = "NONE" THEN "PENDING" ELSE @]
         /\ hashed' = hashed \cup {v}
         /\ \/ linked' = linked
            \/ mapping[v] = "NONE" /\ linked' = linked \cup {v}
         /\ left' = [left EXCEPT ![w] = @ \ {v}]
         /\ GoTo(w, IF left[w] = {v} THEN "log" ELSE "map")
    /\ UNCHANGED <<queueVars, syncJob, log, outside, cur, imp, subs, reading,
                   marking, found>>

WriteLog(w) ==
    /\ pc[w] = "log"
    /\ log' = Append(log, [of |-> imp[w], corr |-> imports[imp[w]].corr,
                           kind |-> Kind(cur[w]), says |-> "PROCESSING", about |-> 0,
                           seen |-> {}])
    /\ GoTo(w, "poll")
    /\ UNCHANGED <<queueVars, products, syncJob, outside, registers>>

EnqueueFirstPoll(w) ==
    /\ pc[w] = "poll"
    /\ AddJob(Poll(imp[w], 1))
    /\ GoTo(w, "done")
    /\ UNCHANGED <<rowVars, outside, registers>>

-----------------------------------------------------------------------------
(* Decathlon works on an import                                            *)

Sent(i) == imports[i].variants

Transform(i) ==
    /\ i \in DOMAIN imports
    /\ \A v \in Sent(i) : stage1[i][v] = "running"
    /\ \E ok \in SUBSET Sent(i) :
         stage1' = [stage1 EXCEPT ![i] =
             [v \in Variants |-> IF v \notin Sent(i) THEN "none"
                                 ELSE IF v \in ok THEN "ok" ELSE "error"]]
    /\ UNCHANGED <<queueVars, rowVars, offerCorr, imports, stage2, failures,
                   handlers, runVars>>

Clean(i) == {v \in Sent(i) : stage1[i][v] = "ok"}

(* The integration takes the rows that transformed cleanly, some sooner    *)
(* than others: its counters may grow from one poll to the next.           *)
Integrate(i) ==
    /\ i \in DOMAIN imports /\ imports[i].kind = "product"
    /\ \E now \in SUBSET {v \in Clean(i) : stage2[i][v] = "none"} \ {{}} :
       \E ok \in SUBSET now :
         stage2' = [stage2 EXCEPT ![i] =
             [v \in Variants |-> IF v \notin now THEN stage2[i][v]
                                 ELSE IF v \in ok THEN "published" ELSE "refused"]]
    /\ UNCHANGED <<queueVars, rowVars, offerCorr, imports, stage1, failures,
                   handlers, runVars>>

-----------------------------------------------------------------------------
(* pollImportStatus                                                        *)

Transformed(i) == \A v \in Sent(i) : stage1[i][v] # "running"
TransformOk(i) == Clean(i) = Sent(i)
Integrated(i) == {v \in Sent(i) : stage2[i][v] # "none"}
Refused(i) == {v \in Sent(i) : stage2[i][v] = "refused"}

StillRunning(i) ==
    \/ ~Transformed(i)
    \/ imports[i].kind = "product" /\ TransformOk(i) /\ Integrated(i) = {}

(* Faulty variant: the transformation alone decides. *)
TransformIsEnough(i) == TransformOk(i)

OverallOk(i) ==
    IF imports[i].kind = "offer" THEN TransformOk(i)
    ELSE TransformOk(i) /\ Integrated(i) # {} /\ Refused(i) = {}

ReadPending(w) ==
    /\ pc[w] = "status" /\ StillRunning(imp[w])
    /\ GoTo(w, "repoll")
    /\ UNCHANGED <<queueVars, rowVars, outside, registers>>

ReadTerminal(w) ==
    /\ pc[w] = "status" /\ ~StillRunning(imp[w])
    /\ good' = [good EXCEPT ![w] = OverallOk(imp[w])]
    /\ seen' = [seen EXCEPT ![w] = Integrated(imp[w])]
    /\ GoTo(w, "report")
    /\ UNCHANGED <<queueVars, rowVars, outside, cur, imp, left, subs, bad, marking, found>>

(* Those of the reports that the status names and that can be fetched. *)
ReadReports(w) ==
    /\ pc[w] = "report"
    /\ \E rejected \in SUBSET {Sent(imp[w]) \ Clean(imp[w]), Refused(imp[w])} :
         bad' = [bad EXCEPT ![w] = UNION rejected]
    /\ left' = [left EXCEPT ![w] = Sent(imp[w])]
    /\ GoTo(w, "mark")
    /\ UNCHANGED <<queueVars, rowVars, outside, cur, imp, subs, good, seen, marking, found>>

(* Faulty variant: a report that could not be fetched names no failing row. *)
RowOkUnlessNamed(w, v) == good[w] \/ v \notin bad[w]

(* Per variant: a report that names failing rows is trusted for the others. *)
RowOk(w, v) == good[w] \/ (bad[w] # {} /\ v \notin bad[w])

(* findByVariant of the next variant. *)
FindVariant(w) ==
    /\ pc[w] = "mark"
    /\ \E v \in left[w] :
         /\ at' = [at EXCEPT ![w] = {v}]
         /\ ided' = [ided EXCEPT ![w] = {v} \cap linked]
         /\ left' = [left EXCEPT ![w] = @ \ {v}]
    /\ GoTo(w, "update")
    /\ UNCHANGED <<queueVars, rowVars, outside, cur, imp, subs, reading, found>>

(* markSynced writes back the product id that was read, or one that a      *)
(* product report gives; markFailed leaves the id alone.                   *)
MarkVariant(w) ==
    /\ pc[w] = "update"
    /\ \E v \in at[w] :
         /\ mapping' = [mapping EXCEPT ![v] = IF RowOk(w, v) THEN "SYNCED" ELSE "FAILED"]
         /\ \/ ~RowOk(w, v) /\ linked' = linked
            \/ RowOk(w, v) /\ linked' = (linked \ {v}) \cup ided[w]
            \/ RowOk(w, v) /\ imports[imp[w]].kind = "product" /\ linked' = linked \cup {v}
    /\ at' = [at EXCEPT ![w] = {}]
    /\ ided' = [ided EXCEPT ![w] = {}]
    /\ GoTo(w, IF left[w] = {} THEN "find" ELSE "mark")
    /\ UNCHANGED <<queueVars, hashed, syncJob, log, outside, cur, imp, left, subs,
                   reading, found>>

\* resolvePending looks for rows of the import's correlation id and type.
Matches(row, i) == row.corr = imports[i].corr /\ row.kind = imports[i].kind

(* Faulty variants: any row of the type, or one that is resolved already. *)
OpenOfType(i) ==
    {r \in DOMAIN log : log[r].says = "PROCESSING" /\ log[r].kind = imports[i].kind}
OpenOrClosed(i) == {r \in DOMAIN log : Matches(log[r], i)}

Open(i) == {r \in DOMAIN log : log[r].says = "PROCESSING" /\ Matches(log[r], i)}

(* What resolvePending finds: the newest open row, if there is any. *)
Pending(i) ==
    IF Open(i) = {} THEN 0
    ELSE CHOOSE r \in Open(i) : \A q \in Open(i) : q <= r

(* What it then writes under the id of that row, whatever the row says by  *)
(* now.  Without a row one is appended (not kept here, only the rows of    *)
(* submitted imports are).                                                 *)
Written(r, i, s, integrated) ==
    IF r = 0 THEN log
    ELSE [log EXCEPT ![r] = [@ EXCEPT !.says = s, !.about = i, !.seen = integrated]]

Outcome(w) == IF good[w] THEN "SUCCESS" ELSE "FAILED"

FindPending(w) ==
    /\ pc[w] = "find"
    /\ found' = [found EXCEPT ![w] = Pending(imp[w])]
    /\ GoTo(w, "resolve")
    /\ UNCHANGED <<queueVars, rowVars, outside, cur, imp, left, subs, reading, marking>>

ResolveLog(w) ==
    /\ pc[w] = "resolve"
    /\ log' = Written(found[w], imp[w], Outcome(w), seen[w])
    /\ found' = [found EXCEPT ![w] = 0]
    /\ GoTo(w, "finish")
    /\ UNCHANGED <<queueVars, products, syncJob, outside, cur, imp, left, subs,
                   reading, marking>>

Publishes(w) == good[w] /\ imports[imp[w]].kind = "product"

(* syncJobs.finish; a published product is then followed by its offers. *)
FinishSyncJob(w) ==
    /\ pc[w] = "finish"
    /\ Report(imports[imp[w]].by, Outcome(w))
    /\ GoTo(w, IF Publishes(w) THEN "after" ELSE "done")
    /\ UNCHANGED <<queueVars, products, log, outside, registers>>

ChainOffers(w) ==
    /\ pc[w] = "after"
    /\ AddJob(OfferJob)
    /\ offerCorr' = IF Known(OfferJob) THEN offerCorr ELSE imports[imp[w]].corr
    /\ GoTo(w, "done")
    /\ UNCHANGED <<rowVars, decathlonVars, failures, handlers, registers>>

(* Faulty variant: the next poll under the id of the running one, dropped. *)
RepollSameId(w) ==
    /\ pc[w] = "repoll" /\ cur[w].n < MaxPolls
    /\ AddJob(cur[w])
    /\ GoTo(w, "done")
    /\ UNCHANGED <<rowVars, outside, registers>>

Repoll(w) ==
    /\ pc[w] = "repoll" /\ cur[w].n < MaxPolls
    /\ AddJob(Poll(imp[w], cur[w].n + 1))
    /\ GoTo(w, "done")
    /\ UNCHANGED <<rowVars, outside, registers>>

(* Faulty variant: the chain just ends. *)
GiveUpSilently(w) ==
    /\ pc[w] = "repoll" /\ cur[w].n = MaxPolls
    /\ GoTo(w, "done")
    /\ UNCHANGED <<queueVars, rowVars, outside, registers>>

(* failStalledImport after the last poll resolves and finishes as a       *)
(* failure, in the same steps as a result.                                 *)
GiveUp(w) ==
    /\ pc[w] = "repoll" /\ cur[w].n = MaxPolls
    /\ GoTo(w, "find")
    /\ UNCHANGED <<queueVars, rowVars, outside, registers>>

-----------------------------------------------------------------------------
(* The "failed" handler of a poll job that has no attempt left: the same   *)
(* failStalledImport, beside the processors.                               *)

Handle(j, from, to) ==
    /\ handling[j] = from
    /\ handling' = [handling EXCEPT ![j] = to]

HandlerFinds(j) ==
    /\ Handle(j, "find", "resolve")
    /\ target' = [target EXCEPT ![j] = Pending(j.of)]
    /\ UNCHANGED <<queueVars, rowVars, offerCorr, decathlonVars, failures, runVars>>

HandlerResolves(j) ==
    /\ Handle(j, "resolve", "finish")
    /\ log' = Written(target[j], j.of, "FAILED", {})
    /\ target' = [target EXCEPT ![j] = 0]
    /\ UNCHANGED <<queueVars, products, syncJob, offerCorr, decathlonVars, failures, runVars>>

HandlerFinishes(j) ==
    /\ Handle(j, "finish", "none")
    /\ Report(imports[j.of].by, "FAILED")
    /\ UNCHANGED <<queueVars, products, log, offerCorr, decathlonVars, failures, target,
                   runVars>>

(* It fails itself, which is only logged, or dies with its process. *)
HandlerFails(j) ==
    /\ handling[j] # "none"
    /\ handling' = [handling EXCEPT ![j] = "none"]
    /\ target' = [target EXCEPT ![j] = 0]
    /\ UNCHANGED <<queueVars, rowVars, offerCorr, decathlonVars, failures, runVars>>

HandlerStep(j) == HandlerFinds(j) \/ HandlerResolves(j) \/ HandlerFinishes(j) \/ HandlerFails(j)

-----------------------------------------------------------------------------
(* Failures                                                                *)

Running(w, j) == pc[w] # "idle" /\ cur[w] = j

Crash(w) ==
    /\ Fault("crash") /\ pc[w] # "idle"
    /\ EndRun(w)
    /\ UNCHANGED <<queueVars, rowVars, offerCorr, decathlonVars, handlers>>

(* The job of a dead processor is found; a stalled-out job does reach the  *)
(* "failed" handler, which returns because attempts are left.              *)
RecoverStalled(j) ==
    /\ ~(holder[j] \in Workers /\ Running(holder[j], j))
    /\ StallJob(j)
    /\ UNCHANGED <<rowVars, outside, runVars>>

LoseLock(j) ==
    /\ Fault("lock")
    /\ holder[j] \in Workers /\ Running(holder[j], j)
    /\ StallJob(j)
    /\ UNCHANGED <<rowVars, offerCorr, decathlonVars, handlers, runVars>>

-----------------------------------------------------------------------------
SubmitStep(w) ==
    \/ PrepareThrows(w)
    \/ NothingChanged(w)
    \/ NotImportable(w)
    \/ RefreshOffers(w)
    \/ Ready(w)
    \/ NoOffers(w)
    \/ OffersReady(w)
    \/ Submit(w)
    \/ SubmitFails(w)
    \/ NoImportId(w)
    \/ UpsertMapping(w)
    \/ WriteLog(w)
    \/ EnqueueFirstPoll(w)

PollStep(w) ==
    \/ ReadPending(w)
    \/ ReadTerminal(w)
    \/ ReadReports(w)
    \/ FindVariant(w)
    \/ MarkVariant(w)
    \/ FindPending(w)
    \/ ResolveLog(w)
    \/ FinishSyncJob(w)
    \/ ChainOffers(w)
    \/ Repoll(w)
    \/ GiveUp(w)

Step(w) ==
    \/ \E j \in Jobs : Start(w, j)
    \/ SubmitStep(w)
    \/ PollStep(w)
    \/ Complete(w)

Next ==
    \/ \E j \in ProductJobs : EnqueueProductSync(j)
    \/ \E r \in Requeues : RetryFailedSync(r)
    \/ EnqueueOfferSync
    \/ \E w \in Workers : Step(w) \/ Throw(w) \/ Crash(w)
    \/ \E i \in Imports : Transform(i) \/ Integrate(i)
    \/ \E j \in PollJobs : HandlerStep(j)
    \/ \E j \in Jobs : RecoverStalled(j) \/ LoseLock(j)

Spec == Init /\ [][Next]_vars

(* Processors keep running what is queued; producers, Decathlon and the    *)
(* failures are under no obligation.                                       *)
FairSpec == Spec /\ \A w \in Workers : WF_vars(Step(w))

-----------------------------------------------------------------------------
(* Properties                                                              *)

Row(i) == {r \in DOMAIN log : log[r].of = i}
Waiting(i) == \E r \in Row(i) : log[r].says = "PROCESSING"

(* Somebody may still write the result of import i. *)
Attended(i) ==
    \/ \E w \in Workers : pc[w] # "idle" /\ imp[w] = i
    \/ \E j \in PollJobs : j.of = i /\ job[j] \in {"waiting", "active"}
    \/ \E j \in PollJobs : j.of = i /\ handling[j] # "none"
    \/ job[imports[i].by] \in {"waiting", "active"}

(* Job j threw, stalled, or was left behind by a dead processor.  An       *)
(* offer-sync that inventory webhooks renew does not remember it.          *)
Interrupted(j) ==
    \/ attempts[j] > 0 \/ stalls[j] > 0
    \/ job[j] = "active" /\ ~(holder[j] \in Workers /\ Running(holder[j], j))
    \/ j = OfferJob /\ StockMoves /\ faults > 0

(* Nobody can be expected to resolve the row of import i: its submission   *)
(* was interrupted, or one of its polls failed for good.                   *)
Abandoned(i) ==
    \/ Interrupted(imports[i].by)
    \/ \E j \in PollJobs : j.of = i /\ job[j] = "failed"

(* A row is stranded on PROCESSING only if its submission was interrupted, *)
(* or one of its polls failed for good: the poll chain never breaks off.   *)
StrandedHasCause ==
    \A i \in DOMAIN imports : Waiting(i) /\ ~Attended(i) => Abandoned(i)

(* A row that says SUCCESS is about an import all of whose variants        *)
(* Decathlon transformed, and of which it refused none of those whose      *)
(* integration the status had counted: that is one at least for products   *)
(* (engine.ts:561-577), all of them if the counters come at once.          *)
SuccessIsPublished ==
    \A r \in DOMAIN log :
        log[r].says = "SUCCESS" =>
            LET i == log[r].about IN
            /\ \A v \in Sent(i) : stage1[i][v] = "ok"
            /\ imports[i].kind = "product" =>
                   log[r].seen # {} /\ \A v \in log[r].seen : stage2[i][v] = "published"

(* The row of a product import reports that import, whatever other         *)
(* imports of the product are under way.                                   *)
ProductRowsTellTheirOwn ==
    \A r \in DOMAIN log :
        log[r].kind = "product" /\ log[r].says # "PROCESSING" => log[r].about = log[r].of

(* What a row says of a result changes again only after a failure took a  *)
(* job away from its run: resolvePending writes under the id it found      *)
(* without looking again, so it takes two runs, or a run and the "failed"  *)
(* handler, about one import at a time.  A call that fails, a retry, the   *)
(* give-up and the handler never bring that about by themselves.           *)
RewriteHasCause ==
    [][\A r \in DOMAIN log :
          log[r].says # "PROCESSING" /\ log'[r] # log[r] => severed]_vars

(* A variant is marked SYNCED only if Decathlon integrated its product or  *)
(* took its offer, or another variant of the import decided it: one that   *)
(* failed, for then the import may end at its first stage and a report     *)
(* that names that variant is trusted about this one, or one that was      *)
(* published before the integration counted this one (engine.ts:554-577,   *)
(* 632-645).  That no report could be read never passes for a success.     *)
SyncedHasCause ==
    \A v \in Variants :
        mapping[v] = "SYNCED" =>
            \E i \in DOMAIN imports :
                \/ stage2[i][v] = "published"
                \/ imports[i].kind = "offer" /\ stage1[i][v] = "ok"
                \/ v \in Sent(i) /\ \E u \in Sent(i) \ {v} :
                       \/ stage1[i][u] = "error" \/ stage2[i][u] = "refused"
                       \/ stage2[i][u] = "published" /\ stage1[i][v] = "ok"

(* Every row is resolved, even if Decathlon never finishes the import      *)
(* (queues.ts:111-113), unless a failure leaves it abandoned.              *)
RowsResolve ==
    \A i \in Imports :
        [](i \in DOMAIN imports /\ Waiting(i) => <>(~Waiting(i) \/ Abandoned(i)))

=============================================================================
