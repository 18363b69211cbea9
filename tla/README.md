# TLA+ specifications of the Shopify–Decathlon connector

The connector keeps a Shopify shop and a Decathlon marketplace account (a Mirakl
instance) in step: it publishes products and offers, imports orders, and pushes
shipments, refunds and cancellations back.  Most of its logic runs in BullMQ jobs
that call two remote systems and write PostgreSQL rows between the calls, without
transactions around them; the embedded app is a set of pages whose requests and
answers overlap.  What can go wrong is therefore a matter of order: a job that
dies between two writes, an answer that never comes or comes too late, a webhook
that arrives twice or too early, a job id that BullMQ already knows.  These
specifications model that.

Contents: 1 the system, 2 the modules, 3 the runs, 4 fairness, 5 the proofs,
6 what the code does that its documentation does not say, 7 abstractions and what
is not modelled, 8 plan, 9 running.

## 1. The system

| part | code | state it keeps | operations | talks to |
|---|---|---|---|---|
| Webhook intake | `apps/web/backend/src/webhooks` | `WebhookEvent` rows | products, inventory, fulfillments, refunds, cancellation, uninstall, GDPR topics | job producer, repositories |
| Job producer | `apps/web/backend/src/scheduler` | BullMQ jobs, PENDING `SyncJob` rows | enqueue per kind, with deterministic job ids; reconcile the repeatable order-import polls | BullMQ, repositories |
| Worker | `worker/src/index.ts` | BullMQ job states | run a job, chain follow-up jobs, retry, give up, requeue a failed job, SIGTERM | sync engine, BullMQ |
| Product and offer import | `packages/sync/src/engine.ts` | `ProductMapping`, `SyncJob`, `SyncLog` rows | `syncProduct`, `syncOffers`, `pollImportStatus`, `failStalledImport` | Decathlon P41/P42/P44/OF01/OF02 |
| Product payload | `packages/sync/src/adapters/decathlon.adapter.ts` | none | the import row of a product | catalogue, mapping rules |
| Order import | `packages/sync/src/engine.ts` | `OrderMapping`, cursor, Shopify orders | `importOrders`, `importOneOrder` | Decathlon OR11, Shopify `orderCreate` |
| Shipment push | `packages/sync/src/order-lifecycle.ts` | `ShipmentMapping` | `syncFulfillment`, `updateTracking` | Decathlon ST01, ST23 |
| Refund push | `packages/sync/src/order-lifecycle.ts` | `RefundMapping` | `syncRefund`, the amounts of the refund lines | Decathlon OR11, OR28 |
| Returns mirror | `packages/sync/src/order-lifecycle.ts` | `ReturnMapping`, Shopify order tags | `syncReturns`, `applyReturn` | Decathlon RT11, Shopify `tagsAdd` |
| Decathlon client | `packages/decathlon/src` | none | request with retry policy, multipart upload | HTTP |
| Shopify client | `packages/shopify/src` | none | GraphQL request with throttling retries | HTTP |
| Repositories | `packages/database/src` | PostgreSQL | claims, upserts, finds | Prisma |
| Catalogue cache | `packages/sync/src/catalog-cache.ts` | `DecathlonCatalogReference` rows | fresh copy, fetch, stale copy | Decathlon H11/VL11/PM11 |
| Shop life cycle | `backend/src/auth`, `scheduler`, `webhooks` | `Shop` rows, repeatable polls | install, uninstall, erase, reconcile | Shopify, BullMQ |
| Connection and settings | `backend/src/connections`, `sync-configuration`; `Setup.tsx`, `ConnectDecathlon.tsx`, `Products.tsx` | `DecathlonConnection`, `SyncConfiguration`; what each open page holds | save and test a key, save settings, the four steps of the wizard | repositories, Decathlon |
| Mapping rules | `backend/src/mappings`; `Mappings.tsx` | `CategoryMapping`, `AttributeValueMapping`, product types; six sections | save, details, clear, save and clear a value, confirm all, set a type; load, reload | repositories, Shopify, catalogue cache |
| Dashboard, logs, health | `backend/src/dashboard`, `logs`, `health` | none | read | repositories |

How they interact.  A webhook or a request of the embedded app reaches the
backend, which writes a PENDING `SyncJob` row and adds a job under an id derived
from the product, the delivery or the refund.  The worker runs the job against
the sync engine.  An accepted product import adds a poll job; a poll adds the
next one until Decathlon reports; a published product adds an offer-sync.  The
order-import poll is a repeatable job that `OrderImportSchedulerService` keeps in
step with the settings; the returns mirror rides along with it.  The order
import creates the `OrderMapping` rows that the shipment and refund pushes look
up.  The rules of the Mappings page and the catalogue cache are what the product
payload is made from.  The pages talk to the backend through single requests and
to each other only through the rows: each keeps the row it loaded when it opened.

What is hard, and what makes each part correct:

| part | hard behaviours | what must hold |
|---|---|---|
| Refund push | OR28 has no idempotency key; answers are lost, the process dies between claim, request and row; jobs are requeued, locks expire; several refunds share one balance | a refund reaches the customer at most once; SUCCESS has a refund behind it; nothing asks for more than is left |
| Refund amounts | shares, scaled totals, gestures and shipping are capped and rounded one after another | no line gets more than is left of it; all or nothing, and then every cent of the Shopify refund is sent or accounted for |
| Shipment push | the same as refunds, with ST01; create and update deliveries race | lines ship twice only after an unknown outcome; SUCCESS means shipped; row and Decathlon agree on the tracking |
| Product and offer import | two-stage results hours later; a poll chain that re-adds itself; two jobs and the "failed" handler resolve one row | every row is resolved, with its own import's result, and a told result stays unless a job was taken from its run; SYNCED and SUCCESS mean what they say |
| Product payload | six sources for a value, inherited attributes, two definitions of one code | a row that is sent holds every required attribute, and each value comes from the first source that has one |
| Product producer | an edit arrives while a run is reading; five runs go side by side; BullMQ drops known ids; a hash decides what is skipped | the last edit arrives; skipped means already sent; no row without a job |
| Order import | a cursor over a list that shrinks and grows; crash between `orderCreate` and the row; legacy rows rekeyed meanwhile | no second copy; every order imported in the end |
| Returns mirror | twenty checks per run; tag after row | every mirrored return catches up; the tag is there |
| Shop life cycle | requests, webhooks and a sweep interleave | a shop that is gone has no schedule; a live shop is not erased; the schedule settles |
| Connection and settings | a key is stored before it is tested; wizard steps answer late, also to a step that was mounted again; other pages post a stale row | CONNECTED means an accepted key; a completed setup is complete; internal state is not put back |
| Mapping rules | handlers with several writes; six sections that load on their own; older answers that arrive last | a section at rest shows the rows; confirm-all keeps the merchant's choices; readiness is checked again |
| Catalogue cache | callers that miss together, a fetch that fails, is slow or is misread | nobody is given less than the copy there was |
| Pickers | answers to earlier queries | the list belongs to the query |
| HTTP client | late effects, 5xx after the write, lost bodies | a write with the safe policy takes effect at most once, and is reported truly |

## 2. The modules

| module | models | state ↔ code |
|---|---|---|
| `BullQueue` | the life of a BullMQ job: `queue.add` under a known id is dropped, lock, attempts (`queues.ts`), stalled-job check | `job`, `attempts`, `stalls`, `holder` per job id |
| `ClaimContract` | abstract: what the claim rows of `fulfillment.repository.ts` promise | `claim` and `effects` per key |
| `RefundSync` (extends `BullQueue`) | `syncRefund`, the `RefundMapping` claim, `enqueueRefundSync` (look, row and add of each webhook apart), `retry-failed-sync` | one place per await: `claim`, `fetch`, `mark`, `send`, `write`, `log`; `request` per webhook handler; row, stored ids, Decathlon's refunds and balance |
| `RefundAmounts` | `resolveLines`, `remainingOf`, `buildRefunds`, `buildCancellationRefunds` and the amounts `parseRefundWebhook` computes, as functions | an order, what is left of it, a webhook; the refund rows are computed |
| `ShipmentSync` (extends `BullQueue`) | `syncFulfillment`, `updateTracking`, the `ShipmentMapping` claim, `recordShipment` | row, stored tracking, Decathlon's shipments and what it shows |
| `ImportSync` (extends `BullQueue`) | `syncProduct`, `prepareProductImport`, `syncOffers`, `pollImportStatus`, `failStalledImport`, the chaining in the worker, the "failed" handler, SIGTERM | the `SyncLog` rows, `ProductMapping.status`/hash/product id, Decathlon's imports with their two stages; per run and per "failed" handler the row `resolvePending` has found (`target`) and not yet written |
| `ProductPayload` | `buildProductImportPayload` and what it calls: category, attributes inherited along `ancestorCodesFor`, the order of the sources, `ProductIdentifier`, brand, options, size, the final check in `prepareProductImport` | a product, the settings, the catalogue; the row is computed |
| `ProductQueue` (extends `BullQueue`) | `enqueueProductSync`, `clearFinishedJob`, and the read–compare–submit–store cycle of `syncProduct`; every Redis call a step | the two job ids `base` and `next`, PENDING rows, content in Shopify, stored hash, content at Decathlon; what each processor has read |
| `OrderImport` (extends `BullQueue`) | `importOrders`, `importOneOrder`, `createIfNotExists`, manual run beside the poll, `loadOrder`'s rekeying | cursor, offset, page, `OrderMapping`, Shopify copies |
| `ReturnsSync` | `syncReturns`, `applyReturn`, `listOpen` | `ReturnMapping` rows in `updatedAt` order, tags, Decathlon's returns |
| `ShopLifecycle` | install, settings, connection test, uninstall, `eraseIfUninstalled`, `reconcileShop`, the sweep | the `Shop` row and id, settings, the repeatable job per shop id |
| `Settings` | the connection and configuration services, the wizard, the connection page, the scope on the products page | the two rows; for every form what it holds; per request (`Slots`) where its handler is, and whether the page that sent it still listens (`asking`, `deaf`) |
| `Mappings` | every write handler of `mappings.service.ts`, and the section of the page that is followed | rules, coded values, typed products; per request where its handler is; the loads and answers of the section |
| `CatalogCache` | `warm` for one list, callers that overlap | the stored copy and its age; what each caller was given |
| `RemoteSearch` | `useRemoteSearch`, and the attribute load of `ValueSection` | query, timer, searches, results; category, loads, attributes |
| `HttpClient` | `request` with both policies, `requestMultipart` | attempt counter, the state of each attempt at Decathlon, where the client is |
| `OneShotRequest` | abstract: a request that takes effect at most once and is answered truly or "not known" | |
| `RefundSyncProofs`, `ImportSyncProofs`, `ProductQueueProofs`, `OrderImportProofs`, `ShopLifecycleProofs` | theorems about the module they extend | |
| `RequestsProofs` | theorems about `HttpClient`, `RefundAmounts` and `ProductPayload`, which share no state | |
| `OrderLifecycleProofs` | theorems about `ShipmentSync` and `ReturnsSync`, which share no state | |
| `EmbeddedAppProofs` | theorems about `Settings`, `Mappings`, `CatalogCache` and `RemoteSearch`, which share no state | |
| `MC...` | instances for the runs | |

How they compose.  The five modules that extend `BullQueue` share one model of
the queue, so a retry, a requeue, a crash and an expired lock mean the same
everywhere.  `RefundSync` implements `ClaimContract` under a refinement mapping
from `RefundMapping.status` to free/claimed/closed, and so does `ShipmentSync` from
`ShipmentMapping.status`, for the fulfillments whose requests were all answered
(after an unanswered one the code ships again, section 6).  `HttpClient` with the safe
policy implements `OneShotRequest`, and that is the interface which `RefundSync`
and `ShipmentSync` use for OR28 and ST01: applied and told, refused and told, or
outcome unknown.  `RefundAmounts` computes the amounts that `RefundSync` treats as
one number.  `ProductQueue`, `ImportSync` and `ProductPayload` look at one code
path from three sides: the first keeps every Redis call of the producer and
reduces an import to "sent", the second reduces the producer to one add and keeps
the imports, the third is the row they send.  `ShopLifecycle` has the schedule
that a settings save leads to, `Settings` the pages that save.  `MCRequests` and
`MCEmbeddedApp` each put modules side by side that share no state: a behaviour
takes one of them and leaves the variables of the others alone.

Reading an action.  A processor `w` is at a place named for what it does next
(`pc[w]`); an action is one call that leaves the process (database, Redis,
Decathlon, Shopify) with the code that runs before the next one.  Everything a
handler does between two awaits happens in one step, nothing else may.  `Throw`
is an exception out of the handler, `Crash` the death of the process anywhere,
`LoseLock` a lock that expires under a live run, which then goes on beside its
successor.  On the pages an action is a click, an answer that arrives, or one
database access of the handler behind it.  Definitions marked "faulty variant"
are never part of the next-state relation: each is a plausible slip in the code,
and substituting it for the definition below it must break the property it is
listed with in `PROJECT.json`, which is how we know the property depends on the
code.

## 3. The runs

Every run explores its instance completely.  A property that names a cause ("X
only after Y") is preferred to one that is simply assumed away: the model contains
the failure, and the property says exactly what it can damage.

| run | instance | distinct states | properties |
|---|---|---|---|
| `refund_claim` | one refund, requeued once, two processors, locks that expire, one attempt and one stall per job, one webhook handler, one refund by somebody else | 368 k | `AtMostOnce`, `RefundInv`, `KeepsClaimContract`, `EveryJobEnds` |
| `refund_money` | a refund, one with a line that is not on the order, and the cancellation, one unit of money, one processor, two attempts, requests applied late | 6.5 M | `SuccessExplained`, `OverdrawIsUnaccounted` |
| `refund_lost` | one refund, requeued once, two attempts, one stall | violation | `AlreadySentIsTrue` |
| `shipment` | one fulfillment: a "pending" delivery, one of its creation that is requeued once, and an update with another number and a line that may not be found; two processors (symmetric), locks that expire; the order may not be imported | 2.6 M | `DivergenceHasCause`, `ShippedTwiceNeedsDoubt`, `SuccessIsShipped` |
| `import_faults` | one variant: webhook sync, inventory webhooks, offers, two polls per import, two processors, one throw, crash or expired lock | 2.4 M | `StrandedHasCause`, `ProductRowsTellTheirOwn`, `RewriteHasCause` |
| `import_outcome` | two variants and a requeue, no failure of our own, every outcome at Decathlon, its counters growing a variant at a time | 436 k | `SuccessIsPublished`, `SyncedHasCause`, `RowsResolve` |
| `product_queue` | two contents, three edits, one manual sync, two requests at a time, two processors side by side (symmetric), two attempts, one run that throws or dies | 4.8 M | `EveryRowRuns`, `FollowUpArrives`, `SkippedIsCurrent`, `ManualSends` |
| `order_import` | three orders that enter in any order on pages of two: one with a legacy row, one that Shopify refuses and that may leave the list; two failures, a manual run in the queue | 199 k | `CopiesNeedDoubt`, `CopyIsMapped`, `ImportedInTheEnd` |
| `returns_sync` | four returns with two states each, two of them on an order without a commercial id, one on the newest page, two open rows listed per run, two failures | 1.8 M | `MissingTagHasCause`, `MirrorCatchesUp` |
| `shop_lifecycle` | three installations, two intervals, two changes, one request that fails half way, two requests at a time | 677 k | `GoneHasNoSchedule`, `LiveShopKept`, `ScheduleSettles` |
| `requests` | a write with five retries and the safe policy; refunds of up to two lines on orders of two lines; 185 products of a catalogue of four categories under 19 settings | 37 k | `AppliedAtMostOnce`, `OneShotSpec`, `NeverBeyondRemaining`, `RefundIsAccounted`, `ImportRowIsSound` |
| `embedded_app` | two changes of any kind on the Mappings page, one failed load or lost answer; two readers and three editions of a list; three queries and three categories; two keys, two requests at a time, three posts and one mishap in the settings | 2.1 M | `StaleHasCause`, `ConfirmKeepsChoices`, `Rechecked`, `ServedIsNoOlder`, `ListIsOfItsQuery`, `ConnectedIsTrue`, `SetupEndsReady`, `InternalStateKept` |

What they show, and why the bounds are enough:

* `refund_claim`.  The dangerous schedules are a second run of the same refund
  (a retry, a stalled job, a requeue) beside or after a first run that is
  anywhere between claim and row update.  Two processors and two job ids for one
  key produce each pair; a third run meets the same row.  `RefundInv` is the
  invariant the proofs use, so the run also says that the proofs are about a
  formula that is true.  `EveryJobEnds` needs the attempts to be bounded and no
  place without an exit.
* `refund_money`.  One unit of money makes any second refund too much.  With
  `LateApply`, a request the client has given up on may be applied after any
  later step.  `SuccessExplained` says what a wrong SUCCESS needs, and
  `OverdrawIsUnaccounted` that two refund jobs never race for the balance: a
  request that is too large needs a refund that no row accounts for, by a
  stranger or by a late request.  This is what the worker's concurrency of 1 for
  refunds is for.
* `shipment`.  One fulfillment is enough: rows of two fulfillments never meet.
  The creation, its requeue and the update are three runs that may ship the lines
  or correct the tracking, in any order and beside each other; with the requeue
  there, a second attempt of one job adds no new pair.  Two numbers and none tell
  a stale tracking from a present one; the carrier goes one way in this instance.
  That two processors cross between ST23 and the row is a cause of its own in
  `DivergenceHasCause`; the worker runs fulfillments one at a time, so it takes a
  second worker or an expired lock.
* `import_faults`, `import_outcome`.  Two imports let an old poll meet a newer
  import, two polls let a chain go on and be given up (sixty in the code: only
  the first, an inner and the last are different).  `resolvePending` is a look and a
  write under the id it found, apart, for runs and for the "failed" handler alike.
  With the one failure a job is taken from its run, which goes on beside the
  handler or a rerun, and both write: that is the cause `RewriteHasCause` names.
  A job has one attempt here, so that the handler comes at once; retries are in
  the theorem.  The integration counter grows one variant at a time, between
  polls or within one: `SuccessIsPublished` says what a status read from a
  counter that has only begun to grow is worth.  The runs are divided because
  failures of our own and outcomes at Decathlon are independent questions:
  the first has one variant and every failure, the second two variants (a report
  that names one and not the other) and every outcome.
* `product_queue`.  Two contents let an edit be taken back, three edits let one
  arrive before, one during and one after a run, and two requests are what it takes
  for one to remove or add the job another is looking at.  The worker has five
  processors for product jobs (`worker/src/index.ts:125`); the producer has two job
  ids for a product, so two processors give every overlap of its runs: the
  follow-up beside the run it follows.  `crossed` records that two that overlapped
  had read different contents.  The theorems are for any number of processors.
* `order_import`.  Two pages of a list that grows and shrinks; the refused order is
  the one the cursor must step over.  Deadlock is checked: the poll always
  comes back.
* `returns_sync`.  Two open rows are listed per run.  The order that cannot be asked
  for has two returns: with one of them open one place is left to the others,
  with both none (`Starved`, the exception in `MirrorCatchesUp`).
* `shop_lifecycle`.  Two handlers are what a race needs; a second installation is
  what a late redact needs, a third what an uninstall needs that looks up a row
  about to be erased and marks the next one.
* `requests`.  The number of retries is the client's own (`http-client.ts:72`).
  Refunds: two lines, each untouched, half refunded or refunded in full, with
  shares that do not divide evenly, a line without a match, quantity 0 and
  amounts above and below what is left.  Money is an integer number of twelfths of a
  cent, so that halves and thirds are exact and rounding is where the code rounds.
  Products: an attribute inherited over two levels, one defined by two branches,
  a list with exact and loose matches, a size with and without a chart, a SIZE that
  is required and filled from its own list, an option named like a size, and each
  reason for which a product is not sent.
* `embedded_app`.  Two overlapping requests are what a race needs; the first of
  two answers may be the later one.  Three editions let a copy be fresh, stale and
  overtaken, three queries let an answer be the present one, the last one or an
  older one.  In the settings three posts are a save, a crossing save and a
  correction, or a save and two steps of the wizard, or one step sent twice by a
  wizard that was taken back and forth; a shop that is already
  connected, or has its e-mail too, is an initial state, so that the last steps
  are within these bounds.

`refund_lost` is the one run that is expected to fail: it states what the
SKIPPED message of `order-lifecycle.ts:298` says of the row it met ("already
sent") when no other run is at work on it, and shows a claim whose run threw or
died before the request.  The row
stays PROCESSING, each later attempt is refused the claim, and the refund is
never sent.

Two hazards have no property, because the code meets them and there is nothing
to state that would hold: the hash stored before the fate of its import, and the
finished offer job that swallows a chained one.  Two more are true of the code
and left out of the list: only one page of newest returns is read
(`order-lifecycle.ts:387`), and P41 and OF01 are sent again after a timeout
(`http-client.ts:247`).

## 4. Fairness

Safety properties are checked under the specification's safety part; liveness
assumes only what the deployment does by itself:

* `WF(Step(w))`: a live processor goes on with its run and takes waiting jobs.
  `Throw` and `Crash` are not part of `Step` and are bounded (by the attempts and
  stalls of a job, or by `MaxFaults`).
* `WF(RecoverStalled(j))`: BullMQ's stalled-job check runs every 30 s.
* `WF(Tick)` (order import), `WF(SyncReturns)`: the repeatable job comes due
  again (`enqueueOrderImportRepeatable`).
* `WF(Handle(h))`, `SF(Sweep(h))` (shop life cycle): a request that was begun is
  carried on, and the sweep runs every five minutes
  (`order-import-scheduler.service.ts:24`).  Strong fairness, because the sweep
  is a timer: that handlers are busy each time the model looks does not keep it
  from running between two requests.
* `Mappings`: `WF(Handle(r))`, `WF(Done(r) \/ Refused(r))`, `WF(ReadRowsFor)`,
  `WF(ShowAnswer)`: a handler goes on, the page gets its answer or an error, the
  server reads what a load asks for, and the answer is shown.  `Rechecked` (after a
  change that the section is told of, it reads the rows again, or a load failed)
  needs these.

Nothing is assumed of Decathlon, of Shopify, of merchants or of webhooks.  In
particular `RowsResolve` holds if Decathlon never finishes an import.

## 5. The proofs

Checked by TLAPS for all values of the constants that satisfy the named
assumptions of the modules.  Every invariant, every action property and every
refinement that a run checks is also a theorem; the type invariants are in no run,
but all except `ReturnsTypeOK` are theorems, those of the pages as a part of the
invariants of `EmbeddedAppProofs`:

| module | theorem | states |
|---|---|---|
| `RefundSyncProofs` | `TypeCorrect`, `InvariantHolds` | `TypeOK`, `RefundInv` |
| | `RefundedAtMostOnce`, `SuccessHasARefund`, `ClaimContractKept` | `AtMostOnce`, `SuccessExplained`, `KeepsClaimContract` |
| | `OverdrawNeedsAnother` | `OverdrawIsUnaccounted` |
| `OrderLifecycleProofs` | `SecondShipmentNeedsDoubt`, `RowsTellTheTruth`, `TrackingAgrees` | `ShippedTwiceNeedsDoubt`, `SuccessIsShipped`, `DivergenceHasCause` |
| | `ShipmentContractKept`, `ShipmentTypeCorrect` | `KeepsContractWhenAnswered` (`ClaimContract` once more), `TypeOK` |
| | `TagsAreThere` | `MissingTagHasCause` |
| `ImportSyncProofs` | `RewritesAreCaused`, `RowsTellTheirOwn`, `StrandedIsCaused` | `RewriteHasCause`, `ProductRowsTellTheirOwn`, `StrandedHasCause` |
| | `SuccessMeansPublished`, `SyncedIsCaused` | `SuccessIsPublished`, `SyncedHasCause` |
| | `TypeCorrect` | `TypeOK` |
| `ProductQueueProofs` | `RowsHaveJobs`, `AClickIsSent`, `SkipsAreCurrent`, `TheLastEditArrives` | `EveryRowRuns`, `ManualSends`, `SkippedIsCurrent`, `FollowUpArrives` |
| | `TypeCorrect` | `TypeOK` |
| `OrderImportProofs` | `EveryCopyIsMapped`, `SecondCopyNeedsDoubt`, `TypeCorrect` | `CopyIsMapped`, `CopiesNeedDoubt`, `TypeOK` |
| `ShopLifecycleProofs` | `OnlyOrphansStay`, `LiveShopsStay`, `TypeCorrect` | `GoneHasNoSchedule`, `LiveShopKept`, `TypeOK` |
| `EmbeddedAppProofs` | `KeyIsAccepted`, `SetupIsReady`, `InternalsKept` | `ConnectedIsTrue`, `SetupEndsReady`, `InternalStateKept` |
| | `SectionsAreFresh`, `ChoicesSurvive` | `StaleHasCause`, `ConfirmKeepsChoices` |
| | `NeverWorseThanTheCopy`, `PickersListWhatIsAsked` | `ServedIsNoOlder`, `ListIsOfItsQuery` |
| `RequestsProofs` | `TypeCorrect`, `AtMostOnce`, `TrueOutcome`, `ImplementsOneShot` | `TypeOK`, `AppliedAtMostOnce`, `OutcomeIsTrue`, `OneShotSpec` |
| | `RefundStaysWithin`, `RefundAccounted` | `NeverBeyondRemaining`, `RefundIsAccounted` |
| | `ImportedRowIsSound` | `ImportRowIsSound` |

Hypotheses beyond the modules' own assumptions, each from the code:

* `~LateApply` in `InvariantHolds` and what follows from it: Decathlon applies no
  request after the client gave it up (`order-lifecycle.ts:350` takes it for
  granted).
* `OneProcessor` in `OverdrawNeedsAnother`: refund jobs have one processor
  (`worker/src/index.ts:170`).  Late requests are allowed there.
* `[]OneRun` in `SecondCopyNeedsDoubt`: imports run one at a time
  (`worker/src/index.ts:158`).  Nothing of the kind is assumed of product jobs, of
  which the worker runs five at a time.

Two named assumptions carry more than types.  `AmountsAssumption`: amounts, shipping
and what was given back are natural numbers, and a line has been refunded no more
than its price, since the code reads both from Decathlon's order.
`CatalogAssumption`: the category tree has a finite depth, without which
`ancestorCodesFor` would not end.

The arguments.

*Refunds, at most once.*  `AtMostOnce` is not inductive: nothing in `paid[k] <= 1`
keeps a run at `send` from paying again.  `RefundInv` adds why it cannot be there.
`ClaimIsExclusive`: at most one run is between claim and row update, and its row
is PROCESSING (a row is only claimed when it is not, and only its owner moves it
on).  `IdsHandedOut` and `PaidIsVisible`: a paid key has its attempt on record,
and one of its refunds is not among the ids stored before that attempt, because
Decathlon's ids are fresh.  `SenderIsUnpaid`: a run past `fetch` saw no such id,
so nothing was paid.  `SuccessHasCause` carries the reason for SUCCESS from
`fetch` or `send` to `write`.  `inflight = {}` is where `~LateApply` enters: a
request applied after the retry has read the order defeats the check, whatever
the code stores.  TLC finds that behaviour at once when `refund_claim` is given
`LateApply = TRUE`.

*Types.*  `TypeOK` is not inductive where it bounds a counter.  Attempts and stalls
stay in range because a job that may still run has some of both to spend
(`QueueBudget`).  `pendingRows` never falls below 0 because every job nobody has
started and every request about to add one has a row of its own (`RowsSuffice`),
and the waiting webhooks stay within the edits because each one in hand was sent by
one (`EditsSuffice`).  The uninstalls that wait or are being handled are of as many
installations that ended (`Counted`).  The cursor of the order import stays within
the orders there are because a page lies between its offset and the end of the
list (`PageIsWithin`); that there is an ascending list at all (`Listing`) is `Sortable`.

*Refunds, the balance.*  `ReadAccountsForRows`: between `fetch` and `send`, every id
a row accounts for is among those the run has read, and if the balance has
shrunk since, there is a refund it has not read.  With one processor no row
changes in between, so that refund is nobody's.

*Shipments.*  `OneClaimant`, a run between claim and row has a row that says
PROCESSING and is the only one for its fulfillment; `RowsKnow`, a row that may be
claimed has no shipment behind it, or an unanswered request; `RunsKnow`, the same
for a run at `send`, and what a run at `write` or `record` has found out.  Two
lemmas divide the steps: those that end away from the claim disturb nothing
(`AsideKeeps`), and one by the claimant, or the run becoming it, concerns nobody
else (`AloneKeeps`).  Nothing about the queue is needed: the claim holds however
often a job runs.  The same invariant gives `ShipmentContractKept`: a fulfillment in
`doubt` is mapped to no effect, and for the others taking the claim, ST01 and the
row are the steps Acquire, Effect, Release and Close of the contract, all else a
stutter.  For the tracking it is: `LocksHold`, a run has the lock of its
job or that job was found stalled, so a run that ends without a trace in
`attempts` or `stalls` ended in order.  `RowsTell`: but for the causes the property
names (`Trouble`, which never goes away), one run at a time stands between telling
Decathlon and writing the row, and it holds what Decathlon shows.

*Returns.*  `RunKnowsRow`: the row read is still the row at the upsert, and the row
written is what is about to be tagged, because the runs follow one another.
`TagIsComing`: a state not tagged yet is the one the run is at, or was hit.  The
page sizes, the order of the list and what it holds play no part.

*Imports, a told result.*  `resolvePending` looks for a PROCESSING row, waits, and
then writes under the id it found, whatever the row says by then
(`sync-log.repository.ts:35-45`).  `RewriteHasCause` says when that can write over a
result: only after a failure has taken a job from its run (`severed`: the process
died, or the lock expired under a live run).  It is an action property, and what
makes it inductive is that before the first such failure nobody else is about:
`OneAlive`, of all runs and "failed" handlers that work on, or could still be
started about, one import, one at most is alive (the submission, then one poll at a
time, then the handler of the last one); `UsedOnce`, a row is found under the
correlation id of one import only, or, for the imports that share the id of the
chained offer job, they follow one another; and `FoundOpen`, the row a run or
handler has found is still PROCESSING.  `Undisturbed` is their conjunction under
`~severed`.  The lemma `StepFoundOpen` is the point of it all: a step that resolves a
row someone else has found would make two alive about one import.

*Imports.*  `Base`, under everything else: a poll job belongs to an accepted import,
a run at a place that handles an import has one, a row is about an import.
`ProductCorrelations`: the correlation id of a product import is that of its own
run, so a poll finds no other import's row, and writes none after the wait.  `Truth`: what a poll has read of
the two stages stays true, since Decathlon's reports only grow, so a row or a
mark made from it is true as well (`SuccessIsTrue`, `IsCause`).  `Sound` and
`ChainGoesOn`, for `StrandedHasCause`: a run that has lost the lock of its job was interrupted
(`LocksHold`); the poll a submission adds is the first of its import
(`FirstPollFirst`), and a poll job is never "completed", so an add is never dropped
on account of a finished one (`NeverCompleted`); two offer imports that share an
id mean that the first one's job was interrupted (`SharedMeansRetried`), so its
row may be resolved by the other one's poll but is not lost unseen.  `ChainGoesOn`:
whenever a poll has decided and its import is not settled, a later poll of it
is waiting or has yet to decide.  This is what makes the re-add from inside
the running job safe, stalled polls that run twice included.

*Product queue.*  Any number of runs may go side by side.  `RunsAgree`: until two that
had read different contents overlap (`crossed`), all runs between reading and
storing hold one content.  `ClashInv` says that what a request has found out about its id
still holds when it acts on it, unless two were at one id, and counts rows
against fresh jobs and requests about to add.  `WishInv` follows a click:
until something is submitted it is with the request, its job or that job's run.
`HashTells`: the stored hash is what was sent, unless a run is about to store it, and
then that run read what was sent.  `Covered` follows an
edit: its webhook is to come, a job or run will read it or has read it, or a
request is bound to add a job; `missed` records the places where all three fail.

*Orders.*  `LookedUp`: what a run has found out about an order (no row, no legacy
row) still holds when it creates, unless the order may be rekeyed; the page,
the offset and the cursor play no part, which is the point: reruns and
overlapping pages are harmless.

*Shops.*  A schedule of an erased row is an orphan, and whoever may still write
one was overtaken (`ErasedIsOrphaned`); the same for an inactive row while no
uninstall is pending (`InactiveIsBare`), and, whatever is pending, for the row a
redact is about to delete (`RedactedIsBare`), which is inactive unless a reinstall
overtook the redact (`DeletesInactive`).

*Settings.*  The invariant relates what the wizard believes (which step is behind
it, what the page last read) to the rows, unless one of the recorded causes has
come in between.  A request is the wizard's own until its answer comes or the step is
left (`asking`); one whose step was left (`deaf`) still writes, so the choices a
finish relies on are in the row unless a later finish has stored its own
(`overwritten`).

*Mappings page.*  `NewestIsTrue`: once the rows were read after the last change, the
newest answer, under way or shown, says what they are.  `ReloadComes`: until then
a load is on its way, or a request that wrote still owes the section one.
`ChoicesMadeSince`: what confirm-all has still to save was not mapped when it read
the rows, or was chosen since.

*Cache, pickers.*  The copy only grows older by a slow fetch, and is emptied only by an
answer that was misread, and both are recorded with every caller that waits.  A
search that is not cancelled is for the query in the box of an open picker;
attributes of another category have a later answer coming or the answers crossed.

*HTTP client.*  With the safe policy every attempt but the newest ended with a 429,
which has no effect, so only the newest can have had one (`SafeInv`); an attempt
given up is the last.  `OneShotSpec` has no liveness part.

*Computed data.*  What a fold or a recursive function yields takes an induction, and
the library's induction theorems take a predicate, which no prover here can be
given.  The proofs of `RequestsProofs` use sets instead: a set of numbers that
holds 0 and each successor holds all (`NatInduct`, from `LessThanWellFounded` and `WFMin`),
which is first-order.  A loop is a set of runs, lists of results each made from
the one before (`Runs`); that a run exists (`Iterates`) and that a fold is the end
of one (`Unfolds`) is proved once, and one lemma per fold of the model
instantiates it, since a lemma cannot take the operator either.

*Refund amounts.*  With a line that cannot be placed the refunds are empty by
definition of the throw.  Otherwise each stage passes a total on with a known loss.  The webhook's total
loses at most a twelfth of a cent per division (`PayloadTotal`, `ScaledTotal`),
`resolveLines`, which divides a Shopify line among the Decathlon lines of its SKU,
less than one per division (`ResolveTotal`).  The gesture and the shipping
move money from what is left over to the lines, and neither makes any
(`GestureTotal`, `ShippingTotal`).  Rounding a line to cents moves it
by 6 down to 18 up, twelfths (`LineTotal`), and the lines add up (`LinesTotal`).  The sum of
the losses is the `Tolerance` of `RefundIsAccounted`: two cents, two more per
line, and a twelfth per division.  `NeverBeyondRemaining` needs none of this: each
row is cut to what its line has left at the end.

*Payload.*  A product for which `buildProductImportPayload` finds nothing missing has a
value for every required attribute of its category, inherited ones included
(`RowComplete`; the walk up the tree ends by
`CatalogAssumption`).  What the merchant chose is looked at before what is inferred
(`RowKeepsChoices`), and every step that fills a list attribute takes the value
from its list (`RowValuesListed`, `SizeInChart`).

Only model-checked:

* Liveness (`EveryJobEnds`, `RowsResolve`, `ImportedInTheEnd`, `MirrorCatchesUp`,
  `ScheduleSettles`, `Rechecked`): the prover has no rule for fairness or ENABLED
  here.
* `AlreadySentIsTrue`: it is false (section 6).

Not proved: `ReturnsTypeOK`.  The order of `touched` is made by `SelectSeq` and
`SetToSortSeq`, which take an operator and about which the provers know nothing;
`TagsAreThere` does without it.

## 6. What the code does that its documentation does not say

Listed as a finding, with a run that shows it: a refund whose run ends early is
reported as sent and never is (`refund_lost`).

Met as counterexamples while the properties were written; each property above
names the cause, so that it says what holds in spite of it:

* Refunds.  Any refund that appears on the order since the first attempt is taken
  for one's own (`order-lifecycle.ts:315-317`): with an unanswered request that
  was never applied and a refund made in the Seller Portal, the row ends SUCCESS
  and the customer is not refunded (`SuccessExplained`).  A request that Decathlon
  applies after the retry has read the order is refunded twice, although the
  message says a retry "will not refund twice" (`order-lifecycle.ts:350`).
* Refund amounts.  A refund line of quantity 0 with an amount, which
  `shopify.adapter.ts:231` keeps, is neither resolved nor reported by
  `resolveLines` (`order-lifecycle.ts:54-68`): its amount vanishes, although the
  comment above says an unresolved line is reported (`Vanished` in
  `RefundIsAccounted`).
* Shipments.  An ST01 request with an unknown outcome ends FAILED and is sent
  again without a look at Decathlon (`order-lifecycle.ts:155`, `186-197`), which
  `errors.ts:46-48` asks callers not to do (`ShippedTwiceNeedsDoubt`).  Two runs
  that correct one tracking at once may leave the row with the other one than
  Decathlon shows (`crossed` in `DivergenceHasCause`).
* Imports.  A crash between the accepted import and the first poll job, or a poll
  that stalls for good while it has attempts left (`worker/src/index.ts:139`,
  `220-225`), leaves the row PROCESSING (`StrandedHasCause`).  After a partial
  failure of the transformation the other variants are marked SYNCED before
  the integration (`engine.ts:572`), and a variant whose own transformation failed
  is, too, when that report cannot be read but the next one names another variant
  (`SyncedHasCause`).  The retry of a webhook sync finds the hash already stored
  and skips (`engine.ts:208`, `238`).  An offer-sync chained while a finished offer
  job still holds the id is dropped (`worker/src/index.ts:206`).  Runs of the
  chained offer job share a correlation id, so that a poll may resolve the row of
  another offer import (`sync-log.repository.ts:36`; products are not affected:
  `ProductRowsTellTheirOwn`).
* Product payload.  A metafield value is resolved by the first attribute definition
  with its code, which may belong to another branch of the catalogue
  (`decathlon.adapter.ts:209`).  A required SIZE that its own list does not
  hold is reported missing although the size chart would fill it afterwards: the
  report stays (`decathlon.adapter.ts:291-338`).
* Product queue.  A run that ends between the producer's two looks takes the edit
  with it (`queue-producer.service.ts:97-100`; `missed` in `FollowUpArrives`).  Five product
  jobs run at a time, so the follow-up may run beside the run it follows, and the
  older content arrive last or its hash stand beside the newer row
  (`worker/src/index.ts:125`; `crossed`).  Two requests that both find the id free leave a
  row PENDING (`:99`, `:106`; `clash` in `EveryRowRuns`).  A manual sync that joins
  a queued webhook job may be skipped by it (`:100`, against `queues.ts:24-25`).  A
  crash between the P41 request and the hash makes an edit that was taken back look
  unchanged (`engine.ts:238`).
* Orders.  A crash, or an unanswered request, between `orderCreate` and the
  `OrderMapping` creates the order a second time (`engine.ts:827-843`), and so does
  a legacy row that is rekeyed between the importer's two lookups (`:811`); two
  worker processes may both create it.  The raw offset skips orders when others
  leave the list, until it is reset (`:793`).
* Returns.  A tag that could not be added after the row was written is never
  added (`order-lifecycle.ts:428`).  Open returns whose order has no commercial id
  are never touched and so stay at the head of the re-checks; as many of them as a
  run lists starve all others (`:390-393`; `Starved` in `MirrorCatchesUp`).  Only one page of newest returns is read
  (`:387`).
* Shops.  A reconciliation that has read the settings adds the schedule again
  after the uninstall removed it, and no later sweep looks at an inactive shop
  (`order-import-scheduler.service.ts:58`).  A reinstall between the look and the
  delete of `eraseIfUninstalled` is erased (`shop.repository.ts:40`).  When a row is
  erased and made again between the look of an uninstall webhook and its update,
  the new row is marked by domain, but the schedule is removed by the old id
  (`webhooks.controller.ts:45-46`; `Missed`).  It takes three installations and was
  found while the invariant of the proof was being written.  An uninstall
  webhook that is handled after a reinstall makes the live shop inactive until
  the next page load.
* Mappings page.  The answer to an older load may replace a newer one (`late`).  The
  section of other values and the size option do not call `onChange`, and the
  section is itself never refreshed, although `Mappings.tsx:1010-1011` says that
  any change refreshes the others (`silent`).  A confirm-all that stops half way
  has written rows and reloads nothing.  It also replaces a mapping made after it
  read the rows (`mappings.service.ts:407-408`; `since` in `ConfirmKeepsChoices`).
  Details that are saved late may land on a rule that was deleted and made again.
  `ValueSection` shows the attributes of whichever category answers last
  (`crossed` in `ListIsOfItsQuery`).
* Catalogue cache.  A 2xx answer of another shape is read as an empty list and
  stored over the good copy for an hour (`attributes.ts:31`, `catalog-cache.ts:59-61`;
  `misled` in `ServedIsNoOlder`), against "every warm falls back to stale cache"
  (`catalog-cache.ts:22`).  A slow fetch stores an older edition over a newer one
  (`overtaken` in `ServedIsNoOlder`).
* Settings.  A new key is stored beside the old status, so the row says CONNECTED
  until the test is recorded, and the test of one save may be of another's key
  (`unproven` in `ConnectedIsTrue`).  The wizard lets its next step be pressed
  while a key is being saved, so a setup may be completed with a FAILED connection
  (`ahead` in `SetupEndsReady`); its first load has no failure branch and leaves a
  skeleton (`Setup.tsx:34-37`); a late answer of the business step moves a wizard
  on that was taken back, and a finish under way ends one that was opened again.  A step that is left and
  shown again has forgotten that its request is under way (`Setup.tsx:115-130`,
  `409-435`): two finishes may overlap, and the setup is completed by one with the
  choices of the other (`overwritten` in `SetupEndsReady`).
  The connection page posts the whole row it once loaded and takes back what
  other pages have saved since (`ConnectDecathlon.tsx:72-83`; `edited` in
  `SetupEndsReady`); the cursor and the completion are safe (`InternalStateKept`).
* HTTP client.  With the default policy a write may take effect once per attempt.

## 7. Abstractions, and what is not modelled

* Delays: backoffs, the two-minute delay of a cancellation and the rate limiter
  are left out, so any waiting job may run next.
* In `RefundSync` money is counted in units and a refund is one amount; the lines,
  their shares and the rounding are in `RefundAmounts`, where taxes are part of an
  amount.  Content is a member of a small set; a hash is equal exactly if the
  content is.
* One offer job id stands for every set of variants; the `SyncJob` rows of
  offers, requeues and order polls are not kept, nor are the rows `failJob` and
  `resolvePending`'s fallback write of their own.  Inventory webhooks are
  considered while there is an import left to submit.
* `ImportSync`: Decathlon's two reports of one poll are read in one step, of which
  the first is final by then.  `resolvePending`'s look and write, `findByVariant` and the
  mark, and the steps of the "failed" handler are apart.
* `createIfNotExists` is one step because of the unique constraint in the schema.
  `loadOrder`'s rekeying is in `OrderImport` (`Rekey`); the refresh of an order's
  state after a push changes nothing the properties are about.
* `ShopLifecycle` takes it that Shopify sends a failed webhook again, and that
  `shop/redact`, 48 hours after the uninstall, overtakes no uninstall webhook.
* `HttpClient` takes it that a 4xx or 429 answer had no effect.  It is run with
  the safe policy only; the default one promises nothing about effects.
* `Mappings`: a behaviour follows one section, since no section reads another's
  state, and one tab.  Of a category's details the size chart stands for the
  gender, of the values found by name the brand for the colour.  Whether the
  reference data hold a value is left open, so any save may be refused.  The two
  reads of the types section are one load; the readiness report is read at one
  moment; a selection of untyped products that outlives a reload is left out
  (the page keeps the ids and would send them).
* `Settings`: a form that stays on the screen has one request at a time, at most
  `MaxSlots` requests are under way, a read is one step, the scope on the
  products page is written in one step, and forms hold an e-mail and a scope.  The
  schedule that a save reconciles is in `ShopLifecycle`.  The cursor advances, as
  the order import does it, within `MaxPosts`.
* `RefundAmounts` and `ProductPayload` are functions of their input: TLC evaluates
  them over every input of the instance.  Money is an integer number of twelfths of
  a cent; an order has two lines.  One variant stands for a product; whether two
  texts match, exactly or loosely, is a relation given as a constant.
* `CatalogCache`: one list of one shop; which list it is makes no difference.
* External, modelled from how the code uses it: BullMQ, Decathlon, Shopify.
* Not modelled: cryptography and authentication, read-only pages and the shell of
  the embedded app, offer and order payloads, prices, batches and text similarity
  (pure functions of one input), the WebhookEvent log (never read), logging,
  deployment.  `PROJECT.json` lists each with the reason.

## 8. Plan

Done: the queue, refunds and their amounts, shipments, imports and their payload,
the product queue, orders, returns, the shop's life cycle, connection and
settings, the Mappings page, the catalogue cache, the pickers, the HTTP client;
a theorem for every safety property of these that a run checks.

What would come next, in this order:

1. Order drafts and offers as functions with a reference definition: prices,
   taxes and the batches they are sent in.
2. The Shopify client's retry loop on THROTTLED, as an instance of the same
   one-shot request.

## 9. Running

    tlc -workers 2 -config MCRefundClaim.cfg MCRefundSync.tla
    tlapm RefundSyncProofs.tla

Each configuration names what it explores in its first line.  The longest runs,
`refund_money`, `returns_sync` and `embedded_app`, take two to four minutes.  `CHECK_DEADLOCK FALSE`
stands where a system at rest is legitimate: all jobs ended and no webhook to
come, or the bound on the requests of a merchant is reached.
