---------------------------- MODULE OrderImport ----------------------------
(***************************************************************************)
(* Importing Decathlon orders into Shopify: SyncEngine.importOrders and    *)
(* importOneOrder (packages/sync/src/engine.ts), OrderMappingRepository,   *)
(* the repeated poll and the manual run of the order-import queue.         *)
(*                                                                         *)
(* A run reads one page of the orders in SHIPPING, from the stored offset, *)
(* imports each order of the page and moves the offset; an empty page      *)
(* takes it back to 0.  Orders are numbered by their date of creation.     *)
(***************************************************************************)
EXTENDS BullQueue, FiniteSets, SequencesExt

CONSTANTS
    Orders,      \* Decathlon orders
    Legacy,      \* those imported under their commercial id
    Rekeyed,     \* legacy orders a fulfillment or refund may rekey (loadOrder)
    Refused,     \* orders Shopify refuses to create
    Leavers,     \* orders that may leave SHIPPING
    PageSize,    \* OR11 "max"
    MaxClicks,   \* bound: manual runs
    MaxFaults    \* bound: calls that throw, processes that die

ASSUME OrderAssumption ==
    /\ Jobs = {"poll", "manual"}
    /\ IsFiniteSet(Orders) /\ Orders \subseteq Nat
    /\ Legacy \subseteq Orders /\ Rekeyed \subseteq Legacy
    /\ Refused \subseteq Orders /\ Leavers \subseteq Orders
    /\ PageSize \in Nat \ {0} /\ MaxClicks \in Nat /\ MaxFaults \in Nat

VARIABLES
    where,     \* whether an order has yet to enter SHIPPING or has left it
    copies,    \* Shopify orders created for each Decathlon order
    mapped,    \* the copy its OrderMapping names (0: no row under its order id)
    legacyRow, \* orders with a row under their commercial id, naming copy 1
    cursor,    \* SyncConfiguration.orderImportCursorOffset
    clicks,    \* manual runs so far
    pc,        \* where each processor is in importOrders
    cur,       \* the job it runs
    offset,    \* the offset it read
    page,      \* orders of its page not yet imported
    size,      \* the length of its page
    made,      \* the copy it has just created
    doubt,     \* history: orders a failure hit while a copy was not yet mapped
    faults     \* failures so far

orderVars == <<where, copies>>
rowVars == <<mapped, legacyRow, cursor>>
runVars == <<pc, cur, offset, page, size, made>>
historyVars == <<doubt, faults>>
vars == <<queueVars, orderVars, rowVars, clicks, runVars, historyVars>>

Places == {"idle", "read", "list", "reset", "find", "legacy", "create", "map", "advance", "done"}
InOrder == {"find", "legacy", "create", "map"}

TypeOK ==
    /\ QueueTypeOK
    /\ where \in [Orders -> {"future", "shipping", "gone"}]
    /\ copies \in [Orders -> Nat]
    /\ mapped \in [Orders -> Nat]
    /\ legacyRow \subseteq Legacy
    /\ cursor \in 0..Cardinality(Orders)
    /\ clicks \in 0..MaxClicks
    /\ pc \in [Workers -> Places]
    /\ cur \in [Workers -> Jobs]
    /\ offset \in [Workers -> 0..Cardinality(Orders)]
    /\ \A w \in Workers : Range(page[w]) \subseteq Orders /\ Len(page[w]) <= size[w]
    /\ size \in [Workers -> 0..PageSize]
    /\ made \in [Workers -> Nat]
    /\ doubt \subseteq Orders
    /\ faults \in 0..MaxFaults

Init ==
    /\ QueueInit
    /\ where \in [Orders -> {"future", "shipping"}]
    /\ copies = [o \in Orders |-> IF o \in Legacy THEN 1 ELSE 0]
    /\ mapped = [o \in Orders |-> 0]
    /\ legacyRow = Legacy
    /\ cursor = 0 /\ clicks = 0
    /\ pc = [w \in Workers |-> "idle"]
    /\ cur = [w \in Workers |-> "poll"]
    /\ offset = [w \in Workers |-> 0]
    /\ page = [w \in Workers |-> <<>>]
    /\ size = [w \in Workers |-> 0]
    /\ made = [w \in Workers |-> 0]
    /\ doubt = {} /\ faults = 0

-----------------------------------------------------------------------------
(* Decathlon                                                               *)

(* An order is accepted and waits for its shipment. *)
EnterShipping(o) ==
    /\ where[o] = "future"
    /\ where' = [where EXCEPT ![o] = "shipping"]
    /\ UNCHANGED <<queueVars, copies, rowVars, clicks, runVars, historyVars>>

(* It is shipped, by this app or in Decathlon's portal, or cancelled. *)
LeaveShipping(o) ==
    /\ o \in Leavers /\ where[o] = "shipping"
    /\ where' = [where EXCEPT ![o] = "gone"]
    /\ UNCHANGED <<queueVars, copies, rowVars, clicks, runVars, historyVars>>

Shipping == {o \in Orders : where[o] = "shipping"}

(* OR11: the orders in SHIPPING, oldest first. *)
Listing ==
    CHOOSE s \in [1..Cardinality(Shipping) -> Shipping] :
        \A i, j \in DOMAIN s : i < j => s[i] < s[j]

-----------------------------------------------------------------------------
(* Producers                                                               *)

(* The repeated poll comes due. *)
Tick ==
    /\ ~Known("poll") \/ Ended("poll")
    /\ RenewJob("poll")
    /\ UNCHANGED <<orderVars, rowVars, clicks, runVars, historyVars>>

EnqueueOrderImportNow ==
    /\ ~Known("manual") \/ Ended("manual")
    /\ clicks < MaxClicks
    /\ clicks' = clicks + 1
    /\ RenewJob("manual")
    /\ UNCHANGED <<orderVars, rowVars, runVars, historyVars>>

(* loadOrder, run for a fulfillment or refund of the order. *)
Rekey(o) ==
    /\ o \in Rekeyed \cap legacyRow /\ mapped[o] = 0
    /\ mapped' = [mapped EXCEPT ![o] = 1]
    /\ legacyRow' = legacyRow \ {o}
    /\ UNCHANGED <<queueVars, orderVars, cursor, clicks, runVars, historyVars>>

-----------------------------------------------------------------------------
(* One run of importOrders                                                 *)

GoTo(w, place) == pc' = [pc EXCEPT ![w] = place]

EndRun(w) ==
    /\ GoTo(w, "idle")
    /\ cur' = [cur EXCEPT ![w] = "poll"]
    /\ offset' = [offset EXCEPT ![w] = 0]
    /\ page' = [page EXCEPT ![w] = <<>>]
    /\ size' = [size EXCEPT ![w] = 0]
    /\ made' = [made EXCEPT ![w] = 0]

Start(w, j) ==
    /\ pc[w] = "idle"
    /\ TakeJob(w, j)
    /\ cur' = [cur EXCEPT ![w] = j]
    /\ GoTo(w, "read")
    /\ UNCHANGED <<orderVars, rowVars, clicks, offset, page, size, made, historyVars>>

ReadCursor(w) ==
    /\ pc[w] = "read"
    /\ offset' = [offset EXCEPT ![w] = cursor]
    /\ GoTo(w, "list")
    /\ UNCHANGED <<queueVars, orderVars, rowVars, clicks, cur, page, size, made, historyVars>>

PageAt(n) == SubSeq(Listing, n + 1, Min({n + PageSize, Len(Listing)}))

List(w) ==
    /\ pc[w] = "list"
    /\ LET orders == PageAt(offset[w]) IN
       /\ page' = [page EXCEPT ![w] = orders]
       /\ size' = [size EXCEPT ![w] = Len(orders)]
       /\ GoTo(w, IF orders = <<>> THEN "reset" ELSE "find")
    /\ UNCHANGED <<queueVars, orderVars, rowVars, clicks, cur, offset, made, historyVars>>

(* Faulty variant: the offset stays at the end of the list. *)
NoReset(w) ==
    /\ pc[w] = "reset"
    /\ GoTo(w, "done")
    /\ UNCHANGED <<queueVars, orderVars, rowVars, clicks, cur, offset, page, size, made,
                   historyVars>>

(* An empty page: start over. *)
ResetCursor(w) ==
    /\ pc[w] = "reset"
    /\ cursor' = IF offset[w] > 0 THEN 0 ELSE cursor
    /\ GoTo(w, "done")
    /\ UNCHANGED <<queueVars, orderVars, mapped, legacyRow, clicks, cur, offset, page, size,
                   made, historyVars>>

NextOrder(w) ==
    /\ page' = [page EXCEPT ![w] = Tail(@)]
    /\ GoTo(w, IF Len(page[w]) = 1 THEN "advance" ELSE "find")
    /\ made' = [made EXCEPT ![w] = 0]
    /\ UNCHANGED <<cur, offset, size>>

(* Faulty variant: importOneOrder does not look for a row. *)
NeverFound(w) ==
    /\ pc[w] = "find"
    /\ GoTo(w, "legacy")
    /\ UNCHANGED <<queueVars, orderVars, rowVars, clicks, cur, offset, page, size, made,
                   historyVars>>

(* findByDecathlonOrderId *)
FindOrder(w) ==
    /\ pc[w] = "find"
    /\ IF mapped[Head(page[w])] # 0 THEN NextOrder(w)
       ELSE GoTo(w, "legacy") /\ UNCHANGED <<cur, offset, page, size, made>>
    /\ UNCHANGED <<queueVars, orderVars, rowVars, clicks, historyVars>>

(* repairLegacyId: a row under the commercial id is the same order. *)
RepairLegacyId(w) ==
    /\ pc[w] = "legacy"
    /\ Head(page[w]) \in legacyRow
    /\ IF mapped[Head(page[w])] = 0
       THEN /\ mapped' = [mapped EXCEPT ![Head(page[w])] = 1]
            /\ legacyRow' = legacyRow \ {Head(page[w])}
       ELSE UNCHANGED <<mapped, legacyRow>> \* the unique constraint refuses it
    /\ NextOrder(w)
    /\ UNCHANGED <<queueVars, orderVars, cursor, clicks, historyVars>>

NotImported(w) ==
    /\ pc[w] = "legacy"
    /\ Head(page[w]) \notin legacyRow
    /\ GoTo(w, "create")
    /\ UNCHANGED <<queueVars, orderVars, rowVars, clicks, cur, offset, page, size, made,
                   historyVars>>

OrderCreate(w) ==
    /\ pc[w] = "create"
    /\ Head(page[w]) \notin Refused
    /\ copies' = [copies EXCEPT ![Head(page[w])] = @ + 1]
    /\ made' = [made EXCEPT ![w] = copies[Head(page[w])] + 1]
    /\ GoTo(w, "map")
    /\ UNCHANGED <<queueVars, where, rowVars, clicks, cur, offset, page, size, historyVars>>

(* orderCreate answers with userErrors. *)
OrderRefused(w) ==
    /\ pc[w] = "create"
    /\ Head(page[w]) \in Refused
    /\ NextOrder(w)
    /\ UNCHANGED <<queueVars, orderVars, rowVars, clicks, historyVars>>

(* Faulty variant: no row is written. *)
NoRow(w) ==
    /\ pc[w] = "map"
    /\ NextOrder(w)
    /\ UNCHANGED <<queueVars, orderVars, rowVars, clicks, historyVars>>

CreateIfNotExists(w) ==
    /\ pc[w] = "map"
    /\ mapped' = [mapped EXCEPT ![Head(page[w])] = IF @ = 0 THEN made[w] ELSE @]
    /\ NextOrder(w)
    /\ UNCHANGED <<queueVars, orderVars, legacyRow, cursor, clicks, historyVars>>

(* The offset moves over the page, whatever became of its orders. *)
Advance(w) ==
    /\ pc[w] = "advance"
    /\ cursor' = offset[w] + size[w]
    /\ GoTo(w, "done")
    /\ UNCHANGED <<queueVars, orderVars, mapped, legacyRow, clicks, cur, offset, page, size,
                   made, historyVars>>

Complete(w) ==
    /\ pc[w] = "done"
    /\ CompleteJob(w, cur[w])
    /\ EndRun(w)
    /\ UNCHANGED <<orderVars, rowVars, clicks, historyVars>>

-----------------------------------------------------------------------------
(* Failures                                                                *)

Fault == faults < MaxFaults /\ faults' = faults + 1

(* What an exception or a death leaves behind: Shopify may have created    *)
(* the order although no answer came, and a created one is not mapped.     *)
Interrupted(w) ==
    \/ /\ pc[w] = "create" /\ Head(page[w]) \notin Refused
       /\ copies' = [copies EXCEPT ![Head(page[w])] = @ + 1]
       /\ doubt' = doubt \cup {Head(page[w])}
    \/ /\ copies' = copies
       /\ doubt' = IF pc[w] = "map" THEN doubt \cup {Head(page[w])} ELSE doubt

(* An exception in importOneOrder is logged, and the next order follows. *)
OrderFails(w) ==
    /\ pc[w] \in InOrder
    /\ Fault
    /\ Interrupted(w)
    /\ NextOrder(w)
    /\ UNCHANGED <<queueVars, where, rowVars, clicks>>

(* Any other exception ends the run; only a manual run has attempts left. *)
Throw(w) ==
    /\ pc[w] \in {"read", "list", "reset", "find", "advance"}
    /\ Fault
    /\ IF cur[w] = "poll" THEN FailForGood(w, cur[w]) ELSE FailJob(w, cur[w])
    /\ EndRun(w)
    /\ UNCHANGED <<orderVars, rowVars, clicks, doubt>>

Crash(w) ==
    /\ pc[w] # "idle"
    /\ Fault
    /\ Interrupted(w)
    /\ EndRun(w)
    /\ UNCHANGED <<queueVars, where, rowVars, clicks>>

Running(w, j) == pc[w] # "idle" /\ cur[w] = j

RecoverStalled(j) ==
    /\ ~(holder[j] \in Workers /\ Running(holder[j], j))
    /\ StallJob(j)
    /\ UNCHANGED <<orderVars, rowVars, clicks, runVars, historyVars>>

-----------------------------------------------------------------------------
ImportOne(w) ==
    \/ FindOrder(w)
    \/ RepairLegacyId(w)
    \/ NotImported(w)
    \/ OrderCreate(w)
    \/ OrderRefused(w)
    \/ CreateIfNotExists(w)

Step(w) ==
    \/ \E j \in Jobs : Start(w, j)
    \/ ReadCursor(w)
    \/ List(w)
    \/ ResetCursor(w)
    \/ ImportOne(w)
    \/ Advance(w)
    \/ Complete(w)

Next ==
    \/ \E o \in Orders : EnterShipping(o) \/ LeaveShipping(o) \/ Rekey(o)
    \/ Tick
    \/ EnqueueOrderImportNow
    \/ \E w \in Workers : Step(w) \/ OrderFails(w) \/ Throw(w) \/ Crash(w)
    \/ \E j \in Jobs : RecoverStalled(j)

Spec == Init /\ [][Next]_vars

(* The poll keeps coming due, processors run what is queued, and BullMQ    *)
(* finds stalled jobs.                                                     *)
FairSpec ==
    /\ Spec
    /\ WF_vars(Tick)
    /\ \A w \in Workers : WF_vars(Step(w))
    /\ \A j \in Jobs : WF_vars(RecoverStalled(j))

-----------------------------------------------------------------------------
(* Properties                                                              *)

(* A second Shopify order needs a failure between the orderCreate of the   *)
(* first and its OrderMapping (engine.ts:827-843), or a legacy row that is *)
(* rekeyed while the order is looked up: reruns and overlapping pages      *)
(* alone never make one (engine.ts:735).                                   *)
CopiesNeedDoubt == \A o \in Orders \ Rekeyed : copies[o] > 1 => o \in doubt

(* A Decathlon order that has a Shopify order but no OrderMapping (its     *)
(* fulfillments and refunds are ignored) is one a run is about to map, or  *)
(* one a failure hit (engine.ts:827-843).                                  *)
CopyIsMapped ==
    \A o \in Orders :
        copies[o] > 0 =>
            \/ mapped[o] # 0 \/ o \in legacyRow \cup doubt
            \/ \E w \in Workers : pc[w] = "map" /\ Head(page[w]) = o

(* "catch-up across many pages happens over multiple scheduled runs"       *)
(* (engine.ts:734): an order that stays in SHIPPING is imported, although  *)
(* the offset passes orders that failed and listings shift under it.       *)
ImportedInTheEnd ==
    \A o \in Orders \ Refused :
        where[o] = "shipping" ~> (mapped[o] # 0 \/ where[o] # "shipping")

=============================================================================
