-------------------------- MODULE OrderImportProofs --------------------------
(***************************************************************************)
(* Proofs about OrderImport, for any orders, any legacy rows, any number   *)
(* of runs and failures: which Decathlon order may have two Shopify        *)
(* orders, and which Shopify order may be without a row.                   *)
(***************************************************************************)
EXTENDS OrderImport, FiniteSetTheorems, SequenceTheorems, WellFoundedInduction, TLAPS

RowsTyped == copies \in [Orders -> Nat] /\ mapped \in [Orders -> Nat]

RunsTyped ==
    /\ pc \in [Workers -> Places]
    /\ page = [w \in Workers |-> page[w]]
    /\ made = [w \in Workers |-> made[w]]

(* The order a processor is at. *)
Order(w) == Head(page[w])

(* A run about to write a row has a copy to name in it. *)
MadeIsACopy == \A w \in Workers : pc[w] = "map" /\ Order(w) \in Orders => made[w] \in Nat \ {0}

IInv == RowsTyped /\ RunsTyped /\ MadeIsACopy /\ CopyIsMapped

USE DEF Places, runVars, InOrder, Order, queueVars, orderVars, rowVars, historyVars, GoTo, EndRun,
    NextOrder, Fault, Interrupted

LEMMA InitIInv == Init => IInv
  BY DEF Init, IInv, RowsTyped, RunsTyped, MadeIsACopy, CopyIsMapped

USE DEF IInv, RowsTyped, RunsTyped, MadeIsACopy, CopyIsMapped

LEMMA RekeyKeeps == ASSUME NEW o \in Orders, IInv, Rekey(o) PROVE IInv'
<1>1. RowsTyped'
  BY DEF Rekey
<1>4. RunsTyped'
  BY DEF Rekey
<1>2. MadeIsACopy'
  BY DEF Rekey
<1>3. CopyIsMapped'
  BY DEF Rekey
<1> QED
  BY <1>1, <1>2, <1>3, <1>4

LEMMA FindOrderKeeps == ASSUME NEW w \in Workers, IInv, FindOrder(w) PROVE IInv'
<1>1. RowsTyped'
  BY DEF FindOrder
<1>4. RunsTyped'
  BY DEF FindOrder
<1>2. MadeIsACopy'
  BY DEF FindOrder
<1>3. CopyIsMapped'
  BY DEF FindOrder
<1> QED
  BY <1>1, <1>2, <1>3, <1>4

LEMMA RepairLegacyIdKeeps == ASSUME NEW w \in Workers, IInv, RepairLegacyId(w) PROVE IInv'
<1>1. RowsTyped'
  <2>1. CASE mapped[Order(w)] = 0
    <3>1. mapped' = [mapped EXCEPT ![Order(w)] = 1] /\ copies' = copies
      BY <2>1 DEF RepairLegacyId
    <3> QED
      BY <3>1
  <2>2. CASE mapped[Order(w)] # 0
    BY <2>2 DEF RepairLegacyId
  <2> QED
    BY <2>1, <2>2
<1>4. RunsTyped'
  BY DEF RepairLegacyId
<1>2. MadeIsACopy'
  BY DEF RepairLegacyId
<1>3. CopyIsMapped'
  <2> SUFFICES ASSUME NEW o \in Orders, copies[o] > 0, mapped'[o] = 0,
                      o \notin legacyRow' \cup doubt
               PROVE  \E v \in Workers : pc'[v] = "map" /\ Head(page'[v]) = o
    BY DEF RepairLegacyId
  <2>1. mapped[o] = 0 /\ o \notin legacyRow
    BY DEF RepairLegacyId
  <2>2. PICK v \in Workers : pc[v] = "map" /\ Head(page[v]) = o
    BY <2>1
  <2> QED
    BY <2>2 DEF RepairLegacyId
<1> QED
  BY <1>1, <1>2, <1>3, <1>4

LEMMA OrderCreateKeeps == ASSUME NEW w \in Workers, IInv, OrderCreate(w) PROVE IInv'
<1>1. RowsTyped'
  <2>1. CASE Order(w) \in Orders
    BY <2>1 DEF OrderCreate
  <2>2. CASE Order(w) \notin Orders
    BY <2>2 DEF OrderCreate
  <2> QED
    BY <2>1, <2>2
<1>4. RunsTyped'
  BY DEF OrderCreate
<1>2. MadeIsACopy'
  BY DEF OrderCreate
<1>3. CopyIsMapped'
  BY DEF OrderCreate
<1> QED
  BY <1>1, <1>2, <1>3, <1>4

LEMMA CreateIfNotExistsKeeps == ASSUME NEW w \in Workers, IInv, CreateIfNotExists(w) PROVE IInv'
<1>1. RowsTyped'
  BY DEF CreateIfNotExists
<1>4. RunsTyped'
  BY DEF CreateIfNotExists
<1>2. MadeIsACopy'
  BY DEF CreateIfNotExists
<1>3. CopyIsMapped'
  BY DEF CreateIfNotExists
<1> QED
  BY <1>1, <1>2, <1>3, <1>4

LEMMA OrderFailsKeeps == ASSUME NEW w \in Workers, IInv, OrderFails(w) PROVE IInv'
<1>1. RowsTyped'
  BY DEF OrderFails
<1>4. RunsTyped'
  BY DEF OrderFails
<1>2. MadeIsACopy'
  BY DEF OrderFails
<1>3. CopyIsMapped'
  BY DEF OrderFails
<1> QED
  BY <1>1, <1>2, <1>3, <1>4

LEMMA CrashKeeps == ASSUME NEW w \in Workers, IInv, Crash(w) PROVE IInv'
<1>1. RowsTyped'
  BY DEF Crash
<1>4. RunsTyped'
  BY DEF Crash
<1>2. MadeIsACopy'
  BY DEF Crash
<1>3. CopyIsMapped'
  BY DEF Crash
<1> QED
  BY <1>1, <1>2, <1>3, <1>4

LEMMA ThrowKeeps == ASSUME NEW w \in Workers, IInv, Throw(w) PROVE IInv'
  BY DEF Throw

LEMMA OtherStepsKeep ==
  ASSUME NEW w \in Workers, IInv,
         \/ \E j \in Jobs : Start(w, j)
         \/ ReadCursor(w) \/ List(w) \/ ResetCursor(w) \/ Advance(w) \/ Complete(w)
         \/ NotImported(w) \/ OrderRefused(w)
  PROVE  IInv'
<1>1. CASE \E j \in Jobs : Start(w, j)
  BY <1>1 DEF Start
<1>2. CASE ReadCursor(w) \/ NotImported(w)
  BY <1>2 DEF ReadCursor, NotImported
<1>3. CASE List(w)
  BY <1>3 DEF List
<1>4. CASE ResetCursor(w) \/ Advance(w)
  BY <1>4 DEF ResetCursor, Advance
<1>5. CASE Complete(w)
  BY <1>5 DEF Complete
<1>6. CASE OrderRefused(w)
  BY <1>6 DEF OrderRefused
<1> QED
  BY <1>1, <1>2, <1>3, <1>4, <1>5, <1>6

LEMMA OutsideKeeps ==
  ASSUME IInv,
         \/ \E o \in Orders : EnterShipping(o) \/ LeaveShipping(o)
         \/ Tick \/ EnqueueOrderImportNow
         \/ \E j \in Jobs : RecoverStalled(j)
         \/ UNCHANGED vars
  PROVE  IInv'
  BY DEF EnterShipping, LeaveShipping, Tick, EnqueueOrderImportNow, RecoverStalled, vars

LEMMA StepIInv == ASSUME IInv, [Next]_vars PROVE IInv'
  BY RekeyKeeps, FindOrderKeeps, RepairLegacyIdKeeps, OrderCreateKeeps, CreateIfNotExistsKeeps,
     OrderFailsKeeps, CrashKeeps, ThrowKeeps, OtherStepsKeep, OutsideKeeps
     DEF Next, Step, ImportOne

(* A Shopify order this app made for a Decathlon order has a row, is about *)
(* to get one, or was hit by a failure (importOneOrder), however many runs *)
(* import at once.                                                         *)
THEOREM EveryCopyIsMapped == Spec => []CopyIsMapped
<1>1. IInv /\ [Next]_vars => IInv'
  BY StepIInv
<1>2. IInv => CopyIsMapped
  OBVIOUS
<1> QED
  BY <1>1, <1>2, InitIInv, PTL DEF Spec

-----------------------------------------------------------------------------
(* One import runs at a time: the concurrency of the worker                *)
(* (worker/src/index.ts:158), as long as there is one worker process.      *)
OneRun == \A v, w \in Workers : pc[v] # "idle" /\ pc[w] # "idle" => v = w

(* The orders that only a run touches, and no failure has hit. *)
Untouched == Orders \ (Rekeyed \cup doubt)

AtMostOneCopy == \A o \in Untouched : copies[o] <= 1

(* What the run has found out still holds when it acts on it. *)
LookedUp ==
    \A w \in Workers :
        Order(w) \in Untouched =>
            /\ pc[w] \in {"legacy", "create"} => mapped[Order(w)] = 0
            /\ pc[w] = "create" => Order(w) \notin legacyRow

AloneInv == IInv /\ AtMostOneCopy /\ LookedUp

LEMMA AloneInit == Init => AloneInv
  BY InitIInv, OrderAssumption DEF AloneInv, AtMostOneCopy, LookedUp, Untouched, Init

LEMMA AloneStep == ASSUME OneRun, OneRun', AloneInv, [Next]_vars, IInv' PROVE AloneInv'
<1> USE DEF AloneInv, AtMostOneCopy, LookedUp, Untouched, OneRun
<1>1. ASSUME NEW o \in Orders, EnterShipping(o) \/ LeaveShipping(o) PROVE AloneInv'
  BY <1>1 DEF EnterShipping, LeaveShipping
<1>2. ASSUME NEW o \in Orders, Rekey(o) PROVE AloneInv'
  BY <1>2 DEF Rekey
<1>3. CASE Tick \/ EnqueueOrderImportNow
  BY <1>3 DEF Tick, EnqueueOrderImportNow
<1>4. ASSUME NEW w \in Workers, NEW j \in Jobs, Start(w, j) PROVE AloneInv'
  BY <1>4 DEF Start
<1>5. ASSUME NEW w \in Workers, ReadCursor(w) \/ List(w) \/ ResetCursor(w) \/ Advance(w)
      PROVE AloneInv'
  <2>1. UNCHANGED <<copies, mapped, legacyRow, doubt>> /\ pc'[w] \notin {"legacy", "create"}
    BY <1>5 DEF ReadCursor, List, ResetCursor, Advance
  <2>2. \A v \in Workers \ {w} : pc'[v] = pc[v] /\ page'[v] = page[v]
    BY <1>5 DEF ReadCursor, List, ResetCursor, Advance
  <2> QED
    BY <2>1, <2>2
<1>6. ASSUME NEW w \in Workers, FindOrder(w) PROVE AloneInv'
  BY <1>6 DEF FindOrder
<1>7. ASSUME NEW w \in Workers, RepairLegacyId(w) PROVE AloneInv'
  BY <1>7 DEF RepairLegacyId
<1>8. ASSUME NEW w \in Workers, NotImported(w) PROVE AloneInv'
  BY <1>8 DEF NotImported
<1>9. ASSUME NEW w \in Workers, OrderCreate(w) PROVE AloneInv'
  <2>1. Order(w) \in Untouched => copies[Order(w)] = 0
    BY <1>9 DEF OrderCreate, CopyIsMapped
  <2> QED
    BY <1>9, <2>1 DEF OrderCreate
<1>10. ASSUME NEW w \in Workers, OrderRefused(w) PROVE AloneInv'
  BY <1>10 DEF OrderRefused
<1>11. ASSUME NEW w \in Workers, CreateIfNotExists(w) PROVE AloneInv'
  BY <1>11 DEF CreateIfNotExists
<1>12. ASSUME NEW w \in Workers, OrderFails(w) PROVE AloneInv'
  BY <1>12 DEF OrderFails
<1>13. ASSUME NEW w \in Workers, Crash(w) PROVE AloneInv'
  BY <1>13 DEF Crash
<1>14. ASSUME NEW w \in Workers, Throw(w) \/ Complete(w) PROVE AloneInv'
  <2>1. UNCHANGED <<copies, mapped, legacyRow, doubt>>
    BY <1>14 DEF Throw, Complete
  <2>2. \A v \in Workers : pc'[v] # "idle" => pc'[v] = pc[v] /\ page'[v] = page[v]
    BY <1>14 DEF Throw, Complete
  <2> QED
    BY <2>1, <2>2
<1>15. CASE UNCHANGED vars
  BY <1>15 DEF vars
<1>16. ASSUME NEW j \in Jobs, RecoverStalled(j) PROVE AloneInv'
  BY <1>16 DEF RecoverStalled
<1> QED
  BY <1>1, <1>2, <1>3, <1>4, <1>5, <1>6, <1>7, <1>8, <1>9, <1>10, <1>11, <1>12, <1>13, <1>14,
     <1>15, <1>16 DEF Next, Step, ImportOne

(* While imports run one at a time, a Decathlon order gets a second        *)
(* Shopify order only after a failure between orderCreate and its row,     *)
(* unless it is a legacy order that loadOrder may rekey meanwhile:         *)
(* whatever the page size, the reruns and the overlap of pages.            *)
THEOREM SecondCopyNeedsDoubt == Spec /\ []OneRun => []CopiesNeedDoubt
<1>1. AloneInv /\ OneRun /\ OneRun' /\ [Next]_vars => AloneInv'
  BY StepIInv, AloneStep DEF AloneInv
<1>2. AloneInv => CopiesNeedDoubt
  BY DEF AloneInv, AtMostOneCopy, Untouched, CopiesNeedDoubt
<1> QED
  BY <1>1, <1>2, AloneInit, PTL DEF Spec

-----------------------------------------------------------------------------
(* The list of orders                                                      *)

(* Any finite set of numbers can be listed in ascending order, so that     *)
(* Listing is the list OR11 returns.  By the smallest set that cannot:     *)
(* what is left of it without its least element can.                       *)
Ascending(S) ==
    {s \in [1..Cardinality(S) -> S] : \A i, j \in 1..Cardinality(S) : i < j => s[i] < s[j]}

LEMMA LeastNumber ==
  ASSUME NEW T, T \subseteq Nat, T # {}
  PROVE  \E x \in T : \A y \in T : x <= y
<1> DEFINE R == OpToRel(<, Nat)
<1>1. PICK x \in T : \A y \in T : <<y, x>> \notin R
  <2>1. IsWellFoundedOn(R, Nat)
    BY NatLessThanWellFounded
  <2> HIDE DEF R
  <2> QED
    BY <2>1, WFMin
<1>2. \A y \in T : ~(y < x)
  BY <1>1 DEF OpToRel
<1> HIDE DEF R
<1> QED
  BY <1>2

LEMMA LeastFirst ==
  ASSUME NEW S, IsFiniteSet(S), S \subseteq Nat, NEW m \in S, \A x \in S : m <= x,
         Ascending(S \ {m}) # {}
  PROVE  Ascending(S) # {}
<1> DEFINE n == Cardinality(S)
<1>1. n \in Nat /\ n > 0 /\ Cardinality(S \ {m}) = n - 1
  <2>1. n \in Nat /\ Cardinality(S \ {m}) \in Nat /\ Cardinality(S \ {m}) = n - 1
    BY FS_CardinalityType, FS_RemoveElement
  <2> QED
    BY <2>1
<1> HIDE DEF n
<1>2. PICK r \in [1..(n - 1) -> S \ {m}] : \A i, j \in 1..(n - 1) : i < j => r[i] < r[j]
  BY <1>1 DEF Ascending
<1> DEFINE s == [i \in 1..n |-> IF i = 1 THEN m ELSE r[i - 1]]
<1>3. s \in [1..n -> S]
  BY <1>1, <1>2
<1>4. ASSUME NEW i \in 1..n, NEW j \in 1..n, i < j PROVE s[i] < s[j]
  <2>1. j # 1 /\ j - 1 \in 1..(n - 1) /\ s[j] = r[j - 1] /\ r[j - 1] \in S \ {m}
    BY <1>1, <1>2, <1>4
  <2>2. CASE i = 1
    <3>1. s[i] = m /\ m \in Nat /\ r[j - 1] \in Nat /\ m <= r[j - 1] /\ m # r[j - 1]
      BY <2>1, <2>2
    <3> QED
      BY <2>1, <3>1
  <2>3. CASE i # 1
    <3>1. i - 1 \in 1..(n - 1) /\ s[i] = r[i - 1] /\ i - 1 < j - 1
      BY <1>1, <1>4, <2>3
    <3> QED
      BY <1>2, <2>1, <3>1
  <2> QED
    BY <2>2, <2>3
<1> HIDE DEF s
<1> QED
  BY <1>3, <1>4 DEF Ascending, n

LEMMA Sortable == ASSUME NEW S, IsFiniteSet(S), S \subseteq Nat PROVE Ascending(S) # {}
<1> DEFINE Stuck == {X \in SUBSET S : Ascending(X) = {}}
           T == {Cardinality(X) : X \in Stuck}
<1>1. \A X \in SUBSET S : IsFiniteSet(X) /\ Cardinality(X) \in Nat /\ X \subseteq Nat
  BY FS_Subset, FS_CardinalityType
<1>2. SUFFICES ASSUME S \in Stuck PROVE FALSE
  OBVIOUS
<1>3. T \subseteq Nat /\ T # {}
  BY <1>1, <1>2
<1>4. PICK c \in T : \A d \in T : c <= d
  <2> HIDE DEF T
  <2> QED
    BY <1>3, LeastNumber
<1>5. PICK X \in Stuck : c = Cardinality(X)
  OBVIOUS
<1>6. X # {}
  <2>1. Cardinality({}) = 0
    BY FS_EmptySet
  <2>2. [i \in 1..0 |-> 0] \in Ascending({})
    <3>1. 1..0 = {}
      OBVIOUS
    <3> QED
      BY <2>1, <3>1 DEF Ascending
  <2> QED
    BY <1>5, <2>2
<1>7. PICK m \in X : \A x \in X : m <= x
  <2>1. X \subseteq Nat
    BY <1>1
  <2> QED
    BY <1>6, <2>1, LeastNumber
<1>8. X \ {m} \in SUBSET S /\ Cardinality(X \ {m}) = c - 1 /\ c \in Nat
  BY <1>1, <1>5, FS_RemoveElement
<1>9. Ascending(X \ {m}) # {}
  <2>1. X \ {m} \in Stuck => c <= c - 1
    BY <1>4, <1>8
  <2>2. X \ {m} \notin Stuck
    <3>1. ~(c <= c - 1)
      BY ONLY <1>8
    <3> QED
      BY Zenon, <2>1, <3>1
  <2>3. \A Y \in SUBSET S : Y \in Stuck \/ Ascending(Y) # {}
    OBVIOUS
  <2> HIDE DEF Stuck
  <2> QED
    BY <1>8, <2>2, <2>3
<1> QED
  BY <1>1, <1>5, <1>7, <1>9, LeastFirst

LEMMA ListingIsList ==
  /\ Listing \in Seq(Orders) /\ Len(Listing) <= Cardinality(Orders)
  /\ Cardinality(Orders) \in Nat
<1>1. Shipping \subseteq Orders /\ IsFiniteSet(Orders) /\ Orders \subseteq Nat
  BY OrderAssumption DEF Shipping
<1>2. /\ IsFiniteSet(Shipping) /\ Cardinality(Shipping) \in Nat /\ Cardinality(Orders) \in Nat
      /\ Cardinality(Shipping) <= Cardinality(Orders)
  BY <1>1, FS_Subset, FS_CardinalityType
<1>3. \E s \in [1..Cardinality(Shipping) -> Shipping] :
         \A i, j \in DOMAIN s : i < j => s[i] < s[j]
  <2>1. PICK s \in Ascending(Shipping) : TRUE
    BY <1>1, <1>2, Sortable
  <2> QED
    BY <2>1 DEF Ascending
<1>4. Listing \in [1..Cardinality(Shipping) -> Shipping]
  BY <1>3 DEF Listing
<1>5. Listing \in Seq(Orders) /\ Len(Listing) = Cardinality(Shipping)
  <2> DEFINE n == Cardinality(Shipping)
  <2> HIDE DEF n
  <2>1. ASSUME NEW s \in [1..n -> Orders], n \in Nat PROVE s \in Seq(Orders) /\ Len(s) = n
    BY <2>1
  <2>2. Listing \in [1..n -> Orders] /\ n \in Nat
    BY <1>1, <1>2, <1>4 DEF n
  <2> QED
    BY <2>1, <2>2 DEF n
<1> QED
  BY <1>2, <1>5

(* A page starts at the offset and stays within the list.                  *)
LEMMA PageIsWithin ==
  ASSUME NEW n \in 0..Cardinality(Orders)
  PROVE  /\ PageAt(n) \in Seq(Orders) /\ Len(PageAt(n)) \in 0..PageSize
         /\ n + Len(PageAt(n)) \in 0..Cardinality(Orders)
<1> DEFINE l == Len(Listing)
           top == Min({n + PageSize, l})
<1>1. Listing \in Seq(Orders) /\ l \in Nat /\ l <= Cardinality(Orders) /\ PageSize \in Nat \ {0}
      /\ Cardinality(Orders) \in Nat /\ n \in Nat
  BY ListingIsList, OrderAssumption
<1> HIDE DEF l
<1>2. top \in Nat /\ top <= l /\ top <= n + PageSize /\ (top = l \/ top = n + PageSize)
  <2>1. \E x \in {n + PageSize, l} : \A y \in {n + PageSize, l} : x <= y
    BY <1>1
  <2>2. top \in {n + PageSize, l} /\ \A y \in {n + PageSize, l} : top <= y
    BY <2>1 DEF Min
  <2> QED
    BY <1>1, <2>2
<1>3. PageAt(n) = SubSeq(Listing, n + 1, top)
  BY DEF PageAt, l
<1> HIDE DEF top
<1>4. \A i \in (n + 1)..top : Listing[i] \in Orders
  BY <1>1, <1>2 DEF l
<1>5. /\ SubSeq(Listing, n + 1, top) \in Seq(Orders)
      /\ Len(SubSeq(Listing, n + 1, top)) = IF n + 1 <= top THEN top - (n + 1) + 1 ELSE 0
  <2>1. n + 1 \in Int /\ top \in Int
    BY <1>1, <1>2
  <2> QED
    BY <1>4, <2>1, SubSeqProperties
<1> QED
  BY <1>1, <1>2, <1>3, <1>5

-----------------------------------------------------------------------------
(* The types                                                               *)

CountersTyped == QueueTypeOK /\ QueueBudget

OrdersTyped ==
    /\ where \in [Orders -> {"future", "shipping", "gone"}]
    /\ legacyRow \subseteq Legacy
    /\ clicks \in 0..MaxClicks /\ faults \in 0..MaxFaults
    /\ cur \in [Workers -> Jobs]

(* A run in the middle of a page has an order to import, and the offset it *)
(* will store lies within the orders that there are.                       *)
PagesTyped ==
    /\ cursor \in 0..Cardinality(Orders)
    /\ offset \in [Workers -> 0..Cardinality(Orders)]
    /\ size \in [Workers -> 0..PageSize]
    /\ made \in [Workers -> Nat]
    /\ page \in [Workers -> Seq(Orders)]
    /\ \A w \in Workers :
          /\ offset[w] + size[w] <= Cardinality(Orders)
          /\ Len(page[w]) <= size[w]
          /\ pc[w] \in InOrder => page[w] # <<>>
          /\ pc[w] \in {"idle", "read", "list"} => size[w] = 0
    /\ doubt \subseteq Orders

LEMMA OrderQueueTyped ==
  ASSUME CountersTyped, NEW w, NEW j \in Jobs,
         \/ RenewJob(j) \/ StallJob(j) \/ CompleteJob(w, j) \/ FailJob(w, j) \/ FailForGood(w, j)
         \/ w \in Workers /\ TakeJob(w, j)
         \/ UNCHANGED queueVars
  PROVE  CountersTyped'
<1> USE QueueAssumption DEF CountersTyped, QueueTypeOK, QueueBudget, JobStates, Known, Ended, Holds
<1>1. CASE RenewJob(j)
  BY <1>1 DEF RenewJob
<1>2. CASE StallJob(j)
  BY <1>2 DEF StallJob
<1>3. CASE CompleteJob(w, j)
  BY <1>3 DEF CompleteJob
<1>4. CASE FailJob(w, j)
  BY <1>4 DEF FailJob
<1>5. CASE FailForGood(w, j)
  BY <1>5 DEF FailForGood
<1>6. CASE w \in Workers /\ TakeJob(w, j)
  BY <1>6 DEF TakeJob
<1>7. CASE UNCHANGED queueVars
  BY <1>7
<1> QED
  BY <1>1, <1>2, <1>3, <1>4, <1>5, <1>6, <1>7

LEMMA StepCountersTyped ==
  ASSUME OrdersTyped, CountersTyped, [Next]_vars
  PROVE  CountersTyped'
<1>0. Jobs = {"poll", "manual"} /\ \A w \in Workers : cur[w] \in Jobs
  BY OrderAssumption DEF OrdersTyped
<1>a. ASSUME UNCHANGED queueVars PROVE CountersTyped'
  BY <1>0, <1>a, OrderQueueTyped
<1>1. CASE Tick \/ EnqueueOrderImportNow
  BY <1>0, <1>1, OrderQueueTyped DEF Tick, EnqueueOrderImportNow
<1>2. ASSUME NEW w \in Workers, Step(w) \/ OrderFails(w) \/ Throw(w) \/ Crash(w)
      PROVE  CountersTyped'
  <2>1. CASE \E j \in Jobs : Start(w, j)
    BY <2>1, OrderQueueTyped DEF Start
  <2>2. CASE Complete(w) \/ Throw(w)
    BY <1>0, <2>2, OrderQueueTyped DEF Complete, Throw
  <2>3. CASE ReadCursor(w) \/ List(w) \/ ResetCursor(w) \/ ImportOne(w) \/ Advance(w)
             \/ OrderFails(w) \/ Crash(w)
    <3>1. UNCHANGED queueVars
      BY <2>3 DEF ReadCursor, List, ResetCursor, Advance, OrderFails, Crash, ImportOne, FindOrder,
         RepairLegacyId, NotImported, OrderCreate, OrderRefused, CreateIfNotExists
    <3> QED
      BY <1>a, <3>1
  <2> QED
    BY <1>2, <2>1, <2>2, <2>3 DEF Step
<1>3. ASSUME NEW j \in Jobs, RecoverStalled(j) PROVE CountersTyped'
  BY <1>3, OrderQueueTyped DEF RecoverStalled
<1>4. CASE (\E o \in Orders : EnterShipping(o) \/ LeaveShipping(o) \/ Rekey(o)) \/ UNCHANGED vars
  <2>1. UNCHANGED queueVars
    BY <1>4 DEF EnterShipping, LeaveShipping, Rekey, vars
  <2> QED
    BY <1>a, <2>1
<1> QED
  BY <1>1, <1>2, <1>3, <1>4 DEF Next

LEMMA StepOrdersTyped == ASSUME OrdersTyped, [Next]_vars PROVE OrdersTyped'
<1>0. Jobs = {"poll", "manual"} /\ MaxClicks \in Nat /\ MaxFaults \in Nat
  BY OrderAssumption
<1> USE <1>0 DEF OrdersTyped
<1>1. ASSUME NEW o \in Orders, EnterShipping(o) \/ LeaveShipping(o) \/ Rekey(o) PROVE OrdersTyped'
  BY <1>1 DEF EnterShipping, LeaveShipping, Rekey
<1>2. CASE Tick \/ EnqueueOrderImportNow
  BY <1>2 DEF Tick, EnqueueOrderImportNow
<1>3. ASSUME NEW w \in Workers, ImportOne(w) \/ OrderFails(w) PROVE OrdersTyped'
  <2>1. CASE FindOrder(w) \/ NotImported(w) \/ OrderCreate(w) \/ OrderRefused(w)
    BY <2>1 DEF FindOrder, NotImported, OrderCreate, OrderRefused
  <2>2. CASE RepairLegacyId(w) \/ CreateIfNotExists(w)
    BY <2>2 DEF RepairLegacyId, CreateIfNotExists
  <2>3. CASE OrderFails(w)
    BY <2>3 DEF OrderFails
  <2> QED
    BY <1>3, <2>1, <2>2, <2>3 DEF ImportOne
<1>4. ASSUME NEW w \in Workers, NEW j \in Jobs, Start(w, j) PROVE OrdersTyped'
  BY <1>4 DEF Start
<1>5. ASSUME NEW w \in Workers, ReadCursor(w) \/ List(w) \/ ResetCursor(w) \/ Advance(w)
      PROVE  OrdersTyped'
  BY <1>5 DEF ReadCursor, List, ResetCursor, Advance
<1>6. ASSUME NEW w \in Workers, Complete(w) \/ Throw(w) \/ Crash(w) PROVE OrdersTyped'
  BY <1>6 DEF Complete, Throw, Crash
<1>7. CASE (\E j \in Jobs : RecoverStalled(j)) \/ UNCHANGED vars
  BY <1>7 DEF RecoverStalled, vars
<1> QED
  BY <1>1, <1>2, <1>3, <1>4, <1>5, <1>6, <1>7 DEF Next, Step

LEMMA NextOrderKeepsPages ==
  ASSUME PagesTyped, IInv, NEW w \in Workers, pc[w] \in InOrder, NextOrder(w),
         cursor' = cursor, doubt' \subseteq Orders
  PROVE  PagesTyped'
<1> USE DEF PagesTyped
<1>0. PageSize \in Nat
  BY OrderAssumption
<1>1. page[w] \in Seq(Orders) /\ page[w] # <<>> /\ pc \in [Workers -> Places]
  OBVIOUS
<1>2. Tail(page[w]) \in Seq(Orders) /\ Len(Tail(page[w])) = Len(page[w]) - 1
      /\ Len(page[w]) \in Nat
  BY <1>1, HeadTailProperties
<1>3. Len(page[w]) # 1 => Tail(page[w]) # <<>>
  <2>1. ASSUME NEW q, q = <<>>, NEW n \in Nat, Len(q) = n - 1 PROVE n = 1
    BY ONLY <2>1
  <2> QED
    BY <1>2, <2>1
<1>4. page' \in [Workers -> Seq(Orders)] /\ made' \in [Workers -> Nat]
  BY <1>2
<1>5. ASSUME NEW v \in Workers
      PROVE  /\ Len(page'[v]) <= size'[v]
             /\ pc'[v] \in InOrder => page'[v] # <<>>
             /\ pc'[v] \in {"idle", "read", "list"} => size'[v] = 0
  <2>1. CASE v = w
    <3>1. page'[v] = Tail(page[w]) /\ size'[v] = size[w] /\ Len(page[w]) <= size[w]
          /\ pc'[v] = IF Len(page[w]) = 1 THEN "advance" ELSE "find"
      BY <1>1, <2>1
    <3>2. size[w] \in Int
      BY <1>0
    <3> QED
      BY ONLY <1>2, <1>3, <3>1, <3>2 DEF InOrder
  <2>2. CASE v # w
    BY <1>1, <2>2
  <2> QED
    BY <2>1, <2>2
<1> QED
  BY <1>4, <1>5

LEMMA EndRunKeepsPages ==
  ASSUME PagesTyped, IInv, NEW w \in Workers, EndRun(w), cursor' = cursor, doubt' \subseteq Orders
  PROVE  PagesTyped'
<1> USE DEF PagesTyped
<1>1. Cardinality(Orders) \in Nat /\ PageSize \in Nat \ {0}
  BY ListingIsList, OrderAssumption
<1>2. page' \in [Workers -> Seq(Orders)] /\ made' \in [Workers -> Nat]
      /\ offset' \in [Workers -> 0..Cardinality(Orders)] /\ size' \in [Workers -> 0..PageSize]
  BY <1>1
<1>3. ASSUME NEW v \in Workers
      PROVE  /\ offset'[v] + size'[v] <= Cardinality(Orders)
             /\ Len(page'[v]) <= size'[v]
             /\ pc'[v] \in InOrder => page'[v] # <<>>
             /\ pc'[v] \in {"idle", "read", "list"} => size'[v] = 0
  BY <1>1
<1> QED
  BY <1>2, <1>3

(* What an exception or a death hits is an order of the page. *)
LEMMA DoubtIsOrder ==
  ASSUME PagesTyped, NEW w \in Workers, Interrupted(w) PROVE doubt' \subseteq Orders
<1>1. pc[w] \in {"create", "map"} => Head(page[w]) \in Orders
  BY HeadTailProperties DEF PagesTyped
<1> QED
  BY <1>1 DEF PagesTyped

LEMMA ListKeepsPages ==
  ASSUME PagesTyped, IInv, NEW w \in Workers, List(w) PROVE PagesTyped'
<1> USE DEF PagesTyped
<1> DEFINE orders == PageAt(offset[w])
<1>1. /\ orders \in Seq(Orders) /\ Len(orders) \in 0..PageSize
      /\ offset[w] + Len(orders) \in 0..Cardinality(Orders)
  BY PageIsWithin
<1>2. /\ page' = [page EXCEPT ![w] = orders] /\ size' = [size EXCEPT ![w] = Len(orders)]
      /\ pc' = [pc EXCEPT ![w] = IF orders = <<>> THEN "reset" ELSE "find"]
      /\ UNCHANGED <<cursor, offset, made, doubt>>
  BY DEF List
<1> HIDE DEF orders
<1>3. page' \in [Workers -> Seq(Orders)] /\ size' \in [Workers -> 0..PageSize]
  BY <1>1, <1>2
<1>4. ASSUME NEW v \in Workers
      PROVE  /\ offset'[v] + size'[v] <= Cardinality(Orders)
             /\ Len(page'[v]) <= size'[v]
             /\ pc'[v] \in InOrder => page'[v] # <<>>
             /\ pc'[v] \in {"idle", "read", "list"} => size'[v] = 0
  <2>1. CASE v = w
    BY <1>1, <1>2, <2>1, ListingIsList
  <2>2. CASE v # w
    BY <1>2, <2>2
  <2> QED
    BY <2>1, <2>2
<1> QED
  BY <1>2, <1>3, <1>4

(* A run that goes on without touching its page. *)
LEMMA GoOnKeepsPages ==
  ASSUME PagesTyped, IInv, NEW w \in Workers, NEW place \in Places,
         place \in InOrder => pc[w] \in InOrder,
         place \in {"idle", "read", "list"} => pc[w] \in {"idle", "read", "list"},
         GoTo(w, place), cursor' \in 0..Cardinality(Orders),
         UNCHANGED <<offset, size, page, doubt>>, made' \in [Workers -> Nat]
  PROVE  PagesTyped'
  BY DEF PagesTyped

LEMMA StepPagesTyped == ASSUME PagesTyped, IInv, [Next]_vars PROVE PagesTyped'
<1>0. Cardinality(Orders) \in Nat /\ PageSize \in Nat \ {0}
  BY ListingIsList, OrderAssumption
<1>a. ASSUME UNCHANGED <<cursor, offset, size, made, page, pc, doubt>> PROVE PagesTyped'
  BY <1>a DEF PagesTyped
<1>1. CASE \/ \E o \in Orders : EnterShipping(o) \/ LeaveShipping(o) \/ Rekey(o)
           \/ Tick \/ EnqueueOrderImportNow \/ (\E j \in Jobs : RecoverStalled(j)) \/ UNCHANGED vars
  BY <1>1, <1>a DEF EnterShipping, LeaveShipping, Rekey, Tick, EnqueueOrderImportNow, RecoverStalled,
     vars
<1>2. ASSUME NEW w \in Workers, NEW j \in Jobs, Start(w, j) PROVE PagesTyped'
  BY <1>2, GoOnKeepsPages DEF Start, PagesTyped
<1>3. ASSUME NEW w \in Workers, ReadCursor(w) PROVE PagesTyped'
  BY <1>0, <1>3 DEF ReadCursor, PagesTyped
<1>4. ASSUME NEW w \in Workers, ResetCursor(w) \/ Advance(w) PROVE PagesTyped'
  <2>1. cursor' \in 0..Cardinality(Orders) /\ GoTo(w, "done")
        /\ UNCHANGED <<offset, size, page, doubt, made>>
    BY <1>0, <1>4 DEF ResetCursor, Advance, PagesTyped
  <2> QED
    BY <2>1, GoOnKeepsPages DEF PagesTyped
<1>5. ASSUME NEW w \in Workers, NotImported(w) PROVE PagesTyped'
  BY <1>5, GoOnKeepsPages DEF NotImported, PagesTyped
<1>6. ASSUME NEW w \in Workers, OrderCreate(w) PROVE PagesTyped'
  <2>1. Head(page[w]) \in Orders
    BY <1>6, HeadTailProperties DEF OrderCreate, PagesTyped
  <2>2. made' \in [Workers -> Nat] /\ cursor' \in 0..Cardinality(Orders) /\ GoTo(w, "map")
        /\ pc[w] = "create" /\ UNCHANGED <<offset, size, page, doubt>>
    BY <1>6, <2>1 DEF OrderCreate, PagesTyped
  <2> QED
    BY <2>2, GoOnKeepsPages
<1>7. ASSUME NEW w \in Workers, RepairLegacyId(w) \/ OrderRefused(w) \/ CreateIfNotExists(w)
      PROVE  PagesTyped'
  <2>1. NextOrder(w) /\ pc[w] \in InOrder /\ cursor' = cursor /\ doubt' \subseteq Orders
    BY <1>7 DEF RepairLegacyId, OrderRefused, CreateIfNotExists, PagesTyped
  <2> QED
    BY <2>1, NextOrderKeepsPages
<1>8. ASSUME NEW w \in Workers, FindOrder(w) PROVE PagesTyped'
  <2>1. pc[w] = "find" /\ cursor' = cursor /\ doubt' = doubt
    BY <1>8 DEF FindOrder
  <2>2. CASE NextOrder(w)
    BY <2>1, <2>2, NextOrderKeepsPages DEF PagesTyped
  <2>3. CASE GoTo(w, "legacy") /\ UNCHANGED <<cur, offset, page, size, made>>
    BY <2>1, <2>3, GoOnKeepsPages DEF PagesTyped
  <2> QED
    BY <1>8, <2>2, <2>3 DEF FindOrder
<1>9. ASSUME NEW w \in Workers, OrderFails(w) PROVE PagesTyped'
  <2>1. NextOrder(w) /\ pc[w] \in InOrder /\ cursor' = cursor /\ Interrupted(w)
    BY <1>9 DEF OrderFails
  <2> QED
    BY <2>1, DoubtIsOrder, NextOrderKeepsPages
<1>10. ASSUME NEW w \in Workers, Complete(w) \/ Throw(w) \/ Crash(w) PROVE PagesTyped'
  <2>1. EndRun(w) /\ cursor' = cursor /\ (doubt' = doubt \/ Interrupted(w))
    BY <1>10 DEF Complete, Throw, Crash
  <2>2. doubt' \subseteq Orders
    BY <2>1, DoubtIsOrder DEF PagesTyped
  <2> QED
    BY <2>1, <2>2, EndRunKeepsPages
<1> QED
  BY <1>1, <1>2, <1>3, <1>4, <1>5, <1>6, <1>7, <1>8, <1>9, <1>10, ListKeepsPages
     DEF Next, Step, ImportOne

(* Every variable keeps its type, for any orders, processors and failures; *)
(* in particular the stored offset (importOrders) never leaves the orders  *)
(* there are, however the list of Decathlon shrinks and grows under it.    *)
THEOREM TypeCorrect == Spec => []TypeOK
<1> DEFINE Inv == IInv /\ CountersTyped /\ OrdersTyped /\ PagesTyped
<1>0. Cardinality(Orders) \in Nat
  BY ListingIsList
<1>1. Init => Inv
  <2>1. Init => CountersTyped
    BY QueueAssumption DEF Init, QueueInit, CountersTyped, QueueTypeOK, QueueBudget, JobStates
  <2>2. Init => OrdersTyped
    BY OrderAssumption DEF Init, OrdersTyped
  <2>3. Init => PagesTyped
    BY <1>0, OrderAssumption DEF Init, PagesTyped
  <2> QED
    BY <2>1, <2>2, <2>3, InitIInv
<1>2. Inv /\ [Next]_vars => Inv'
  BY StepIInv, StepCountersTyped, StepOrdersTyped, StepPagesTyped
<1>3. Inv => TypeOK
  <2> SUFFICES ASSUME Inv PROVE TypeOK
    OBVIOUS
  <2>1. ASSUME NEW w \in Workers PROVE Range(page[w]) \subseteq Orders
    BY DEF PagesTyped, Range
  <2> QED
    BY <2>1 DEF TypeOK, CountersTyped, OrdersTyped, PagesTyped
<1> QED
  BY <1>1, <1>2, <1>3, PTL DEF Spec

=============================================================================
