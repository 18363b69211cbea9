------------------------- MODULE ProductQueueProofs -------------------------
(***************************************************************************)
(* Proofs about ProductQueue, for any number of requests, processors,      *)
(* edits and failures: every PENDING row has its job, an edit gets a run   *)
(* that reads it, and a manual sync one that sends.                        *)
(***************************************************************************)
EXTENDS ProductQueue, FiniteSetTheorems, TLAPS

USE ProductQueueAssumption, QueueAssumption
    DEF JobStates, Steps, Places, Known, Ended, Holds, queueVars, shopVars, jobVars,
        historyVars, producerVars, runVars, syncVars, Go, Leave, GoTo, EndRun, Adding, Coalesce

JobsTyped ==
    /\ job \in [Jobs -> JobStates]
    /\ trigger \in [Jobs -> {"webhook", "manual"}]
    /\ holder \in [Jobs -> Workers \cup {NoWorker}]
    /\ fresh \subseteq Jobs /\ pendingRows \in Int

RequestsTyped ==
    /\ deliveries \in Nat /\ edits \in Nat /\ faults \in Nat
    /\ at \in [Producers -> Steps]
    /\ asks \in [Producers -> {"webhook", "manual"}]
    /\ target \in [Producers -> Jobs]
    /\ missed \in BOOLEAN /\ clash \in BOOLEAN /\ crossed \in BOOLEAN

RunsTyped ==
    /\ pc \in [Workers -> Places]
    /\ cur \in [Workers -> Jobs]
    /\ seen = [w \in Workers |-> seen[w]]

Types == JobsTyped /\ RequestsTyped /\ RunsTyped

LEMMA InitTypes == Init => Types
<1>1. Init => JobsTyped
  BY DEF Init, QueueInit, JobsTyped
<1>2. Init => RequestsTyped
  <2> SUFFICES ASSUME Init PROVE RequestsTyped
    OBVIOUS
  <2>1. at \in [Producers -> Steps] /\ asks \in [Producers -> {"webhook", "manual"}]
    BY DEF Init
  <2>2. target \in [Producers -> Jobs]
    BY DEF Init
  <2> QED
    BY <2>1, <2>2 DEF Init, RequestsTyped
<1>3. Init => RunsTyped
  BY DEF Init, RunsTyped
<1> QED
  BY <1>1, <1>2, <1>3 DEF Types

LEMMA ProduceTypes == ASSUME NEW p \in Producers, Types, Produce(p) PROVE Types'
<1> USE DEF Types, JobsTyped, RequestsTyped, RunsTyped
<1>1. CASE HandleWebhook(p)
  BY <1>1 DEF HandleWebhook
<1>2. CASE SyncProductsNow(p)
  BY <1>2 DEF SyncProductsNow
<1>3. CASE Look(p)
  BY <1>3 DEF Look
<1>4. CASE Remove(p)
  BY <1>4 DEF Remove, FreeJob
<1>5. CASE RemoveFails(p)
  BY <1>5 DEF RemoveFails
<1>6. CASE Free(p) \/ BaseKnown(p)
  BY <1>6 DEF Free, BaseKnown
<1>7. CASE NextKnown(p)
  BY <1>7 DEF NextKnown
<1>8. CASE StillPending(p)
  BY <1>8 DEF StillPending
<1>9. CASE FollowUp(p)
  BY <1>9 DEF FollowUp
<1>10. CASE CreateRow(p)
  BY <1>10 DEF CreateRow
<1>11. CASE Add(p)
  BY <1>11 DEF Add, AddJob
<1> QED
  BY <1>1, <1>2, <1>3, <1>4, <1>5, <1>6, <1>7, <1>8, <1>9, <1>10, <1>11 DEF Produce

LEMMA RunTypes ==
  ASSUME NEW w \in Workers, Types, Run(w) \/ Throw(w) \/ Crash(w)
  PROVE  Types'
<1> USE DEF Types, JobsTyped, RequestsTyped, RunsTyped
<1>1. CASE \E j \in Jobs : Start(w, j)
  <2>1. PICK j \in Jobs : Start(w, j)
    BY <1>1
  <2>2. job' \in [Jobs -> JobStates] /\ holder' \in [Jobs -> Workers \cup {NoWorker}]
    BY <2>1 DEF Start, TakeJob
  <2>3. pendingRows' \in Int
    BY <2>1 DEF Start
  <2>4. RequestsTyped' /\ RunsTyped'
    BY <2>1 DEF Start
  <2> QED
    BY <2>1, <2>2, <2>3, <2>4 DEF Start
<1>2. CASE Fetch(w) \/ Compare(w) \/ Skip(w)
  <2>1. CASE Fetch(w)
    <3>1. crossed' \in BOOLEAN
      BY <2>1 DEF Fetch
    <3> QED
      BY <2>1, <3>1 DEF Fetch
  <2>2. CASE Compare(w) \/ Skip(w)
    BY <2>2 DEF Compare, Skip
  <2> QED
    BY <1>2, <2>1, <2>2
<1>3. CASE Submit(w) \/ Store(w)
  BY <1>3 DEF Submit, Store
<1>4. CASE Complete(w)
  <2>1. JobsTyped'
    <3>1. job' \in [Jobs -> JobStates]
      BY <1>4 DEF Complete, CompleteJob
    <3>2. holder' \in [Jobs -> Workers \cup {NoWorker}]
      BY <1>4 DEF Complete, CompleteJob
    <3> QED
      BY <1>4, <3>1, <3>2 DEF Complete
  <2>2. RequestsTyped' /\ RunsTyped'
    BY <1>4 DEF Complete, CompleteJob
  <2> QED
    BY <2>1, <2>2
<1>5. CASE Throw(w)
  <2>1. JobsTyped'
    <3>1. job' \in [Jobs -> JobStates]
      BY <1>5 DEF Throw, FailJob
    <3>2. holder' \in [Jobs -> Workers \cup {NoWorker}]
      BY <1>5 DEF Throw, FailJob
    <3> QED
      BY <1>5, <3>1, <3>2 DEF Throw
  <2>2. RequestsTyped'
    BY <1>5 DEF Throw
  <2>3. RunsTyped'
    BY <1>5 DEF Throw
  <2> QED
    BY <2>1, <2>2, <2>3
<1>6. CASE Crash(w)
  BY <1>6 DEF Crash
<1> QED
  BY <1>1, <1>2, <1>3, <1>4, <1>5, <1>6 DEF Run

LEMMA StepTypes == ASSUME Types, [Next]_vars PROVE Types'
<1>1. CASE Edit
  BY <1>1 DEF Edit, Types, JobsTyped, RequestsTyped, RunsTyped
<1>2. CASE \E j \in Jobs : RecoverStalled(j)
  <2>1. PICK j \in Jobs : RecoverStalled(j)
    BY <1>2
  <2>2. job' \in [Jobs -> JobStates] /\ holder' \in [Jobs -> Workers \cup {NoWorker}]
    BY <2>1 DEF RecoverStalled, StallJob, Types, JobsTyped
  <2> QED
    BY <2>1, <2>2 DEF RecoverStalled, Types, JobsTyped, RequestsTyped, RunsTyped
<1>3. CASE UNCHANGED vars
  BY <1>3 DEF vars, Types, JobsTyped, RequestsTyped, RunsTyped
<1> QED
  BY <1>1, <1>2, <1>3, ProduceTypes, RunTypes DEF Next

-----------------------------------------------------------------------------
(* Rows.  Where no two requests look at one id at once, what a request has *)
(* found out about its id still holds when it acts on it.                  *)

Alone ==
    \A p, q \in Producers : Adding(p) /\ Adding(q) /\ target[p] = target[q] => p = q

LooksHold ==
    \A p \in Producers :
        /\ at[p] = "remove" => Ended(target[p])
        /\ at[p] \in {"create", "add"} => ~Known(target[p])

(* A row nobody has started is that of a job nobody has taken. *)
FreshWaits == \A j \in fresh : job[j] = "waiting"

Adders == {p \in Producers : at[p] = "add"}
RowsCounted == pendingRows = Cardinality(fresh) + Cardinality(Adders)

ClashInv == clash \/ (Alone /\ LooksHold /\ FreshWaits /\ RowsCounted)

LEMMA FewJobs == ASSUME NEW S, S \subseteq Jobs PROVE IsFiniteSet(S)
<1>1. IsFiniteSet({"base"})
  BY FS_Singleton
<1>2. Jobs = {"base"} \cup {"next"}
  OBVIOUS
<1>3. IsFiniteSet(Jobs)
  BY <1>1, <1>2, FS_AddElement
<1> QED
  BY <1>3, FS_Subset

LEMMA InitClash == Init => ClashInv
<1> SUFFICES ASSUME Init PROVE Alone /\ LooksHold /\ FreshWaits /\ RowsCounted
  BY DEF ClashInv
<1>1. \A p \in Producers : at[p] = "idle"
  BY DEF Init
<1>2. Alone /\ LooksHold
  BY <1>1 DEF Alone, LooksHold
<1>3. fresh = {} /\ pendingRows = 0
  BY DEF Init
<1>4. Adders = {}
  BY <1>1 DEF Adders
<1>5. RowsCounted
  BY <1>3, <1>4, FS_EmptySet DEF RowsCounted
<1> QED
  BY <1>2, <1>3, <1>5 DEF FreshWaits

LEMMA ProduceClash ==
  ASSUME NEW p \in Producers, Types, ClashInv, Produce(p)
  PROVE  ClashInv'
<1> SUFFICES ASSUME ~clash' PROVE Alone' /\ LooksHold' /\ FreshWaits' /\ RowsCounted'
  BY DEF ClashInv
<1> USE DEF Types, JobsTyped, RequestsTyped, RunsTyped, Alone, LooksHold, FreshWaits
<1>0. ~clash /\ Alone /\ LooksHold /\ FreshWaits /\ RowsCounted
  BY DEF ClashInv, Produce, HandleWebhook, SyncProductsNow, Look, Remove, RemoveFails, Free,
         BaseKnown, NextKnown, StillPending, FollowUp, CreateRow, Add
<1>c. ASSUME UNCHANGED <<fresh, pendingRows>>, at[p] # "add", at'[p] # "add" PROVE RowsCounted'
  <2>1. Adders' = Adders
    BY <1>c DEF Adders, Produce, HandleWebhook, SyncProductsNow, Look, Remove, RemoveFails,
                Free, BaseKnown, NextKnown, StillPending, FollowUp, CreateRow, Add
  <2> QED
    BY <1>0, <1>c, <2>1 DEF RowsCounted
<1>1. CASE HandleWebhook(p)
  BY <1>0, <1>1, <1>c DEF HandleWebhook
<1>2. CASE SyncProductsNow(p)
  BY <1>0, <1>2, <1>c DEF SyncProductsNow
<1>3. CASE Look(p)
  <2>1. \A q \in Producers : Adding(q) => target[q] # target[p]
    BY <1>3 DEF Look
  <2>2. UNCHANGED <<job, target, fresh, pendingRows>> /\ at[p] = "look"
    BY <1>3 DEF Look
  <2>3. /\ \A q \in Producers \ {p} : at'[q] = at[q]
        /\ at'[p] = IF Ended(target[p]) THEN "remove" ELSE "pending"
    BY <1>3 DEF Look
  <2>4. Alone' /\ LooksHold' /\ FreshWaits'
    BY <1>0, <2>1, <2>2, <2>3
  <2> QED
    BY <1>c, <2>2, <2>3, <2>4
<1>4. CASE Remove(p)
  <2>1. target[p] \notin fresh
    BY <1>0, <1>4 DEF Remove
  <2>2. fresh' = fresh
    BY <2>1, <1>4 DEF Remove
  <2>3. Alone' /\ LooksHold' /\ FreshWaits'
    BY <1>0, <1>4, <2>2 DEF Remove, FreeJob
  <2> QED
    BY <1>4, <1>c, <2>2, <2>3 DEF Remove
<1>5. CASE RemoveFails(p)
  BY <1>0, <1>5, <1>c DEF RemoveFails
<1>6. CASE Free(p) \/ BaseKnown(p)
  BY <1>0, <1>6, <1>c DEF Free, BaseKnown
<1>7. CASE NextKnown(p)
  BY <1>0, <1>7, <1>c DEF NextKnown
<1>8. CASE StillPending(p)
  BY <1>0, <1>8, <1>c DEF StillPending
<1>9. CASE FollowUp(p)
  BY <1>0, <1>9, <1>c DEF FollowUp
<1>10. CASE CreateRow(p)
  <2>1. Adders' = Adders \cup {p} /\ p \notin Adders /\ Adders \subseteq Producers
    BY <1>10 DEF CreateRow, Adders
  <2>2. Cardinality(Adders') = Cardinality(Adders) + 1
    BY <2>1, FS_Subset, FS_AddElement
  <2>3. Alone' /\ LooksHold' /\ FreshWaits'
    BY <1>0, <1>10 DEF CreateRow
  <2>4. Cardinality(Adders) \in Nat /\ Cardinality(fresh) \in Nat
    BY <2>1, FS_Subset, FS_CardinalityType, FewJobs
  <2>5. RowsCounted'
    BY <1>0, <1>10, <2>2, <2>4 DEF CreateRow, RowsCounted
  <2> QED
    BY <2>3, <2>5
<1>11. CASE Add(p)
  <2>1. ~Known(target[p]) /\ target[p] \notin fresh
    BY <1>0, <1>11 DEF Add
  <2>2. fresh' = fresh \cup {target[p]} /\ job' = [job EXCEPT ![target[p]] = "waiting"]
    BY <1>11, <2>1 DEF Add, AddJob
  <2>3. Adders' = Adders \ {p} /\ p \in Adders /\ Adders \subseteq Producers
    BY <1>11 DEF Add, Adders
  <2>4. Alone' /\ LooksHold' /\ FreshWaits'
    BY <1>0, <1>11, <2>2 DEF Add
  <2>5. Cardinality(Adders') = Cardinality(Adders) - 1
    BY <2>3, FS_Subset, FS_RemoveElement
  <2>6. Cardinality(fresh') = Cardinality(fresh) + 1
    BY <2>1, <2>2, FewJobs, FS_AddElement
  <2>7. Cardinality(Adders) \in Nat /\ Cardinality(fresh) \in Nat
    BY <2>3, FS_Subset, FS_CardinalityType, FewJobs
  <2>8. RowsCounted'
    BY <1>0, <1>11, <2>5, <2>6, <2>7 DEF Add, RowsCounted
  <2> QED
    BY <2>4, <2>8
<1> QED
  BY <1>1, <1>2, <1>3, <1>4, <1>5, <1>6, <1>7, <1>8, <1>9, <1>10, <1>11 DEF Produce

LEMMA OthersClash ==
  ASSUME Types, ClashInv,
         \/ Edit \/ UNCHANGED vars \/ \E j \in Jobs : RecoverStalled(j)
         \/ \E w \in Workers : Run(w) \/ Throw(w) \/ Crash(w)
  PROVE  ClashInv'
<1> USE DEF Types, JobsTyped, RequestsTyped, RunsTyped, Alone, LooksHold, FreshWaits
<1>1. ASSUME NEW w \in Workers, NEW j \in Jobs, Start(w, j) PROVE ClashInv'
  <2>1. CASE j \in fresh
    <3>1. Cardinality(fresh') = Cardinality(fresh) - 1 /\ Cardinality(fresh) \in Nat
      BY <1>1, <2>1, FewJobs, FS_RemoveElement, FS_CardinalityType DEF Start
    <3>2. Cardinality(Adders) \in Nat
      BY FS_Subset, FS_CardinalityType DEF Adders
    <3>3. pendingRows' = pendingRows - 1 /\ UNCHANGED <<at, target, clash, Adders>>
      BY <1>1, <2>1 DEF Start, Adders
    <3>4. RowsCounted => RowsCounted'
      BY <3>1, <3>2, <3>3 DEF RowsCounted
    <3> QED
      BY <1>1, <3>3, <3>4 DEF Start, TakeJob, ClashInv
  <2>2. CASE j \notin fresh
    <3>1. UNCHANGED <<fresh, pendingRows, at, target, clash>>
      BY <1>1, <2>2 DEF Start
    <3>2. job[j] = "waiting" /\ job' = [job EXCEPT ![j] = "active"]
      BY <1>1 DEF Start, TakeJob
    <3>3. LooksHold /\ FreshWaits => LooksHold' /\ FreshWaits'
      BY <2>2, <3>1, <3>2
    <3>4. (Alone <=> Alone') /\ (RowsCounted <=> RowsCounted')
      BY <3>1 DEF RowsCounted, Adders
    <3> QED
      BY <3>1, <3>3, <3>4 DEF ClashInv
  <2> QED
    BY <2>1, <2>2
<1>2. ASSUME UNCHANGED <<fresh, pendingRows, at, target, clash>>,
             \A j \in Jobs : job[j] # "active" => job'[j] = job[j]
      PROVE  ClashInv'
  <2>1. (Alone <=> Alone') /\ (RowsCounted <=> RowsCounted')
    BY <1>2 DEF RowsCounted, Adders
  <2>2. LooksHold /\ FreshWaits => LooksHold' /\ FreshWaits'
    BY <1>2
  <2> QED
    BY <1>2, <2>1, <2>2 DEF ClashInv
<1>3. CASE Edit \/ UNCHANGED vars
  <2>1. UNCHANGED <<job, fresh, pendingRows, at, target, clash>>
    BY <1>3 DEF Edit, vars
  <2> QED
    BY <1>2, <2>1
<1>4. ASSUME NEW j \in Jobs, RecoverStalled(j) PROVE ClashInv'
  <2>1. UNCHANGED <<fresh, pendingRows, at, target, clash>>
    BY <1>4 DEF RecoverStalled
  <2>2. \A i \in Jobs : job[i] # "active" => job'[i] = job[i]
    BY <1>4 DEF RecoverStalled, StallJob
  <2> QED
    BY <1>2, <2>1, <2>2
<1>5. ASSUME NEW w \in Workers, Fetch(w) \/ Compare(w) \/ Skip(w) \/ Submit(w) \/ Store(w)
      PROVE  ClashInv'
  <2>1. UNCHANGED <<job, fresh, pendingRows, at, target, clash>>
    BY <1>5 DEF Fetch, Compare, Skip, Submit, Store
  <2> QED
    BY <1>2, <2>1
<1>6. ASSUME NEW w \in Workers, Complete(w) \/ Throw(w) PROVE ClashInv'
  <2>1. UNCHANGED <<fresh, pendingRows, at, target, clash>>
    BY <1>6 DEF Complete, Throw
  <2>2. \A i \in Jobs : job[i] # "active" => job'[i] = job[i]
    BY <1>6 DEF Complete, CompleteJob, Throw, FailJob
  <2> QED
    BY <1>2, <2>1, <2>2
<1>7. ASSUME NEW w \in Workers, Crash(w) PROVE ClashInv'
  <2>1. UNCHANGED <<job, fresh, pendingRows, at, target, clash>>
    BY <1>7 DEF Crash
  <2> QED
    BY <1>2, <2>1
<1> QED
  BY <1>1, <1>3, <1>4, <1>5, <1>6, <1>7 DEF Run

(* A PENDING row has a job that nobody has taken yet, or one about to be   *)
(* added, for any number of requests, unless two looked at one id at once  *)
(* (clearFinishedJob, enqueueProductSync).                                 *)
THEOREM RowsHaveJobs == Spec => []EveryRowRuns
<1>1. Init => Types /\ ClashInv
  BY InitTypes, InitClash
<1>2. Types /\ ClashInv /\ [Next]_vars => (Types /\ ClashInv)'
  BY StepTypes, ProduceClash, OthersClash DEF Next
<1>3. ClashInv => EveryRowRuns
  BY DEF ClashInv, RowsCounted, Adders, EveryRowRuns
<1> QED
  BY <1>1, <1>2, <1>3, PTL DEF Spec

-----------------------------------------------------------------------------
(* Runs.  Until one throws or dies, the active jobs are those being run.   *)

RunsHoldJobs ==
    faults = 0 =>
        /\ \A j \in Jobs : job[j] = "active" => holder[j] \in Workers /\ Running(holder[j], j)
        /\ \A w \in Workers : pc[w] # "idle" => Holds(w, cur[w])

LEMMA InitRuns == Init => RunsHoldJobs
  BY DEF Init, QueueInit, RunsHoldJobs

(* So nothing is ever taken for stalled. *)
LEMMA NothingStalls ==
  ASSUME NEW j \in Jobs, RunsHoldJobs, faults = 0 PROVE ~RecoverStalled(j)
  BY DEF RunsHoldJobs, RecoverStalled, StallJob

LEMMA StepRuns == ASSUME Types, RunsHoldJobs, [Next]_vars PROVE RunsHoldJobs'
<1> SUFFICES ASSUME faults' = 0 PROVE RunsHoldJobs'
  BY DEF RunsHoldJobs
<1> USE DEF Types, JobsTyped, RequestsTyped, RunsTyped, RunsHoldJobs, Running
<1>1. CASE Edit \/ UNCHANGED vars
  BY <1>1 DEF Edit, vars
<1>2. ASSUME NEW p \in Producers, Produce(p) PROVE RunsHoldJobs'
  <2>1. CASE Remove(p)
    BY <2>1 DEF Remove, FreeJob
  <2>2. CASE Add(p)
    BY <2>2 DEF Add, AddJob
  <2>3. CASE HandleWebhook(p) \/ SyncProductsNow(p) \/ Look(p) \/ RemoveFails(p) \/ Free(p)
             \/ BaseKnown(p) \/ NextKnown(p) \/ StillPending(p) \/ FollowUp(p) \/ CreateRow(p)
    <3>1. UNCHANGED <<job, holder, pc, cur, faults>>
      BY <2>3 DEF HandleWebhook, SyncProductsNow, Look, RemoveFails, Free, BaseKnown, NextKnown,
                  StillPending, FollowUp, CreateRow
    <3> QED
      BY <3>1
  <2> QED
    BY <1>2, <2>1, <2>2, <2>3 DEF Produce
<1>3. ASSUME NEW w \in Workers, Run(w) PROVE RunsHoldJobs'
  <2>1. ASSUME NEW j \in Jobs, Start(w, j) PROVE RunsHoldJobs'
    BY <2>1 DEF Start, TakeJob
  <2>2. CASE Fetch(w) \/ Compare(w) \/ Skip(w)
    BY <2>2 DEF Fetch, Compare, Skip
  <2>3. CASE Submit(w) \/ Store(w)
    BY <2>3 DEF Submit, Store
  <2>4. CASE Complete(w)
    <3>1. faults = 0 /\ pc[w] # "idle" /\ Holds(w, cur[w])
      BY <2>4 DEF Complete
    <3>2. /\ job' = [job EXCEPT ![cur[w]] = "completed"]
          /\ holder' = [holder EXCEPT ![cur[w]] = NoWorker]
          /\ pc' = [pc EXCEPT ![w] = "idle"] /\ cur' = [cur EXCEPT ![w] = "base"]
      BY <2>4, <3>1 DEF Complete, CompleteJob
    <3> QED
      BY <3>1, <3>2
  <2> QED
    BY <1>3, <2>1, <2>2, <2>3, <2>4 DEF Run
<1>4. ASSUME NEW w \in Workers PROVE ~(Throw(w) \/ Crash(w))
  BY DEF Throw, Crash
<1>5. ASSUME NEW j \in Jobs, RecoverStalled(j) PROVE RunsHoldJobs'
  BY <1>5, NothingStalls DEF RecoverStalled
<1> QED
  BY <1>1, <1>2, <1>3, <1>4, <1>5 DEF Next

-----------------------------------------------------------------------------
(* A manual sync.  Until something is submitted the wish is with the       *)
(* request, with the job it has added, or with the run of that job.        *)

IdleAsksNothing ==
    \A p \in Producers : at[p] = "idle" => asks[p] = "webhook" /\ target[p] = "base"

WishIsKept ==
    \/ \E p \in Producers : asks[p] = "manual"
    \/ \E j \in Jobs : job[j] = "waiting" /\ trigger[j] = "manual"
    \/ \E w \in Workers : pc[w] \in {"fetch", "compare", "submit"} /\ trigger[cur[w]] = "manual"

WishInv == faults = 0 /\ ~clash /\ click = "unsent" => WishIsKept

LEMMA InitWish == Init => IdleAsksNothing /\ WishInv
  BY DEF Init, IdleAsksNothing, WishInv

LEMMA StepIdle == ASSUME Types, IdleAsksNothing, [Next]_vars PROVE IdleAsksNothing'
<1> USE DEF Types, RequestsTyped, IdleAsksNothing
<1>1. CASE UNCHANGED <<at, asks, target>>
  BY <1>1
<1>2. ASSUME NEW p \in Producers, Produce(p) PROVE IdleAsksNothing'
  <2>1. CASE HandleWebhook(p) \/ SyncProductsNow(p) \/ Look(p) \/ Remove(p) \/ Free(p)
             \/ BaseKnown(p) \/ FollowUp(p) \/ CreateRow(p)
    BY <2>1 DEF HandleWebhook, SyncProductsNow, Look, Remove, Free, BaseKnown, FollowUp, CreateRow
  <2>2. CASE RemoveFails(p) \/ NextKnown(p) \/ StillPending(p) \/ Add(p)
    BY <2>2 DEF RemoveFails, NextKnown, StillPending, Add
  <2> QED
    BY <1>2, <2>1, <2>2 DEF Produce
<1>3. ASSUME NEW w \in Workers, Run(w) \/ Throw(w) \/ Crash(w) PROVE UNCHANGED <<at, asks, target>>
  BY <1>3 DEF Run, Start, Fetch, Compare, Skip, Submit, Store, Complete, Throw, Crash
<1> QED
  BY <1>1, <1>2, <1>3 DEF Next, Edit, RecoverStalled, vars

LEMMA StepWish ==
  ASSUME Types, ClashInv, RunsHoldJobs, IdleAsksNothing, WishInv, [Next]_vars
  PROVE  WishInv'
<1> SUFFICES ASSUME faults' = 0, ~clash', click' = "unsent" PROVE WishIsKept'
  BY DEF WishInv
<1> USE DEF Types, JobsTyped, RequestsTyped, RunsTyped
<1>1. CASE Edit \/ UNCHANGED vars
  BY <1>1 DEF Edit, vars, WishInv, WishIsKept
<1>2. ASSUME NEW p \in Producers, Produce(p) PROVE WishIsKept'
  <2>0. faults = 0 /\ ~clash /\ LooksHold
    BY <1>2 DEF ClashInv, Produce, HandleWebhook, SyncProductsNow, Look, Remove, RemoveFails,
                Free, BaseKnown, NextKnown, StillPending, FollowUp, CreateRow, Add
  <2>1. CASE SyncProductsNow(p)
    BY <2>1 DEF SyncProductsNow, WishIsKept
  <2>2. CASE HandleWebhook(p) \/ Look(p) \/ Free(p) \/ BaseKnown(p) \/ FollowUp(p) \/ CreateRow(p)
    <3>1. UNCHANGED <<asks, job, trigger, pc, cur, click>>
      BY <2>2 DEF HandleWebhook, Look, Free, BaseKnown, FollowUp, CreateRow
    <3> QED
      BY <2>0, <3>1 DEF WishInv, WishIsKept
  <2>3. CASE Remove(p)
    <3>1. job[target[p]] # "waiting" /\ job' = [job EXCEPT ![target[p]] = "absent"]
      BY <2>0, <2>3 DEF LooksHold, Remove, FreeJob
    <3>2. UNCHANGED <<asks, trigger, pc, cur, click>>
      BY <2>3 DEF Remove
    <3> QED
      BY <2>0, <3>1, <3>2 DEF WishInv, WishIsKept
  <2>4. CASE RemoveFails(p) \/ NextKnown(p) \/ StillPending(p)
    <3>1. asks[p] # "manual" /\ click = "unsent" /\ UNCHANGED <<job, trigger, pc, cur>>
      BY <2>4 DEF RemoveFails, NextKnown, StillPending
    <3>2. asks' = [asks EXCEPT ![p] = "webhook"]
      BY <2>4 DEF RemoveFails, NextKnown, StillPending
    <3> QED
      BY <2>0, <3>1, <3>2 DEF WishInv, WishIsKept
  <2>5. CASE Add(p)
    <3>1. job[target[p]] = "absent"
      BY <2>0, <2>5 DEF LooksHold, Add
    <3>2. /\ job' = [job EXCEPT ![target[p]] = "waiting"]
          /\ trigger' = [trigger EXCEPT ![target[p]] = asks[p]]
          /\ asks' = [asks EXCEPT ![p] = "webhook"]
          /\ UNCHANGED <<pc, cur, click>>
      BY <2>5, <3>1 DEF Add, AddJob
    <3>3. CASE asks[p] = "manual"
      BY <3>2, <3>3 DEF WishIsKept
    <3>4. CASE asks[p] # "manual"
      <4>1. \A w \in Workers : pc[w] # "idle" => cur[w] # target[p]
        BY <2>0, <3>1 DEF RunsHoldJobs
      <4>2. WishIsKept
        BY <2>0, <3>2 DEF WishInv
      <4> QED
        BY <3>1, <3>2, <3>4, <4>1, <4>2 DEF WishIsKept
    <3> QED
      BY <3>3, <3>4
  <2> QED
    BY <1>2, <2>1, <2>2, <2>3, <2>4, <2>5 DEF Produce
<1>3. ASSUME NEW w \in Workers, Run(w) PROVE WishIsKept'
  <2>0. faults = 0 /\ ~clash /\ UNCHANGED <<asks, trigger>>
    BY <1>3 DEF Run, Start, Fetch, Compare, Skip, Submit, Store, Complete
  <2>1. ASSUME NEW j \in Jobs, Start(w, j) PROVE WishIsKept'
    <3>1. /\ pc[w] = "idle" /\ pc' = [pc EXCEPT ![w] = "fetch"]
          /\ cur' = [cur EXCEPT ![w] = j] /\ job' = [job EXCEPT ![j] = "active"]
          /\ click' = click
      BY <2>1 DEF Start, TakeJob
    <3> QED
      BY <2>0, <3>1 DEF WishInv, WishIsKept
  <2>2. CASE Fetch(w) \/ Compare(w) \/ Skip(w) \/ Store(w)
    <3>1. UNCHANGED <<cur, job, click>>
      BY <2>2 DEF Fetch, Compare, Skip, Store
    <3>2. /\ \A v \in Workers \ {w} : pc'[v] = pc[v]
          /\ pc[w] \in {"fetch", "compare", "submit"} /\ trigger[cur[w]] = "manual"
                 => pc'[w] \in {"compare", "submit"}
      BY <2>2 DEF Fetch, Compare, Skip, Store
    <3> QED
      BY <2>0, <3>1, <3>2 DEF WishInv, WishIsKept
  <2>3. CASE Complete(w)
    <3>1. /\ pc[w] = "done" /\ pc' = [pc EXCEPT ![w] = "idle"]
          /\ cur' = [cur EXCEPT ![w] = "base"] /\ click' = click
          /\ \A j \in Jobs : job[j] = "waiting" => job'[j] = "waiting"
      BY <2>3 DEF Complete, CompleteJob
    <3> QED
      BY <2>0, <3>1 DEF WishInv, WishIsKept
  <2>4. CASE Submit(w)
    BY <2>4 DEF Submit
  <2> QED
    BY <1>3, <2>1, <2>2, <2>3, <2>4 DEF Run
<1>4. ASSUME NEW w \in Workers PROVE ~(Throw(w) \/ Crash(w))
  BY DEF Throw, Crash
<1>5. ASSUME NEW j \in Jobs PROVE ~RecoverStalled(j)
  BY NothingStalls DEF RecoverStalled
<1> QED
  BY <1>1, <1>2, <1>3, <1>4, <1>5 DEF Next

(* "Sync products now" always sends, for any number of requests and of     *)
(* processors: once all is quiet and nothing failed, something was         *)
(* submitted after the last click, unless the click was left to a job that *)
(* was queued already or two requests looked at one id at once.            *)
THEOREM AClickIsSent == Spec => []ManualSends
<1> DEFINE IInv == Types /\ ClashInv /\ RunsHoldJobs /\ IdleAsksNothing /\ WishInv
<1>1. Init => IInv
  BY InitTypes, InitClash, InitRuns, InitWish
<1>2. IInv /\ [Next]_vars => IInv'
  BY StepTypes, ProduceClash, OthersClash, StepRuns, StepIdle, StepWish DEF Next
<1>3. IInv => ManualSends
  BY DEF IdleAsksNothing, WishInv, WishIsKept, ManualSends, Quiet
<1> QED
  BY <1>1, <1>2, <1>3, PTL DEF Spec

-----------------------------------------------------------------------------
(* The hash and the content sent are two writes of one run.  They tell the *)
(* same between runs; runs that overlap write the same, as long as all of  *)
(* them have read the same.                                                *)

RunsAgree ==
    ~crossed => \A v, w \in Workers : Underway(v) /\ Underway(w) => seen[v] = seen[w]

HashTells ==
    faults = 0 /\ ~crossed =>
        /\ (\A w \in Workers : pc[w] # "store") => hash = decathlon
        /\ \A w \in Workers : pc[w] = "store" => decathlon = seen[w]

LEMMA InitHash == Init => RunsAgree /\ HashTells
  BY DEF Init, RunsAgree, Underway, HashTells

LEMMA StepAgree == ASSUME Types, RunsAgree, [Next]_vars PROVE RunsAgree'
<1> SUFFICES ASSUME ~crossed' PROVE RunsAgree'
  BY DEF RunsAgree
<1> USE DEF Types, RunsTyped, RunsAgree, Underway
<1>1. CASE UNCHANGED <<pc, seen, crossed>>
  BY <1>1
<1>2. ASSUME NEW p \in Producers, Produce(p) PROVE UNCHANGED <<pc, seen, crossed>>
  BY <1>2 DEF Produce, HandleWebhook, SyncProductsNow, Look, Remove, RemoveFails, Free,
              BaseKnown, NextKnown, StillPending, FollowUp, CreateRow, Add
<1>3. ASSUME NEW w \in Workers, Run(w) \/ Throw(w) \/ Crash(w) PROVE RunsAgree'
  <2>1. CASE Fetch(w)
    BY <2>1 DEF Fetch
  <2>2. CASE (\E j \in Jobs : Start(w, j)) \/ Compare(w) \/ Skip(w) \/ Submit(w) \/ Store(w)
    BY <2>2 DEF Start, Compare, Skip, Submit, Store
  <2>3. CASE Complete(w) \/ Throw(w) \/ Crash(w)
    BY <2>3 DEF Complete, Throw, Crash
  <2> QED
    BY <1>3, <2>1, <2>2, <2>3 DEF Run
<1> QED
  BY <1>1, <1>2, <1>3 DEF Next, Edit, RecoverStalled, vars

LEMMA StepHash == ASSUME Types, RunsAgree, HashTells, [Next]_vars PROVE HashTells'
<1> SUFFICES ASSUME faults' = 0, ~crossed' PROVE HashTells'
  BY DEF HashTells
<1> USE DEF Types, RequestsTyped, RunsTyped
<1>1. CASE UNCHANGED <<pc, seen, hash, decathlon, crossed, faults>>
  BY <1>1 DEF HashTells
<1>2. ASSUME NEW p \in Producers, Produce(p)
      PROVE  UNCHANGED <<pc, seen, hash, decathlon, crossed, faults>>
  BY <1>2 DEF Produce, HandleWebhook, SyncProductsNow, Look, Remove, RemoveFails, Free,
              BaseKnown, NextKnown, StillPending, FollowUp, CreateRow, Add
<1>3. ASSUME NEW w \in Workers, Run(w) PROVE HashTells'
  <2>0. ~crossed /\ faults = 0
    BY <1>3 DEF Run, Start, Fetch, Compare, Skip, Submit, Store, Complete
  <2>1. ASSUME NEW j \in Jobs, Start(w, j) PROVE HashTells'
    BY <2>0, <2>1 DEF Start, HashTells
  <2>2. CASE Fetch(w)
    BY <2>0, <2>2 DEF Fetch, HashTells
  <2>3. CASE Compare(w)
    BY <2>0, <2>3 DEF Compare, HashTells
  <2>4. CASE Skip(w) \/ Complete(w)
    BY <2>0, <2>4 DEF Skip, Complete, HashTells
  <2>5. CASE Submit(w)
    <3>1. \A v \in Workers : pc[v] = "store" => seen[v] = seen[w]
      BY <2>0, <2>5 DEF Submit, RunsAgree, Underway
    <3> QED
      BY <2>0, <2>5, <3>1 DEF Submit, HashTells
  <2>6. CASE Store(w)
    BY <2>0, <2>6 DEF Store, HashTells
  <2> QED
    BY <1>3, <2>1, <2>2, <2>3, <2>4, <2>5, <2>6 DEF Run
<1>4. ASSUME NEW w \in Workers PROVE ~(Throw(w) \/ Crash(w))
  BY DEF Throw, Crash
<1> QED
  BY <1>1, <1>2, <1>3, <1>4 DEF Next, Edit, RecoverStalled, vars

(* The step of SkippedIsCurrent. *)
SkipTells ==
    \A w \in Workers : pc[w] = "compare" /\ pc'[w] = "skip" /\ faults = 0 /\ ~crossed
        => decathlon = seen[w]

LEMMA StepSkips == ASSUME Types, RunsAgree, HashTells, [Next]_vars PROVE SkipTells
<1> SUFFICES ASSUME NEW w \in Workers, pc[w] = "compare", pc'[w] = "skip", faults = 0, ~crossed
             PROVE  decathlon = seen[w]
  BY DEF SkipTells
<1> USE DEF Types, RequestsTyped, RunsTyped
<1>1. Compare(w)
  <2>1. ASSUME NEW p \in Producers, Produce(p) PROVE pc' = pc
    BY <2>1 DEF Produce, HandleWebhook, SyncProductsNow, Look, Remove, RemoveFails, Free,
                BaseKnown, NextKnown, StillPending, FollowUp, CreateRow, Add
  <2>2. ASSUME NEW v \in Workers, Run(v) \/ Throw(v) \/ Crash(v), ~Compare(v)
        PROVE  pc'[w] # "skip"
    BY <2>2 DEF Run, Start, Fetch, Skip, Submit, Store, Complete, Throw, Crash
  <2>3. ASSUME NEW v \in Workers, Compare(v) PROVE v = w
    BY <2>3 DEF Compare
  <2> QED
    BY <2>1, <2>2, <2>3 DEF Next, Edit, RecoverStalled, vars
<1>2. hash = seen[w]
  BY <1>1 DEF Compare
<1>3. CASE \A v \in Workers : pc[v] # "store"
  BY <1>2, <1>3 DEF HashTells
<1>4. ASSUME NEW v \in Workers, pc[v] = "store" PROVE decathlon = seen[w]
  <2>1. seen[v] = seen[w]
    BY <1>4 DEF RunsAgree, Underway
  <2> QED
    BY <1>4, <2>1 DEF HashTells
<1> QED
  BY <1>3, <1>4

(* A run skips a product as unchanged only when Decathlon was last sent    *)
(* what the run has read (lastPayloadHash, engine.syncProduct), for any    *)
(* number of runs side by side, as long as no run failed and no two that   *)
(* had read different contents overlapped.                                 *)
THEOREM SkipsAreCurrent == Spec => SkippedIsCurrent
<1> DEFINE IInv == Types /\ RunsAgree /\ HashTells
<1>1. Init => IInv
  BY InitTypes, InitHash
<1>2. IInv /\ [Next]_vars => IInv'
  BY StepTypes, StepAgree, StepHash
<1>3. IInv /\ [Next]_vars => [SkipTells]_vars
  BY StepSkips
<1> QED
  BY <1>1, <1>2, <1>3, PTL DEF Spec, SkippedIsCurrent, SkipTells

-----------------------------------------------------------------------------
(* Every edit is covered: its webhook is still to come, a job or a run     *)
(* will read it or has read it, or a request is bound to add a job.        *)

Reading(w) == pc[w] \in {"compare", "submit"}

Served ==
    \/ \E j \in Jobs : job[j] = "waiting"
    \/ \E w \in Workers : pc[w] = "fetch" \/ (Reading(w) /\ seen[w] = content)
    \/ decathlon = content /\ \A w \in Workers : ~Reading(w)

(* The request p will add a job, find one that waits, or fail and have the *)
(* webhook delivered again.                                                *)
Bound(p) ==
    \/ at[p] \in {"pending", "create", "add"} /\ ~Known(target[p])
    \/ asks[p] = "webhook" /\ at[p] = "remove"
    \/ asks[p] = "webhook" /\ at[p] = "pending" /\ target[p] = "base"
    \/ asks[p] = "webhook" /\ at[p] = "look"
    \/ asks[p] = "webhook" /\ at[p] = "state" /\ Known("base")

Covered ==
    faults = 0 /\ ~missed /\ ~crossed /\ edits > 0 =>
        deliveries > 0 \/ Served \/ \E p \in Producers : Bound(p)

(* A request at the state of a job looks at "base". *)
StateIsOfBase == \A p \in Producers : at[p] = "state" => target[p] = "base"

LEMMA InitCovered == Init => StateIsOfBase /\ Covered
  BY DEF Init, StateIsOfBase, Covered

LEMMA StepBase == ASSUME Types, StateIsOfBase, [Next]_vars PROVE StateIsOfBase'
<1> USE DEF Types, RequestsTyped, StateIsOfBase
<1>1. CASE UNCHANGED <<at, target>>
  BY <1>1
<1>2. ASSUME NEW p \in Producers, Produce(p) PROVE StateIsOfBase'
  <2>1. CASE HandleWebhook(p) \/ SyncProductsNow(p) \/ Look(p) \/ Remove(p) \/ Free(p)
             \/ BaseKnown(p) \/ FollowUp(p) \/ CreateRow(p)
    BY <2>1 DEF HandleWebhook, SyncProductsNow, Look, Remove, Free, BaseKnown, FollowUp, CreateRow
  <2>2. CASE RemoveFails(p) \/ NextKnown(p) \/ StillPending(p) \/ Add(p)
    BY <2>2 DEF RemoveFails, NextKnown, StillPending, Add
  <2> QED
    BY <1>2, <2>1, <2>2 DEF Produce
<1>3. ASSUME NEW w \in Workers, Run(w) \/ Throw(w) \/ Crash(w) PROVE UNCHANGED <<at, target>>
  BY <1>3 DEF Run, Start, Fetch, Compare, Skip, Submit, Store, Complete, Throw, Crash
<1> QED
  BY <1>1, <1>2, <1>3 DEF Next, Edit, RecoverStalled, vars

LEMMA ProduceCovered ==
  ASSUME NEW p \in Producers, Types, StateIsOfBase, IdleAsksNothing, RunsHoldJobs, Covered,
         Produce(p)
  PROVE  Covered'
<1> SUFFICES ASSUME faults' = 0, ~missed', ~crossed', edits' > 0
             PROVE (deliveries > 0 \/ Served \/ \E q \in Producers : Bound(q))'
  BY DEF Covered
<1> USE DEF Types, JobsTyped, RequestsTyped, RunsTyped
<1>0. /\ UNCHANGED <<content, pc, cur, seen, decathlon, edits, faults>>
      /\ ~missed /\ ~crossed /\ faults = 0
      /\ \A q \in Producers \ {p} : UNCHANGED <<at[q], asks[q], target[q]>>
  BY DEF Produce, HandleWebhook, SyncProductsNow, Look, Remove, RemoveFails, Free,
         BaseKnown, NextKnown, StillPending, FollowUp, CreateRow, Add
<1>1. deliveries > 0 \/ Served \/ \E q \in Producers : Bound(q)
  BY <1>0 DEF Covered
<1>2. ASSUME UNCHANGED job PROVE Served => Served'
  BY <1>0, <1>2 DEF Served, Reading
<1>3. ASSUME UNCHANGED job, NEW q \in Producers \ {p}, Bound(q) PROVE Bound(q)'
  BY <1>0, <1>3 DEF Bound
<1>4. CASE HandleWebhook(p)
  <2>1. at'[p] = "look" /\ asks'[p] = "webhook" /\ target'[p] = "base"
    BY <1>4 DEF HandleWebhook, IdleAsksNothing
  <2> QED
    BY <2>1 DEF Bound
<1>5. CASE SyncProductsNow(p)
  <2>1. UNCHANGED <<job, deliveries>> /\ ~Bound(p)
    BY <1>5 DEF SyncProductsNow, Bound
  <2> QED
    BY <1>1, <1>2, <1>3, <2>1
<1>6. CASE Look(p)
  <2>1. UNCHANGED <<job, deliveries, asks, target>>
    BY <1>6 DEF Look
  <2>2. Bound(p) => Bound(p)' \/ Served'
    <3>1. at[p] = "look" /\ at'[p] = IF Ended(target[p]) THEN "remove" ELSE "pending"
      BY <1>6 DEF Look
    <3>2. ASSUME target[p] = "next", job["next"] = "active" PROVE Served'
      <4>1. ~HasRead("next")
        BY <1>6, <3>2 DEF Look
      <4>2. Running(holder["next"], "next") /\ holder["next"] \in Workers
        BY <1>0, <3>2 DEF RunsHoldJobs
      <4> QED
        BY <1>0, <4>1, <4>2 DEF HasRead, Running, Served
    <3> QED
      BY <2>1, <3>1, <3>2 DEF Bound, Served
  <2> QED
    BY <1>1, <1>2, <1>3, <2>1, <2>2
<1>7. CASE Remove(p)
  <2>1. at'[p] = "pending" /\ ~Known(target[p])' /\ target'[p] = target[p]
    BY <1>7 DEF Remove, FreeJob
  <2> QED
    BY <2>1 DEF Bound
<1>8. CASE RemoveFails(p)
  <2>1. CASE asks[p] = "webhook"
    BY <1>8, <2>1 DEF RemoveFails
  <2>2. CASE asks[p] # "webhook"
    <3>1. UNCHANGED <<job, deliveries>> /\ ~Bound(p)
      BY <1>8, <2>2 DEF RemoveFails, Bound
    <3> QED
      BY <1>1, <1>2, <1>3, <3>1
  <2> QED
    BY <2>1, <2>2
<1>9. CASE Free(p) \/ CreateRow(p)
  <2>1. UNCHANGED <<job, deliveries, asks, target>>
    BY <1>9 DEF Free, CreateRow
  <2>2. Bound(p) => Bound(p)'
    <3>1. \/ at[p] = "pending" /\ at'[p] = "create" /\ ~Known(target[p])
          \/ at[p] = "create" /\ at'[p] = "add"
      BY <1>9 DEF Free, CreateRow
    <3> QED
      BY <2>1, <3>1 DEF Bound
  <2> QED
    BY <1>1, <1>2, <1>3, <2>1, <2>2
<1>10. CASE BaseKnown(p)
  <2>1. UNCHANGED <<job, deliveries, asks, target>>
    BY <1>10 DEF BaseKnown
  <2>2. Bound(p) => Bound(p)'
    BY <1>10, <2>1 DEF BaseKnown, Bound
  <2> QED
    BY <1>1, <1>2, <1>3, <2>1, <2>2
<1>11. CASE NextKnown(p)
  <2>1. UNCHANGED <<job, deliveries>> /\ ~Bound(p)
    BY <1>11 DEF NextKnown, Bound
  <2> QED
    BY <1>1, <1>2, <1>3, <2>1
<1>12. CASE StillPending(p)
  <2>1. UNCHANGED <<job, deliveries>> /\ ~Ended("base") /\ job["base"] # "active"
    BY <1>12 DEF StillPending
  <2>2. Bound(p) => Served
    BY <1>12, <2>1 DEF StillPending, Bound, Served
  <2> QED
    BY <1>1, <1>2, <1>3, <2>1, <2>2
<1>13. CASE FollowUp(p)
  <2>1. UNCHANGED <<job, deliveries, asks>> /\ job["base"] = "active"
    BY <1>13 DEF FollowUp
  <2>3. at'[p] = "look" /\ at[p] = "state"
    BY <1>13 DEF FollowUp
  <2>4. Bound(p) => Bound(p)'
    BY <2>1, <2>3 DEF Bound
  <2> QED
    BY <1>1, <1>2, <1>3, <2>1, <2>4
<1>14. CASE Add(p)
  <2>1. CASE Known(target[p])
    <3>1. UNCHANGED <<job, deliveries>> /\ ~Bound(p)
      BY <1>14, <2>1 DEF Add, AddJob, Bound
    <3> QED
      BY <1>1, <1>2, <1>3, <3>1
  <2>2. CASE ~Known(target[p])
    <3>1. job'[target[p]] = "waiting"
      BY <1>14, <2>2 DEF Add, AddJob
    <3> QED
      BY <3>1 DEF Served
  <2> QED
    BY <2>1, <2>2
<1> QED
  BY <1>4, <1>5, <1>6, <1>7, <1>8, <1>9, <1>10, <1>11, <1>12, <1>13, <1>14 DEF Produce

LEMMA OthersCovered ==
  ASSUME Types, StateIsOfBase, RunsHoldJobs, RunsAgree, HashTells, Covered,
         \/ Edit \/ UNCHANGED vars \/ \E j \in Jobs : RecoverStalled(j)
         \/ \E w \in Workers : Run(w) \/ Throw(w) \/ Crash(w)
  PROVE  Covered'
<1> SUFFICES ASSUME faults' = 0, ~missed', ~crossed', edits' > 0
             PROVE (deliveries > 0 \/ Served \/ \E q \in Producers : Bound(q))'
  BY DEF Covered
<1> USE DEF Types, JobsTyped, RequestsTyped, RunsTyped
<1>1. CASE Edit
  BY <1>1 DEF Edit
<1>2. CASE UNCHANGED vars
  BY <1>2 DEF vars, Covered, Served, Reading, Bound
<1>3. ASSUME NEW w \in Workers, Run(w)
      PROVE  (deliveries > 0 \/ Served \/ \E q \in Producers : Bound(q))'
  <2>0. /\ UNCHANGED <<content, edits, deliveries, at, asks, target, missed, faults>>
        /\ ~missed /\ ~crossed /\ faults = 0
    BY <1>3 DEF Run, Start, Fetch, Compare, Skip, Submit, Store, Complete
  <2>1. deliveries > 0 \/ Served \/ \E q \in Producers : Bound(q)
    BY <2>0 DEF Covered
  <2>2. ASSUME UNCHANGED job, NEW q \in Producers, Bound(q) PROVE Bound(q)'
    BY <2>0, <2>2 DEF Bound
  <2>3. ASSUME NEW j \in Jobs, Start(w, j) PROVE Served'
    BY <2>3 DEF Start, Served
  <2>4. ASSUME Reading(w), seen[w] = content, NEW v \in Workers, Reading(v) \/ pc[v] = "store"
        PROVE  seen[v] = content
    BY <2>0, <2>4 DEF Reading, RunsAgree, Underway
  <2>5. CASE Fetch(w)
    BY <2>0, <2>5 DEF Fetch, Served, Reading
  <2>6. CASE Compare(w)
    <3>1. Served => Served'
      <4>0. pc[w] = "compare" /\ pc' = [pc EXCEPT ![w] =
               IF trigger[cur[w]] = "webhook" /\ hash = seen[w] THEN "skip" ELSE "submit"]
            /\ UNCHANGED <<job, seen>>
        BY <2>6 DEF Compare
      <4>1. seen[w] = content /\ hash = seen[w] => decathlon = content
        <5>1. CASE \A v \in Workers : pc[v] # "store"
          BY <2>0, <5>1 DEF HashTells
        <5>2. ASSUME NEW v \in Workers, pc[v] = "store" PROVE seen[w] = content => decathlon = content
          <6>1. decathlon = seen[v]
            BY <2>0, <5>2 DEF HashTells
          <6> QED
            BY <2>4, <4>0, <5>2, <6>1 DEF Reading
        <5> QED
          BY <5>1, <5>2
      <4>2. seen[w] = content => Served'
        <5>1. CASE \E v \in Workers : Reading(v)'
          BY <2>0, <2>4, <4>0, <5>1 DEF Served, Reading
        <5>2. CASE \A v \in Workers : ~Reading(v)'
          <6>1. pc'[w] # "submit"
            BY <5>2 DEF Reading
          <6>2. trigger[cur[w]] = "webhook" /\ hash = seen[w]
            BY <4>0, <6>1
          <6>3. UNCHANGED <<content, decathlon>>
            BY <2>0, <2>6 DEF Compare
          <6> QED
            BY <4>1, <5>2, <6>2, <6>3 DEF Served
        <5> QED
          BY <5>1, <5>2
      <4> QED
        BY <2>0, <4>0, <4>2 DEF Served, Reading
    <3> QED
      BY <2>0, <2>1, <2>2, <2>6, <3>1 DEF Compare
  <2>7. CASE Skip(w) \/ Store(w)
    <3>1. Served => Served'
      BY <2>0, <2>7 DEF Skip, Store, Served, Reading
    <3> QED
      BY <2>0, <2>1, <2>2, <2>7, <3>1 DEF Skip, Store
  <2>8. CASE Submit(w)
    <3>1. Served => Served'
      <4>0. /\ pc[w] = "submit" /\ pc' = [pc EXCEPT ![w] = "store"]
            /\ decathlon' = seen[w] /\ UNCHANGED <<job, seen>>
        BY <2>8 DEF Submit
      <4>1. seen[w] = content => Served'
        <5>1. CASE \E v \in Workers : Reading(v)'
          BY <2>0, <2>4, <4>0, <5>1 DEF Served, Reading
        <5>2. CASE \A v \in Workers : ~Reading(v)'
          BY <2>0, <4>0, <5>2 DEF Served, Reading
        <5> QED
          BY <5>1, <5>2
      <4> QED
        BY <2>0, <4>0, <4>1 DEF Served, Reading
    <3> QED
      BY <2>0, <2>1, <2>2, <2>8, <3>1 DEF Submit
  <2>9. CASE Complete(w)
    <3>1. /\ UNCHANGED decathlon
          /\ pc[w] = "done" /\ pc' = [pc EXCEPT ![w] = "idle"]
          /\ \A v \in Workers \ {w} : seen'[v] = seen[v]
          /\ job[cur[w]] = "active" /\ job' = [job EXCEPT ![cur[w]] = "completed"]
      BY <2>0, <2>9 DEF Complete, CompleteJob, RunsHoldJobs
    <3>2. Served => Served'
      BY <2>0, <3>1 DEF Served, Reading
    <3>3. \A q \in Producers : Bound(q) => Bound(q)'
      BY <2>0, <3>1 DEF Bound
    <3> QED
      BY <2>0, <2>1, <3>2, <3>3
  <2> QED
    BY <1>3, <2>3, <2>5, <2>6, <2>7, <2>8, <2>9 DEF Run
<1>4. ASSUME NEW w \in Workers PROVE ~(Throw(w) \/ Crash(w))
  BY DEF Throw, Crash
<1>5. ASSUME NEW j \in Jobs PROVE ~RecoverStalled(j)
  BY NothingStalls DEF RecoverStalled
<1> QED
  BY <1>1, <1>2, <1>3, <1>4, <1>5

(* "Queue ONE follow-up" is enough (queue-producer.service.ts:101): once   *)
(* all is quiet Decathlon has been sent the last edit, for any number of   *)
(* requests and of runs side by side, as long as no run failed, no two     *)
(* that had read different contents overlapped, and no request left its    *)
(* edit to a run that did not see it.                                      *)
THEOREM TheLastEditArrives == Spec => []FollowUpArrives
<1> DEFINE IInv == /\ Types /\ RunsHoldJobs /\ IdleAsksNothing /\ RunsAgree /\ HashTells
                   /\ StateIsOfBase /\ Covered
<1>1. Init => IInv
  BY InitTypes, InitRuns, InitWish, InitHash, InitCovered
<1>2. IInv /\ [Next]_vars => IInv'
  BY StepTypes, StepRuns, StepIdle, StepAgree, StepHash, StepBase, ProduceCovered, OthersCovered DEF Next
<1>3. IInv => FollowUpArrives
  <2> SUFFICES ASSUME IInv, Quiet, edits > 0, faults = 0, ~missed, ~crossed
             PROVE decathlon = content
    BY DEF FollowUpArrives
  <2>1. deliveries = 0 /\ \A p \in Producers : ~Bound(p)
    BY DEF Quiet, Bound
  <2>2. Served
    BY <2>1 DEF Covered
  <2> QED
    BY <2>2 DEF Served, Reading, Quiet
<1> QED
  BY <1>1, <1>2, <1>3, PTL DEF Spec

-----------------------------------------------------------------------------
(* Type correctness, clashes of requests included.  The counters stay in   *)
(* their range since each counts something: a PENDING row what is still to *)
(* be added or taken, a delivery an edit.                                  *)

CountersTyped == QueueTypeOK /\ QueueBudget

LEMMA ProductQueueTyped ==
  ASSUME CountersTyped, NEW w, NEW j \in Jobs,
         \/ AddJob(j) \/ FreeJob(j) \/ StallJob(j) \/ CompleteJob(w, j) \/ FailJob(w, j)
         \/ w \in Workers /\ TakeJob(w, j)
         \/ UNCHANGED queueVars
  PROVE  CountersTyped'
<1> USE DEF CountersTyped, QueueTypeOK, QueueBudget
<1>1. CASE AddJob(j)
  BY <1>1 DEF AddJob
<1>2. CASE FreeJob(j)
  BY <1>2 DEF FreeJob
<1>3. CASE StallJob(j)
  BY <1>3 DEF StallJob
<1>4. CASE CompleteJob(w, j)
  BY <1>4 DEF CompleteJob
<1>5. CASE FailJob(w, j)
  BY <1>5 DEF FailJob
<1>6. CASE w \in Workers /\ TakeJob(w, j)
  BY <1>6 DEF TakeJob
<1>7. CASE UNCHANGED queueVars
  BY <1>7
<1> QED
  BY <1>1, <1>2, <1>3, <1>4, <1>5, <1>6, <1>7

LEMMA StepCountersTyped == ASSUME Types, CountersTyped, [Next]_vars PROVE CountersTyped'
<1> USE DEF Types, RequestsTyped, RunsTyped
<1>0. ASSUME UNCHANGED queueVars PROVE CountersTyped'
  BY <1>0, ProductQueueTyped
<1>1. ASSUME NEW p \in Producers, Produce(p) PROVE CountersTyped'
  <2>1. CASE Remove(p) \/ Add(p)
    BY <2>1, ProductQueueTyped DEF Remove, Add
  <2>2. CASE ~Remove(p) /\ ~Add(p)
    <3>1. UNCHANGED queueVars
      BY <1>1, <2>2 DEF Produce, HandleWebhook, SyncProductsNow, Look, RemoveFails, Free,
         BaseKnown, NextKnown, StillPending, FollowUp, CreateRow
    <3> QED
      BY <1>0, <3>1
  <2> QED
    BY <2>1, <2>2
<1>2. ASSUME NEW w \in Workers, Run(w) \/ Throw(w) \/ Crash(w) PROVE CountersTyped'
  <2>1. CASE \E j \in Jobs : Start(w, j)
    BY <2>1, ProductQueueTyped DEF Start
  <2>2. CASE Complete(w) \/ Throw(w)
    BY <2>2, ProductQueueTyped DEF Complete, Throw
  <2>3. CASE Fetch(w) \/ Compare(w) \/ Skip(w) \/ Submit(w) \/ Store(w) \/ Crash(w)
    <3>1. UNCHANGED queueVars
      BY <2>3 DEF Fetch, Compare, Skip, Submit, Store, Crash
    <3> QED
      BY <1>0, <3>1
  <2> QED
    BY <1>2, <2>1, <2>2, <2>3 DEF Run
<1>3. ASSUME NEW j \in Jobs, RecoverStalled(j) PROVE CountersTyped'
  BY <1>3, ProductQueueTyped DEF RecoverStalled
<1>4. CASE Edit \/ UNCHANGED vars
  <2>1. UNCHANGED queueVars
    BY <1>4 DEF Edit, vars
  <2> QED
    BY <1>0, <2>1
<1> QED
  BY <1>1, <1>2, <1>3, <1>4 DEF Next

ContentsTyped ==
    /\ content \in Versions /\ hash \in Versions \cup {NoVersion}
    /\ decathlon \in Versions \cup {NoVersion}
    /\ seen \in [Workers -> Versions \cup {NoVersion}]
    /\ click \in {"none", "unsent", "coalesced"}
    /\ edits \in 0..MaxEdits /\ clicks \in 0..MaxClicks /\ faults \in 0..MaxFaults

LEMMA StepContentsTyped == ASSUME Types, ContentsTyped, [Next]_vars PROVE ContentsTyped'
<1> USE DEF ContentsTyped, Types, RunsTyped
<1>1. CASE Edit \/ UNCHANGED vars
  BY <1>1 DEF Edit, vars
<1>2. ASSUME NEW p \in Producers, Produce(p) PROVE ContentsTyped'
  <2>1. CASE HandleWebhook(p) \/ SyncProductsNow(p) \/ Look(p) \/ Remove(p) \/ RemoveFails(p)
             \/ Free(p) \/ BaseKnown(p)
    BY <2>1 DEF HandleWebhook, SyncProductsNow, Look, Remove, RemoveFails, Free, BaseKnown
  <2>2. CASE NextKnown(p) \/ StillPending(p) \/ FollowUp(p) \/ CreateRow(p) \/ Add(p)
    BY <2>2 DEF NextKnown, StillPending, FollowUp, CreateRow, Add
  <2> QED
    BY <1>2, <2>1, <2>2 DEF Produce
<1>3. ASSUME NEW w \in Workers, Run(w) \/ Throw(w) \/ Crash(w) PROVE ContentsTyped'
  <2>1. CASE \E j \in Jobs : Start(w, j)
    BY <2>1 DEF Start
  <2>2. CASE Fetch(w) \/ Compare(w) \/ Skip(w) \/ Submit(w) \/ Store(w)
    BY <2>2 DEF Fetch, Compare, Skip, Submit, Store
  <2>3. CASE Complete(w)
    BY <2>3 DEF Complete
  <2>4. CASE Throw(w)
    BY <2>4 DEF Throw
  <2>5. CASE Crash(w)
    BY <2>5 DEF Crash
  <2> QED
    BY <1>3, <2>1, <2>2, <2>3, <2>4, <2>5 DEF Run
<1>4. ASSUME NEW j \in Jobs, RecoverStalled(j) PROVE ContentsTyped'
  BY <1>4 DEF RecoverStalled
<1> QED
  BY <1>1, <1>2, <1>3, <1>4 DEF Next

(* A fresh job and a request about to add one have a row each.             *)
RowsSuffice == pendingRows >= Cardinality(fresh) + Cardinality(Adders)

LEMMA StepRowsSuffice == ASSUME Types, RowsSuffice, [Next]_vars PROVE RowsSuffice'
<1> USE DEF Types, JobsTyped, RequestsTyped, RunsTyped, RowsSuffice
<1>0. Cardinality(fresh) \in Nat /\ Cardinality(Adders) \in Nat
  BY FewJobs, FS_Subset, FS_CardinalityType DEF Adders
<1>a. ASSUME UNCHANGED <<fresh, pendingRows, at>> PROVE RowsSuffice'
  BY <1>a DEF Adders
<1>b. ASSUME NEW p \in Producers, NEW s \in Steps \ {"add"}, at' = [at EXCEPT ![p] = s],
             at[p] # "add", UNCHANGED <<fresh, pendingRows>>
      PROVE RowsSuffice'
  <2>1. Adders' = Adders
    BY <1>b DEF Adders
  <2> QED
    BY <1>b, <2>1
<1>1. ASSUME NEW p \in Producers, Produce(p) PROVE RowsSuffice'
  <2>1. CASE Remove(p)
    <3>1. Adders' = Adders /\ pendingRows' = pendingRows /\ fresh' = fresh \ {target[p]}
      BY <2>1 DEF Remove, Adders
    <3>2. Cardinality(fresh') <= Cardinality(fresh) /\ Cardinality(fresh') \in Nat
      <4>1. fresh' \subseteq fresh /\ IsFiniteSet(fresh) /\ IsFiniteSet(fresh')
        BY <3>1, FewJobs
      <4> QED
        BY <4>1, FS_Subset, FS_CardinalityType
    <3> QED
      BY <1>0, <3>1, <3>2
  <2>2. CASE CreateRow(p)
    <3>1. Adders' = Adders \cup {p} /\ p \notin Adders /\ Adders \subseteq Producers
      BY <2>2 DEF CreateRow, Adders
    <3>2. Cardinality(Adders') = Cardinality(Adders) + 1
      BY <3>1, FS_Subset, FS_AddElement
    <3> QED
      BY <1>0, <2>2, <3>2 DEF CreateRow
  <2>3. CASE Add(p)
    <3>1. Adders' = Adders \ {p} /\ p \in Adders /\ Adders \subseteq Producers
      BY <2>3 DEF Add, Adders
    <3>2. Cardinality(Adders') = Cardinality(Adders) - 1
      BY <3>1, FS_Subset, FS_RemoveElement
    <3>3. Cardinality(fresh') <= Cardinality(fresh) + 1 /\ Cardinality(fresh') \in Nat
      <4>1. fresh' = fresh \/ fresh' = fresh \cup {target[p]}
        BY <2>3 DEF Add
      <4>2. IsFiniteSet(fresh)
        BY FewJobs
      <4>3. \/ Cardinality(fresh \cup {target[p]}) = Cardinality(fresh)
            \/ Cardinality(fresh \cup {target[p]}) = Cardinality(fresh) + 1
        BY ONLY <4>2, FS_AddElement
      <4>4. CASE fresh' = fresh
        <5>1. Cardinality(fresh') = Cardinality(fresh)
          BY <4>4
        <5> QED
          BY <1>0, <5>1
      <4>5. CASE fresh' = fresh \cup {target[p]}
        <5>1. Cardinality(fresh') = Cardinality(fresh \cup {target[p]})
          BY <4>5
        <5> QED
          BY <1>0, <4>3, <5>1
      <4> QED
        BY <4>1, <4>4, <4>5
    <3> QED
      BY <1>0, <2>3, <3>2, <3>3 DEF Add
  <2>4. CASE HandleWebhook(p) \/ SyncProductsNow(p) \/ Look(p) \/ RemoveFails(p) \/ Free(p)
             \/ BaseKnown(p)
    BY <1>b, <2>4 DEF HandleWebhook, SyncProductsNow, Look, RemoveFails, Free, BaseKnown
  <2>5. CASE NextKnown(p) \/ StillPending(p) \/ FollowUp(p)
    BY <1>b, <2>5 DEF NextKnown, StillPending, FollowUp
  <2> QED
    BY <1>1, <2>1, <2>2, <2>3, <2>4, <2>5 DEF Produce
<1>2. ASSUME NEW w \in Workers, NEW j \in Jobs, Start(w, j) PROVE RowsSuffice'
  <2>1. Adders' = Adders
    BY <1>2 DEF Start, Adders
  <2>2. CASE j \in fresh
    <3>1. Cardinality(fresh') = Cardinality(fresh) - 1
      BY <1>2, <2>2, FewJobs, FS_RemoveElement DEF Start
    <3> QED
      BY <1>0, <1>2, <2>1, <2>2, <3>1 DEF Start
  <2>3. CASE j \notin fresh
    <3>1. fresh' = fresh /\ pendingRows' = pendingRows
      BY <1>2, <2>3 DEF Start
    <3>2. Cardinality(fresh') = Cardinality(fresh) /\ Cardinality(Adders') = Cardinality(Adders)
      BY <2>1, <3>1
    <3> QED
      BY <3>1, <3>2
  <2> QED
    BY <2>2, <2>3
<1>3. ASSUME NEW w \in Workers, \/ Fetch(w) \/ Compare(w) \/ Skip(w) \/ Submit(w) \/ Store(w)
                                \/ Complete(w) \/ Throw(w) \/ Crash(w)
      PROVE RowsSuffice'
  BY <1>3, <1>a DEF Fetch, Compare, Skip, Submit, Store, Complete, Throw, Crash
<1>4. CASE Edit \/ UNCHANGED vars \/ \E j \in Jobs : RecoverStalled(j)
  BY <1>4, <1>a DEF Edit, RecoverStalled, vars
<1> QED
  BY <1>1, <1>2, <1>3, <1>4 DEF Next, Run

(* A webhook that waits or is being handled is of an edit of its own, also *)
(* when its handling failed and it was sent again.                         *)
Handling == {p \in Producers : at[p] # "idle" /\ asks[p] = "webhook"}
EditsSuffice == edits >= deliveries + Cardinality(Handling)

LEMMA StepEditsSuffice ==
  ASSUME Types, IdleAsksNothing, EditsSuffice, [Next]_vars
  PROVE  EditsSuffice'
<1> USE DEF Types, RequestsTyped, IdleAsksNothing, EditsSuffice
<1>0. Cardinality(Handling) \in Nat /\ IsFiniteSet(Handling)
  BY FS_Subset, FS_CardinalityType DEF Handling
<1>a. ASSUME Handling' = Handling, UNCHANGED <<deliveries, edits>> PROVE EditsSuffice'
  BY <1>a
<1>b. ASSUME NEW p \in Producers, at' = [at EXCEPT ![p] = "idle"], at[p] # "idle",
             asks' = [asks EXCEPT ![p] = "webhook"], edits' = edits,
             deliveries' \in {deliveries, IF asks[p] = "webhook" THEN deliveries + 1 ELSE deliveries}
      PROVE EditsSuffice'
  <2>1. Handling' = Handling \ {p}
    BY <1>b DEF Handling
  <2>2. CASE asks[p] = "webhook"
    <3>1. p \in Handling
      BY <1>b, <2>2 DEF Handling
    <3>2. Cardinality(Handling') = Cardinality(Handling) - 1
      BY <1>0, <2>1, <3>1, FS_RemoveElement
    <3> QED
      BY <1>0, <1>b, <3>2
  <2>3. CASE asks[p] # "webhook"
    <3>1. Handling' = Handling
      BY <2>1, <2>3 DEF Handling
    <3> QED
      BY <1>b, <2>3, <3>1
  <2> QED
    BY <2>2, <2>3
<1>1. ASSUME NEW p \in Producers, Produce(p) PROVE EditsSuffice'
  <2>1. CASE HandleWebhook(p)
    <3>1. Handling' = Handling \cup {p} /\ p \notin Handling
      BY <2>1 DEF HandleWebhook, Handling
    <3>2. Cardinality(Handling') = Cardinality(Handling) + 1
      BY <1>0, <3>1, FS_AddElement
    <3> QED
      BY <1>0, <2>1, <3>2 DEF HandleWebhook
  <2>2. CASE SyncProductsNow(p)
    <3>1. Handling' = Handling
      BY <2>2 DEF SyncProductsNow, Handling
    <3> QED
      BY <1>a, <2>2, <3>1 DEF SyncProductsNow
  <2>3. CASE Look(p) \/ Remove(p) \/ Free(p) \/ BaseKnown(p) \/ FollowUp(p) \/ CreateRow(p)
    <3>1. /\ asks' = asks /\ at[p] # "idle"
          /\ \E s \in Steps \ {"idle"} : at' = [at EXCEPT ![p] = s]
          /\ UNCHANGED <<deliveries, edits>>
      BY <2>3 DEF Look, Remove, Free, BaseKnown, FollowUp, CreateRow
    <3>2. Handling' = Handling
      BY <3>1 DEF Handling
    <3> QED
      BY <1>a, <3>1, <3>2
  <2>4. CASE RemoveFails(p)
    BY <1>b, <2>4 DEF RemoveFails
  <2>5. CASE NextKnown(p) \/ StillPending(p) \/ Add(p)
    BY <1>b, <2>5 DEF NextKnown, StillPending, Add
  <2> QED
    BY <1>1, <2>1, <2>2, <2>3, <2>4, <2>5 DEF Produce
<1>2. ASSUME NEW w \in Workers, Run(w) \/ Throw(w) \/ Crash(w) PROVE EditsSuffice'
  <2>1. UNCHANGED <<at, asks, deliveries, edits>>
    BY <1>2 DEF Run, Start, Fetch, Compare, Skip, Submit, Store, Complete, Throw, Crash
  <2> QED
    BY <1>a, <2>1 DEF Handling
<1>3. CASE Edit
  <2>1. Handling' = Handling /\ edits' = edits + 1 /\ deliveries' = deliveries + 1
    BY <1>3 DEF Edit, Handling
  <2> QED
    BY <1>0, <2>1
<1>4. CASE UNCHANGED vars \/ \E j \in Jobs : RecoverStalled(j)
  <2>1. UNCHANGED <<at, asks, deliveries, edits>>
    BY <1>4 DEF RecoverStalled, vars
  <2> QED
    BY <1>a, <2>1 DEF Handling
<1> QED
  BY <1>1, <1>2, <1>3, <1>4 DEF Next

(* Every variable keeps its type: the attempts of a job end                *)
(* (queues.ts), no PENDING row is taken twice and no webhook is handled    *)
(* that no edit has sent (queue-producer.service.ts), clashes included.    *)
THEOREM TypeCorrect == Spec => []TypeOK
<1> DEFINE IInv == /\ Types /\ CountersTyped /\ ContentsTyped /\ RowsSuffice
                   /\ IdleAsksNothing /\ EditsSuffice
<1>1. Init => IInv
  <2> SUFFICES ASSUME Init PROVE IInv
    OBVIOUS
  <2>1. CountersTyped
    BY DEF Init, QueueInit, CountersTyped, QueueTypeOK, QueueBudget
  <2>2. ContentsTyped
    BY DEF Init, ContentsTyped
  <2>3. fresh = {} /\ Adders = {} /\ Handling = {}
    BY DEF Init, Adders, Handling
  <2>4. Cardinality(fresh) = 0 /\ Cardinality(Adders) = 0 /\ Cardinality(Handling) = 0
    BY ONLY <2>3, FS_EmptySet
  <2>5. RowsSuffice /\ EditsSuffice
    BY <2>4 DEF Init, RowsSuffice, EditsSuffice
  <2> QED
    BY <2>1, <2>2, <2>5, InitTypes, InitWish
<1>2. IInv /\ [Next]_vars => IInv'
  BY StepTypes, StepCountersTyped, StepContentsTyped, StepRowsSuffice, StepIdle, StepEditsSuffice
<1>3. IInv => TypeOK
  <2> SUFFICES ASSUME IInv PROVE TypeOK
    OBVIOUS
  <2> USE DEF Types, JobsTyped, RequestsTyped, RunsTyped
  <2>1. pendingRows \in Nat
    <3>1. Cardinality(fresh) \in Nat /\ Cardinality(Adders) \in Nat
      BY FewJobs, FS_Subset, FS_CardinalityType DEF Adders
    <3> QED
      BY <3>1 DEF RowsSuffice
  <2>2. deliveries \in 0..(MaxEdits + MaxFaults)
    <3>1. Cardinality(Handling) \in Nat
      BY FS_Subset, FS_CardinalityType DEF Handling
    <3> QED
      BY <3>1 DEF EditsSuffice, ContentsTyped
  <2> QED
    BY <2>1, <2>2 DEF TypeOK, CountersTyped, ContentsTyped
<1> QED
  BY <1>1, <1>2, <1>3, PTL DEF Spec

=============================================================================
