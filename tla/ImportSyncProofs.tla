--------------------------- MODULE ImportSyncProofs ---------------------------
(***************************************************************************)
(* Proofs about ImportSync, for any number of jobs, processors, variants,  *)
(* imports, polls and failures: what SUCCESS and SYNCED stand for, whose   *)
(* result a row reports, that a told result is written over only after a   *)
(* job was taken from its run, and that the poll chain of an import never  *)
(* breaks off by itself.                                                   *)
(***************************************************************************)
EXTENDS ImportSync, WellFoundedInduction, TLAPS

(* Among finitely many places of a sequence one is the last. *)
LEMMA LastOf ==
  ASSUME NEW n \in Nat, NEW S, S \subseteq 1..n, S # {}
  PROVE  \E r \in S : \A q \in S : q <= r
<1> DEFINE T == {n - r : r \in S}
           R == OpToRel(<, Nat)
<1>0. T \subseteq Nat /\ T # {}
  <2> HIDE DEF R
  <2>1. \A r \in S : r \in Int /\ r <= n /\ n - r \in Nat
    OBVIOUS
  <2> QED
    BY <2>1
<1>1. IsWellFoundedOn(R, Nat)
  BY NatLessThanWellFounded
<1>2. PICK x \in T : \A y \in T : <<y, x>> \notin R
  <2> HIDE DEF R, T
  <2> QED
    BY <1>0, <1>1, WFMin
<1>3. \A y \in T : ~(y < x)
  <2> HIDE DEF T
  <2> QED
    BY <1>0, <1>2 DEF OpToRel
<1> HIDE DEF R
<1>4. PICK r \in S : x = n - r
  OBVIOUS
<1>5. ASSUME NEW q \in S PROVE q <= r
  <2>1. n - q \in T /\ q \in Int /\ r \in Int
    OBVIOUS
  <2>2. ~(n - q < n - r)
    BY <1>3, <1>4, <2>1
  <2> QED
    BY <2>1, <2>2
<1> QED
  BY <1>5

USE DEF JobStates, Status, MappingStatus, Places, HandlerPlaces, products, rowVars, decathlonVars,
        failures, handlers, outside, reading, marking, registers, runVars, queueVars, GoTo, EndRun, Known, Ended, Holds, Imports, Fault,
        Unchanged, NoCorrelation

LEMMA Bounds ==
  /\ MaxImports \in Nat /\ MaxPolls \in Nat /\ MaxPolls > 0
  /\ Jobs = ProductJobs \cup Requeues \cup {OfferJob} \cup PollJobs
  /\ OfferJob \notin PollJobs /\ ProductJobs \cap PollJobs = {} /\ Requeues \cap PollJobs = {}
  BY ImportAssumption

ImportRec == [kind : {"product", "offer"}, variants : SUBSET Variants, corr : 0..MaxImports,
              by : Jobs]

QueueTyped ==
    /\ job \in [Jobs -> JobStates]
    /\ attempts \in [Jobs -> Nat] /\ stalls \in [Jobs -> Nat]
    /\ holder \in [Jobs -> Workers \cup {NoWorker}]

RowsTyped ==
    /\ mapping \in [Variants -> MappingStatus]
    /\ linked \subseteq Variants
    /\ log \in Seq(LogRow)

SentTyped ==
    /\ imports \in Seq(ImportRec) /\ Len(imports) <= MaxImports
    /\ offerCorr \in 0..NoCorrelation
    /\ stage1 \in [Imports -> [Variants -> {"none", "running", "ok", "error"}]]
    /\ stage2 \in [Imports -> [Variants -> {"none", "published", "refused"}]]

RunsTyped ==
    /\ pc \in [Workers -> Places] /\ cur \in [Workers -> Jobs]
    /\ imp \in [Workers -> 0..MaxImports] /\ faults \in Nat

RegistersTyped ==
    /\ left \in [Workers -> SUBSET Variants] /\ subs \in [Workers -> SUBSET Variants]
    /\ good \in [Workers -> BOOLEAN] /\ seen \in [Workers -> SUBSET Variants]
    /\ bad \in [Workers -> SUBSET Variants] /\ at \in [Workers -> SUBSET Variants]
    /\ ided \in [Workers -> SUBSET Variants]

FoundTyped ==
    /\ handling \in [PollJobs -> HandlerPlaces]
    /\ target \in [PollJobs -> 0..Len(log)] /\ found \in [Workers -> 0..Len(log)]

Types == QueueTyped /\ RowsTyped /\ SentTyped /\ RunsTyped /\ RegistersTyped /\ FoundTyped
-----------------------------------------------------------------------------
(* Who is about which import.                                              *)

(* A poll job exists only of an import that was accepted. *)
PollsKnown == \A j \in PollJobs : Known(j) => j.of \in DOMAIN imports

SubmitPlaces == {"idle", "prepare", "refresh", "submit", "map", "log", "poll", "done"}
PollPlaces == {"status", "report", "mark", "update", "find", "resolve", "finish", "after", "repoll",
               "done"}

(* A run is about the import of its poll job, or about the one it          *)
(* submitted; only a product is followed by its offers.                    *)
RunsKnown ==
    \A w \in Workers :
        IF IsPoll(cur[w])
        THEN /\ pc[w] \in PollPlaces /\ imp[w] = cur[w].of /\ imp[w] \in DOMAIN imports
             /\ pc[w] = "after" => imports[imp[w]].kind = "product"
        ELSE /\ pc[w] \in SubmitPlaces
             /\ pc[w] \in {"map", "log", "poll"} =>
                    /\ imp[w] \in DOMAIN imports
                    /\ imports[imp[w]].by = cur[w] /\ imports[imp[w]].kind = Kind(cur[w])

RowsKnown ==
    \A r \in DOMAIN log :
        /\ log[r].of \in DOMAIN imports
        /\ log[r].says # "PROCESSING" => log[r].about \in DOMAIN imports

(* A row that resolvePending has found is one of the import's correlation  *)
(* id and type; the "failed" handler works on a poll that failed.          *)
FoundKnown ==
    /\ \A w \in Workers : found[w] # 0 => pc[w] = "resolve" /\ Matches(log[found[w]], imp[w])
    /\ \A j \in PollJobs :
          /\ handling[j] # "none" => job[j] = "failed"
          /\ target[j] # 0 => handling[j] = "resolve" /\ Matches(log[target[j]], j.of)

(* The newest open row of the import's correlation id and type, if any.    *)
LEMMA PendingRow ==
  ASSUME Types, NEW i
  PROVE  \/ Open(i) = {} /\ Pending(i) = 0
         \/ /\ Pending(i) \in DOMAIN log /\ Pending(i) # 0 /\ log[Pending(i)].says = "PROCESSING"
            /\ Matches(log[Pending(i)], i)
<1>1. Open(i) \subseteq 1..Len(log) /\ Len(log) \in Nat /\ DOMAIN log = 1..Len(log)
  BY DEF Open, Types, RowsTyped
<1>2. CASE Open(i) = {}
  BY <1>2 DEF Pending
<1>3. CASE Open(i) # {}
  <2>1. \E r \in Open(i) : \A q \in Open(i) : q <= r
    BY <1>1, <1>3, LastOf
  <2>2. Pending(i) \in Open(i)
    BY <1>3, <2>1 DEF Pending
  <2> QED
    BY <1>1, <2>2 DEF Open
<1> QED
  BY <1>2, <1>3

(* The row an import's result is written to.                               *)
Resolves(i, s, d, r) ==
    /\ Matches(log[r], i)
    /\ log' = Written(r, i, s, d)
    /\ s = "SUCCESS" => \E w \in Workers : good[w] /\ imp[w] = i /\ seen[w] = d

Says == {"SUCCESS", "FAILED"}

LEMMA ResolvedRow ==
  ASSUME Types, NEW i \in DOMAIN imports, NEW s \in Says, NEW d \in SUBSET Variants,
         NEW r \in DOMAIN log, Resolves(i, s, d, r)
  PROVE  /\ log' \in Seq(LogRow) /\ DOMAIN log' = DOMAIN log /\ Len(log') = Len(log)
         /\ \A q \in DOMAIN log \ {r} : log'[q] = log[q]
         /\ log'[r].says = s /\ log'[r].about = i /\ log'[r].seen = d
         /\ \A q \in DOMAIN log :
               /\ log'[q].of = log[q].of /\ log'[q].corr = log[q].corr
               /\ log'[q].kind = log[q].kind
<1>1. log \in Seq(LogRow) /\ log[r] \in LogRow /\ r # 0
  BY DEF Types, RowsTyped
<1>2. i \in Imports /\ i \in 0..MaxImports
  BY Bounds DEF Types, SentTyped
<1> DEFINE said == [log[r] EXCEPT !.says = s]
           told == [said EXCEPT !.about = i]
           new == [told EXCEPT !.seen = d]
<1>3. said \in LogRow /\ said.says = s /\ said.of = log[r].of /\ said.corr = log[r].corr
      /\ said.kind = log[r].kind
  BY <1>1 DEF LogRow, Says
<1>4. log' = [log EXCEPT ![r] = new]
  BY <1>1 DEF Resolves, Written
<1> HIDE DEF said
<1>5. told \in LogRow /\ told.about = i /\ told.says = said.says /\ told.of = said.of
      /\ told.corr = said.corr /\ told.kind = said.kind
  BY <1>2, <1>3 DEF LogRow
<1> HIDE DEF told
<1>6. new \in LogRow /\ new.seen = d /\ new.about = told.about /\ new.says = told.says
      /\ new.of = told.of /\ new.corr = told.corr /\ new.kind = told.kind
  BY <1>5 DEF LogRow
<1> HIDE DEF new
<1>7. /\ log' \in Seq(LogRow) /\ DOMAIN log' = DOMAIN log /\ Len(log') = Len(log)
      /\ log'[r] = new /\ \A q \in DOMAIN log \ {r} : log'[q] = log[q]
  BY <1>1, <1>4, <1>6
<1> QED
  BY <1>3, <1>5, <1>6, <1>7

LEMMA PollIsJob ==
  /\ \A i \in Imports, n \in 1..MaxPolls :
        Poll(i, n) \in PollJobs /\ Poll(i, n).of = i /\ Poll(i, n).n = n
  /\ \A j \in PollJobs : j.of \in Imports /\ j.n \in 1..MaxPolls /\ j = Poll(j.of, j.n)
  /\ PollJobs \subseteq Jobs
  BY Bounds DEF Poll, PollJobs

LEMMA ProducersKeepTypes ==
  ASSUME QueueTyped, NEW j \in Jobs, AddJob(j) \/ RenewJob(j) \/ StallJob(j)
  PROVE  QueueTyped'
<1> USE DEF QueueTyped
<1>1. CASE AddJob(j)
  BY <1>1 DEF AddJob
<1>2. CASE RenewJob(j)
  BY <1>2 DEF RenewJob
<1>3. CASE StallJob(j)
  BY <1>3 DEF StallJob
<1> QED
  BY <1>1, <1>2, <1>3

LEMMA WorkersKeepTypes ==
  ASSUME QueueTyped, NEW w \in Workers, NEW j \in Jobs,
         TakeJob(w, j) \/ CompleteJob(w, j) \/ RemoveJob(w, j) \/ FailJob(w, j)
  PROVE  QueueTyped'
<1> USE DEF QueueTyped
<1>1. CASE TakeJob(w, j)
  BY <1>1 DEF TakeJob
<1>2. CASE CompleteJob(w, j)
  BY <1>2 DEF CompleteJob
<1>3. CASE RemoveJob(w, j)
  BY <1>3 DEF RemoveJob
<1>4. CASE FailJob(w, j)
  BY <1>4 DEF FailJob
<1> QED
  BY <1>1, <1>2, <1>3, <1>4

(* Steps of a run that leave the queue alone, and those that only add.     *)
Inside(w) ==
    \/ NotImportable(w) \/ NothingChanged(w) \/ Ready(w) \/ NoOffers(w) \/ OffersReady(w)
    \/ NoImportId(w) \/ Submit(w) \/ UpsertMapping(w) \/ WriteLog(w)
    \/ ReadPending(w) \/ ReadTerminal(w) \/ ReadReports(w) \/ FindVariant(w) \/ MarkVariant(w)
    \/ FindPending(w) \/ ResolveLog(w) \/ FinishSyncJob(w) \/ GiveUp(w)

Adding(w) == RefreshOffers(w) \/ EnqueueFirstPoll(w) \/ ChainOffers(w) \/ Repoll(w)

Failing(w) == PrepareThrows(w) \/ SubmitFails(w) \/ Throw(w)

(* Steps outside the runs that leave the queue alone. *)
Beside ==
    \/ \E i \in Imports : Transform(i) \/ Integrate(i)
    \/ \E j \in PollJobs : HandlerStep(j)
    \/ UNCHANGED vars

LEMMA Steps ==
  ASSUME [Next]_vars
  PROVE  \/ Beside
         \/ \E j \in ProductJobs : EnqueueProductSync(j)
         \/ \E r \in Requeues : RetryFailedSync(r)
         \/ EnqueueOfferSync
         \/ \E w \in Workers, j \in Jobs : Start(w, j)
         \/ \E w \in Workers : Inside(w) \/ Adding(w) \/ Failing(w) \/ Complete(w) \/ Crash(w)
         \/ \E j \in Jobs : RecoverStalled(j) \/ LoseLock(j)
  BY DEF Next, Step, SubmitStep, PollStep, Beside, Inside, Adding, Failing

LEMMA InsideQueue ==
  ASSUME NEW w \in Workers, Inside(w)
  PROVE  UNCHANGED <<queueVars, failures, handlers>>
  BY DEF Inside, NotImportable, NothingChanged, Ready, NoOffers, OffersReady,
         NoImportId, Submit, UpsertMapping, WriteLog, ReadPending, ReadTerminal, ReadReports, FindVariant, MarkVariant,
         FindPending, ResolveLog, FinishSyncJob, GiveUp

LEMMA BesideQueue == ASSUME Beside PROVE UNCHANGED <<queueVars, failures, runVars>>
  BY DEF Beside, Transform, Integrate, HandlerStep, HandlerFinds, HandlerResolves, HandlerFinishes, HandlerFails, Handle, vars

LEMMA FailingQueue ==
  ASSUME NEW w \in Workers, Failing(w)
  PROVE  /\ FailJob(w, cur[w]) /\ faults' = faults + 1 /\ EndRun(w) /\ pc[w] \notin {"idle", "done"}
         /\ handling' = IF IsPoll(cur[w]) /\ Holds(w, cur[w]) /\ job'[cur[w]] = "failed"
                          THEN [handling EXCEPT ![cur[w]] = "find"] ELSE handling
         /\ UNCHANGED <<linked, log, offerCorr, decathlonVars, target>>
  BY DEF Failing, PrepareThrows, SubmitFails, Throw, GiveBack, Preparing

(* A run of a step moves nobody else. *)
LEMMA OthersStay ==
  ASSUME NEW w \in Workers, Types,
         \/ Inside(w) \/ Adding(w) \/ Failing(w) \/ Complete(w) \/ Crash(w)
         \/ \E j \in Jobs : Start(w, j)
  PROVE  \A v \in Workers \ {w} :
            /\ pc'[v] = pc[v] /\ cur'[v] = cur[v] /\ imp'[v] = imp[v]
            /\ left'[v] = left[v] /\ bad'[v] = bad[v] /\ good'[v] = good[v]
            /\ seen'[v] = seen[v] /\ at'[v] = at[v] /\ found'[v] = found[v]
<1> USE DEF Types, RunsTyped, RegistersTyped, FoundTyped
<1>1. CASE Failing(w) \/ Complete(w) \/ Crash(w)
  BY <1>1, FailingQueue DEF Complete, Crash
<1>2. CASE \E j \in Jobs : Start(w, j)
  BY <1>2 DEF Start
<1>3. CASE Adding(w)
  BY <1>3 DEF Adding, RefreshOffers, EnqueueFirstPoll, ChainOffers, Repoll
<1>4. CASE Inside(w)
  <2>1. CASE \/ NotImportable(w) \/ NothingChanged(w) \/ Ready(w) \/ NoOffers(w) \/ OffersReady(w)
             \/ NoImportId(w) \/ Submit(w)
    BY <2>1 DEF NotImportable, NothingChanged, Ready, NoOffers, OffersReady, NoImportId, Submit
  <2>2. CASE UpsertMapping(w) \/ WriteLog(w) \/ ReadPending(w) \/ ReadTerminal(w) \/ ReadReports(w)
    BY <2>2 DEF UpsertMapping, WriteLog, ReadPending, ReadTerminal, ReadReports
  <2>3. CASE \/ FindVariant(w) \/ MarkVariant(w) \/ FindPending(w) \/ ResolveLog(w)
             \/ FinishSyncJob(w) \/ GiveUp(w)
    BY <2>3 DEF FindVariant, MarkVariant, FindPending, ResolveLog, FinishSyncJob, GiveUp
  <2> QED
    BY <1>4, <2>1, <2>2, <2>3 DEF Inside
<1> QED
  BY <1>1, <1>2, <1>3, <1>4

LEMMA ImportOf ==
  ASSUME Types, NEW i \in DOMAIN imports
  PROVE  /\ i \in Imports /\ imports[i].kind \in {"product", "offer"}
         /\ imports[i].variants \subseteq Variants
         /\ imports[i].corr \in 0..MaxImports /\ imports[i].by \in Jobs
<1>1. imports[i] \in ImportRec /\ i \in Imports
  BY Bounds DEF Types, SentTyped
<1> QED
  BY <1>1 DEF ImportRec

LEMMA QueueTypes ==
  ASSUME Types, RunsKnown, [Next]_vars
  PROVE  QueueTyped'
<1>0. QueueTyped /\ \A w \in Workers : cur[w] \in Jobs
  BY DEF Types, RunsTyped
<1>1. ASSUME NEW j \in Jobs, EnqueueProductSync(j) \/ RetryFailedSync(j) \/ RecoverStalled(j) \/ LoseLock(j)
      PROVE  QueueTyped'
  BY <1>0, <1>1, ProducersKeepTypes DEF EnqueueProductSync, RetryFailedSync, RecoverStalled, LoseLock
<1>2. CASE EnqueueOfferSync
  BY <1>0, <1>2, ProducersKeepTypes, Bounds DEF EnqueueOfferSync
<1>3. ASSUME NEW w \in Workers, NEW j \in Jobs, Start(w, j) PROVE QueueTyped'
  BY <1>0, <1>3, WorkersKeepTypes DEF Start
<1>4. ASSUME NEW w \in Workers, Failing(w) \/ Complete(w) PROVE QueueTyped'
  BY <1>0, <1>4, WorkersKeepTypes, FailingQueue DEF Complete
<1>5. ASSUME NEW w \in Workers, Adding(w) PROVE QueueTyped'
  <2>1. pc[w] \in {"repoll", "poll"} => imp[w] \in Imports
    BY Bounds DEF RunsKnown, SubmitPlaces, PollPlaces, Types, SentTyped
  <2>2. CASE RefreshOffers(w) \/ ChainOffers(w)
    BY <1>0, <2>2, ProducersKeepTypes, Bounds DEF RefreshOffers, ChainOffers
  <2>3. CASE EnqueueFirstPoll(w)
    BY <1>0, <2>1, <2>3, ProducersKeepTypes, PollIsJob, Bounds DEF EnqueueFirstPoll
  <2>4. CASE Repoll(w)
    <3>1. cur[w].n \in 1..MaxPolls
      BY <2>4, PollIsJob DEF Repoll, RunsKnown, SubmitPlaces, IsPoll
    <3> QED
      BY <1>0, <2>1, <2>4, <3>1, ProducersKeepTypes, PollIsJob, Bounds DEF Repoll
  <2> QED
    BY <1>5, <2>2, <2>3, <2>4 DEF Adding
<1>6. ASSUME NEW w \in Workers, Inside(w) \/ Crash(w) PROVE QueueTyped'
  BY <1>0, <1>6, InsideQueue DEF Crash, QueueTyped
<1>7. CASE Beside
  BY <1>0, <1>7, BesideQueue DEF QueueTyped
<1> QED
  BY <1>1, <1>2, <1>3, <1>4, <1>5, <1>6, <1>7, Steps, Bounds

LEMMA RunTypes == ASSUME Types, [Next]_vars PROVE RunsTyped'
<1> USE DEF Types, RunsTyped
<1>1. CASE Beside \/ EnqueueOfferSync \/ \E j \in Jobs : EnqueueProductSync(j) \/ RetryFailedSync(j)
  BY <1>1, BesideQueue DEF EnqueueOfferSync, EnqueueProductSync, RetryFailedSync
<1>2. ASSUME NEW j \in Jobs, RecoverStalled(j) \/ LoseLock(j) PROVE RunsTyped'
  BY <1>2 DEF RecoverStalled, LoseLock
<1>3. ASSUME NEW w \in Workers, NEW j \in Jobs, Start(w, j) PROVE RunsTyped'
  <2>1. IsPoll(j) => j.of \in 0..MaxImports
    BY PollIsJob, Bounds DEF IsPoll
  <2> QED
    BY <1>3, <2>1, Bounds DEF Start
<1>4. ASSUME NEW w \in Workers, Failing(w) \/ Complete(w) \/ Crash(w) PROVE RunsTyped'
  BY <1>4, FailingQueue, Bounds DEF Complete, Crash
<1>5. ASSUME NEW w \in Workers, Adding(w) PROVE RunsTyped'
  BY <1>5 DEF Adding, RefreshOffers, EnqueueFirstPoll, ChainOffers, Repoll
<1>6. ASSUME NEW w \in Workers, Submit(w) PROVE RunsTyped'
  BY <1>6, Bounds DEF Submit, SentTyped
<1>7. ASSUME NEW w \in Workers, Inside(w), ~Submit(w) PROVE RunsTyped'
  BY <1>7 DEF Inside, NotImportable, NothingChanged, Ready, NoOffers, OffersReady,
         NoImportId, UpsertMapping, WriteLog, ReadPending, ReadTerminal, ReadReports, FindVariant, MarkVariant,
         FindPending, ResolveLog, FinishSyncJob, GiveUp
<1> QED
  BY <1>1, <1>2, <1>3, <1>4, <1>5, <1>6, <1>7, Steps, Bounds

LEMMA RegisterTypes == ASSUME Types, RunsKnown, [Next]_vars PROVE RegistersTyped'
<1> USE DEF Types, RegistersTyped
<1>1. CASE Beside \/ EnqueueOfferSync \/ \E j \in Jobs : EnqueueProductSync(j) \/ RetryFailedSync(j)
  BY <1>1, BesideQueue DEF EnqueueOfferSync, EnqueueProductSync, RetryFailedSync
<1>2. ASSUME NEW j \in Jobs, RecoverStalled(j) \/ LoseLock(j) PROVE RegistersTyped'
  BY <1>2 DEF RecoverStalled, LoseLock
<1>3. ASSUME NEW w \in Workers, NEW j \in Jobs, Start(w, j) PROVE RegistersTyped'
  BY <1>3 DEF Start
<1>4. ASSUME NEW w \in Workers, Failing(w) \/ Complete(w) \/ Crash(w) PROVE RegistersTyped'
  BY <1>4, FailingQueue DEF Complete, Crash
<1>5. ASSUME NEW w \in Workers, Adding(w) PROVE RegistersTyped'
  BY <1>5 DEF Adding, RefreshOffers, EnqueueFirstPoll, ChainOffers, Repoll
<1>6. ASSUME NEW w \in Workers, Ready(w) \/ OffersReady(w) \/ Submit(w) PROVE RegistersTyped'
  <2>1. Changed(cur[w]) \subseteq Variants /\ linked \subseteq Variants
    BY DEF Changed, RowsTyped
  <2>2. CASE Ready(w)
    BY <2>1, <2>2 DEF Ready
  <2>3. CASE OffersReady(w)
    BY <2>1, <2>3 DEF OffersReady
  <2>4. CASE Submit(w)
    BY <2>4 DEF Submit
  <2> QED
    BY <1>6, <2>2, <2>3, <2>4
<1>7. ASSUME NEW w \in Workers, UpsertMapping(w) \/ FindVariant(w) \/ MarkVariant(w)
      PROVE  RegistersTyped'
  <2>1. CASE UpsertMapping(w)
    BY <2>1 DEF UpsertMapping
  <2>2. CASE FindVariant(w)
    <3>1. PICK v \in left[w] : /\ at' = [at EXCEPT ![w] = {v}]
                               /\ ided' = [ided EXCEPT ![w] = {v} \cap linked]
                               /\ left' = [left EXCEPT ![w] = @ \ {v}]
      BY <2>2 DEF FindVariant
    <3>2. v \in Variants
      OBVIOUS
    <3> QED
      BY <2>2, <3>1, <3>2 DEF FindVariant
  <2>3. CASE MarkVariant(w)
    BY <2>3 DEF MarkVariant
  <2> QED
    BY <1>7, <2>1, <2>2, <2>3
<1>8. ASSUME NEW w \in Workers, ReadTerminal(w) \/ ReadReports(w) PROVE RegistersTyped'
  <2>1. imp[w] \in DOMAIN imports
    BY <1>8 DEF ReadTerminal, ReadReports, RunsKnown, SubmitPlaces
  <2>2. Sent(imp[w]) \subseteq Variants
    BY <2>1, ImportOf DEF Sent
  <2>3. OverallOk(imp[w]) \in BOOLEAN /\ Integrated(imp[w]) \subseteq Variants
    BY <2>2 DEF OverallOk, TransformOk, Integrated
  <2>4. CASE ReadTerminal(w)
    BY <2>3, <2>4 DEF ReadTerminal
  <2>5. CASE ReadReports(w)
    <3>1. PICK rejected \in SUBSET {Sent(imp[w]) \ Clean(imp[w]), Refused(imp[w])} :
             bad' = [bad EXCEPT ![w] = UNION rejected]
      BY <2>5 DEF ReadReports
    <3>2. UNION rejected \subseteq Variants
      BY <2>2, <3>1 DEF Refused
    <3> QED
      BY <2>2, <2>5, <3>1, <3>2 DEF ReadReports
  <2> QED
    BY <1>8, <2>4, <2>5
<1>9. ASSUME NEW w \in Workers, Inside(w),
             ~(Ready(w) \/ OffersReady(w) \/ Submit(w) \/ UpsertMapping(w) \/ FindVariant(w)
                 \/ MarkVariant(w) \/ ReadTerminal(w) \/ ReadReports(w))
      PROVE  RegistersTyped'
  BY <1>9 DEF Inside, NotImportable, NothingChanged, NoOffers, NoImportId, WriteLog, ReadPending,
         FindPending, ResolveLog, FinishSyncJob, GiveUp
<1> QED
  BY <1>1, <1>2, <1>3, <1>4, <1>5, <1>6, <1>7, <1>8, <1>9, Steps, Bounds

(* What Submit appends. *)
NewImport(w) ==
    [kind |-> Kind(cur[w]), variants |-> subs[w],
     corr |-> Correlation(cur[w], Len(imports) + 1), by |-> cur[w]]

LEMMA SubmitImport ==
  ASSUME Types, NEW w \in Workers, Submit(w)
  PROVE  /\ imports' \in Seq(ImportRec) /\ Len(imports') = Len(imports) + 1
         /\ \A i \in DOMAIN imports : imports'[i] = imports[i]
         /\ DOMAIN imports = 1..Len(imports) /\ DOMAIN imports' = 1..(Len(imports) + 1)
         /\ imports'[Len(imports) + 1] = NewImport(w)
         /\ Len(imports) + 1 <= MaxImports /\ Len(imports) \in Nat
         /\ imp' = [imp EXCEPT ![w] = Len(imports) + 1]
<1>1. Len(imports) \in Nat /\ Len(imports) + 1 <= MaxImports
  BY Bounds DEF Submit, Types, SentTyped
<1>2. NewImport(w) \in ImportRec
  <2>1. Correlation(cur[w], Len(imports) + 1) \in 0..MaxImports
    BY <1>1, Bounds DEF Correlation, Types, SentTyped
  <2>2. Kind(cur[w]) \in {"product", "offer"}
    BY DEF Kind
  <2>3. subs[w] \subseteq Variants /\ cur[w] \in Jobs
    BY DEF Types, RegistersTyped, RunsTyped
  <2> QED
    BY <2>1, <2>2, <2>3 DEF NewImport, ImportRec
<1>3. imports' = Append(imports, NewImport(w)) /\ imp' = [imp EXCEPT ![w] = Len(imports) + 1]
  BY DEF Submit, NewImport
<1>4. imports \in Seq(ImportRec)
  BY DEF Types, SentTyped
<1> HIDE DEF NewImport
<1> QED
  BY <1>1, <1>2, <1>3, <1>4

(* What Integrate makes of the rows it takes now. *)
Grown(i, now, ok) ==
    [stage2 EXCEPT ![i] = [v \in Variants |-> IF v \notin now THEN stage2[i][v]
                                             ELSE IF v \in ok THEN "published" ELSE "refused"]]

LEMMA Growth ==
  ASSUME NEW i, Integrate(i)
  PROVE  \E now, ok : /\ now \subseteq {v \in Clean(i) : stage2[i][v] = "none"} /\ ok \subseteq now
                     /\ stage2' = Grown(i, now, ok)
<1>1. PICK now \in SUBSET {v \in Clean(i) : stage2[i][v] = "none"} \ {{}} :
         \E ok \in SUBSET now : stage2' = Grown(i, now, ok)
  BY DEF Integrate, Grown
<1>2. PICK ok \in SUBSET now : stage2' = Grown(i, now, ok)
  BY <1>1
<1>3. now \subseteq {v \in Clean(i) : stage2[i][v] = "none"}
  BY <1>1
<1> HIDE DEF Grown
<1> QED
  BY <1>2, <1>3

LEMMA SentTypes == ASSUME Types, RunsKnown, [Next]_vars PROVE SentTyped'
<1> USE DEF Types, SentTyped
<1>1. CASE \/ EnqueueOfferSync
           \/ \E j \in Jobs : EnqueueProductSync(j) \/ RetryFailedSync(j) \/ RecoverStalled(j) \/ LoseLock(j)
  BY <1>1, Bounds DEF EnqueueOfferSync, EnqueueProductSync, RetryFailedSync, RecoverStalled, LoseLock
<1>2. CASE \E i \in Imports : Transform(i) \/ Integrate(i)
  <2>1. PICK i \in Imports : Transform(i) \/ Integrate(i)
    BY <1>2
  <2>2. CASE Transform(i)
    <3>1. PICK ok \in SUBSET Sent(i) : stage1' = [stage1 EXCEPT ![i] =
             [v \in Variants |-> IF v \notin Sent(i) THEN "none" ELSE IF v \in ok THEN "ok" ELSE "error"]]
      BY <2>2 DEF Transform
    <3> QED
      BY <2>2, <3>1 DEF Transform
  <2>3. CASE Integrate(i)
    <3>1. PICK now, ok : stage2' = Grown(i, now, ok)
      BY <2>3, Growth
    <3>2. stage2' \in [Imports -> [Variants -> {"none", "published", "refused"}]]
      BY <3>1 DEF Grown
    <3> QED
      BY <2>3, <3>2 DEF Integrate
  <2> QED
    BY <2>1, <2>2, <2>3
<1>3. CASE (\E j \in PollJobs : HandlerStep(j)) \/ UNCHANGED vars
  BY <1>3 DEF HandlerStep, HandlerFinds, HandlerResolves, HandlerFinishes, HandlerFails, Handle, vars
<1>4. ASSUME NEW w \in Workers, Failing(w) \/ Complete(w) \/ Crash(w) \/ \E j \in Jobs : Start(w, j)
      PROVE  SentTyped'
  BY <1>4, FailingQueue DEF Complete, Crash, Start
<1>5. ASSUME NEW w \in Workers, Adding(w) PROVE SentTyped'
  <2>1. CASE ChainOffers(w)
    <3>1. imp[w] \in DOMAIN imports
      BY <2>1 DEF ChainOffers, RunsKnown, SubmitPlaces
    <3>2. imports[imp[w]].corr \in 0..NoCorrelation
      BY <3>1, ImportOf, Bounds
    <3> QED
      BY <2>1, <3>2 DEF ChainOffers
  <2>2. CASE RefreshOffers(w) \/ EnqueueFirstPoll(w) \/ Repoll(w)
    BY <2>2, Bounds DEF RefreshOffers, EnqueueFirstPoll, Repoll
  <2> QED
    BY <1>5, <2>1, <2>2 DEF Adding
<1>6. ASSUME NEW w \in Workers, Submit(w) PROVE SentTyped'
  BY <1>6, SubmitImport, Bounds DEF Submit
<1>7. ASSUME NEW w \in Workers, Inside(w), ~Submit(w) PROVE SentTyped'
  BY <1>7 DEF Inside, NotImportable, NothingChanged, Ready, NoOffers, OffersReady,
         NoImportId, UpsertMapping, WriteLog, ReadPending, ReadTerminal, ReadReports, FindVariant, MarkVariant,
         FindPending, ResolveLog, FinishSyncJob, GiveUp
<1> QED
  BY <1>1, <1>2, <1>3, <1>4, <1>5, <1>6, <1>7, Steps, Bounds DEF Beside

(* What WriteLog appends. *)
NewLog(w) == [of |-> imp[w], corr |-> imports[imp[w]].corr, kind |-> Kind(cur[w]),
              says |-> "PROCESSING", about |-> 0, seen |-> {}]

LEMMA WriteLogRow ==
  ASSUME Types, RunsKnown, NEW w \in Workers, WriteLog(w)
  PROVE  /\ log' \in Seq(LogRow) /\ DOMAIN log' = DOMAIN log \cup {Len(log) + 1}
         /\ Len(log) + 1 \notin DOMAIN log /\ Len(log') = Len(log) + 1
         /\ \A r \in DOMAIN log : log'[r] = log[r]
         /\ log'[Len(log) + 1] = NewLog(w)
         /\ imp[w] \in DOMAIN imports
<1>1. imp[w] \in DOMAIN imports
  BY DEF WriteLog, RunsKnown, PollPlaces
<1>2. NewLog(w) \in LogRow
  <2>1. imp[w] \in Imports /\ imports[imp[w]].corr \in 0..MaxImports /\ Kind(cur[w]) \in {"product", "offer"}
    BY <1>1, ImportOf DEF Kind
  <2> QED
    BY <2>1, Bounds DEF NewLog, LogRow
<1>3. log' = Append(log, NewLog(w)) /\ log \in Seq(LogRow)
  BY DEF WriteLog, NewLog, Types, RowsTyped
<1> HIDE DEF NewLog
<1> QED
  BY <1>1, <1>2, <1>3

(* The steps that resolve a row: as a success only a run that read one. *)
LEMMA LogSteps ==
  ASSUME Types, PollsKnown, RunsKnown, FoundKnown, [Next]_vars
  PROVE  \/ UNCHANGED log
         \/ \E w \in Workers : WriteLog(w)
         \/ /\ UNCHANGED imports
            /\ \E i \in DOMAIN imports, s \in Says, d \in SUBSET Variants, r \in DOMAIN log :
                  Resolves(i, s, d, r)
<1>0. DOMAIN log = 1..Len(log) /\ Len(log) \in Nat
  BY DEF Types, RowsTyped
<1>1. CASE \/ EnqueueOfferSync
           \/ \E j \in Jobs : EnqueueProductSync(j) \/ RetryFailedSync(j) \/ RecoverStalled(j) \/ LoseLock(j)
  BY <1>1 DEF EnqueueOfferSync, EnqueueProductSync, RetryFailedSync, RecoverStalled, LoseLock
<1>2. CASE Beside
  <2>1. ASSUME NEW j \in PollJobs, HandlerResolves(j), target[j] # 0
        PROVE  /\ UNCHANGED imports /\ j.of \in DOMAIN imports /\ target[j] \in DOMAIN log
               /\ Resolves(j.of, "FAILED", {}, target[j])
    <3>1. j.of \in DOMAIN imports
      BY <2>1 DEF HandlerResolves, Handle, FoundKnown, PollsKnown
    <3>2. target[j] \in DOMAIN log /\ Matches(log[target[j]], j.of)
      BY <1>0, <2>1 DEF FoundKnown, Types, FoundTyped
    <3> QED
      BY <2>1, <3>1, <3>2 DEF HandlerResolves, Resolves
  <2>2. ASSUME NEW j \in PollJobs, HandlerResolves(j), target[j] = 0 PROVE UNCHANGED log
    BY <2>2 DEF HandlerResolves, Written
  <2>3. CASE ~ \E j \in PollJobs : HandlerResolves(j)
    BY <1>2, <2>3 DEF Beside, Transform, Integrate, HandlerStep, HandlerFinds, HandlerFinishes, HandlerFails, vars
  <2>4. CASE \E j \in PollJobs : HandlerResolves(j) /\ target[j] # 0
    BY <2>1, <2>4 DEF Says
  <2> QED
    BY <2>2, <2>3, <2>4
<1>3. ASSUME NEW w \in Workers, Failing(w) \/ Complete(w) \/ Crash(w) \/ Adding(w) \/ \E j \in Jobs : Start(w, j)
      PROVE  UNCHANGED log
  BY <1>3, FailingQueue DEF Complete, Crash, Start, Adding, RefreshOffers, EnqueueFirstPoll, ChainOffers,
         Repoll
<1>4. ASSUME NEW w \in Workers, ResolveLog(w), found[w] # 0
      PROVE  /\ UNCHANGED imports /\ imp[w] \in DOMAIN imports /\ found[w] \in DOMAIN log
             /\ Outcome(w) \in Says /\ seen[w] \in SUBSET Variants
             /\ Resolves(imp[w], Outcome(w), seen[w], found[w])
  <2>1. imp[w] \in DOMAIN imports
    BY <1>4 DEF ResolveLog, RunsKnown, SubmitPlaces
  <2>2. found[w] \in DOMAIN log /\ Matches(log[found[w]], imp[w])
    BY <1>0, <1>4 DEF FoundKnown, Types, FoundTyped
  <2>3. Outcome(w) \in Says /\ (Outcome(w) = "SUCCESS" => good[w])
    BY DEF Outcome, Says
  <2>4. seen[w] \in SUBSET Variants
    BY DEF Types, RegistersTyped
  <2> QED
    BY <1>4, <2>1, <2>2, <2>3, <2>4 DEF ResolveLog, Resolves
<1>5. ASSUME NEW w \in Workers, ResolveLog(w), found[w] = 0 PROVE UNCHANGED log
  BY <1>5 DEF ResolveLog, Written
<1>6. ASSUME NEW w \in Workers, Inside(w), ~WriteLog(w), ~ResolveLog(w) PROVE UNCHANGED log
  BY <1>6 DEF Inside, NotImportable, NothingChanged, Ready, NoOffers, OffersReady, Submit,
         NoImportId, UpsertMapping, ReadPending, ReadTerminal, ReadReports, FindVariant, MarkVariant,
         FindPending, FinishSyncJob, GiveUp
<1>7. ASSUME NEW w \in Workers, ResolveLog(w)
      PROVE  \/ UNCHANGED log
             \/ /\ UNCHANGED imports
                /\ \E i \in DOMAIN imports, s \in Says, d \in SUBSET Variants, r \in DOMAIN log :
                      Resolves(i, s, d, r)
  BY <1>4, <1>5, <1>7
<1> QED
  BY <1>1, <1>2, <1>3, <1>6, <1>7, Steps, Bounds

(* A row keeps what it was written with. *)
LEMMA RowsStay ==
  ASSUME Types, PollsKnown, RunsKnown, FoundKnown, [Next]_vars
  PROVE  /\ log' \in Seq(LogRow) /\ DOMAIN log \subseteq DOMAIN log' /\ Len(log) <= Len(log')
         /\ \A r \in DOMAIN log :
               /\ log'[r].of = log[r].of /\ log'[r].corr = log[r].corr
               /\ log'[r].kind = log[r].kind
<1>0. log \in Seq(LogRow) /\ Len(log) \in Nat
  BY DEF Types, RowsTyped
<1>1. ASSUME NEW w \in Workers, WriteLog(w)
      PROVE  /\ log' \in Seq(LogRow) /\ DOMAIN log \subseteq DOMAIN log' /\ Len(log) <= Len(log')
             /\ \A r \in DOMAIN log : log'[r] = log[r]
  BY <1>0, <1>1, WriteLogRow
<1>2. ASSUME NEW i \in DOMAIN imports, NEW s \in Says, NEW d \in SUBSET Variants,
             NEW r \in DOMAIN log, Resolves(i, s, d, r)
      PROVE  /\ log' \in Seq(LogRow) /\ DOMAIN log \subseteq DOMAIN log' /\ Len(log) <= Len(log')
             /\ \A q \in DOMAIN log :
                   /\ log'[q].of = log[q].of /\ log'[q].corr = log[q].corr
                   /\ log'[q].kind = log[q].kind
  BY <1>0, <1>2, ResolvedRow
<1>3. CASE UNCHANGED log
  BY <1>0, <1>3
<1>4. CASE \E w \in Workers : WriteLog(w)
  BY <1>1, <1>4
<1>5. CASE \E i \in DOMAIN imports, s \in Says, d \in SUBSET Variants, r \in DOMAIN log :
              Resolves(i, s, d, r)
  BY <1>2, <1>5
<1> QED
  BY <1>3, <1>4, <1>5, LogSteps

(* How the row that a run, or a handler, has found changes. *)
LEMMA FoundSteps ==
  ASSUME Types, FoundKnown, [Next]_vars, NEW w \in Workers
  PROVE  \/ found'[w] = 0
         \/ found[w] # 0 /\ found'[w] = found[w] /\ UNCHANGED <<pc[w], imp[w]>>
         \/ FindPending(w) /\ found'[w] = Pending(imp[w]) /\ pc'[w] = "resolve" /\ UNCHANGED <<imp, log>>
<1> USE DEF Types, RunsTyped, FoundTyped
<1>1. CASE \/ EnqueueOfferSync \/ Beside
           \/ \E j \in Jobs : EnqueueProductSync(j) \/ RetryFailedSync(j) \/ RecoverStalled(j) \/ LoseLock(j)
  BY <1>1, BesideQueue DEF EnqueueOfferSync, EnqueueProductSync, RetryFailedSync, RecoverStalled, LoseLock
<1>2. ASSUME NEW v \in Workers, v # w,
             \/ Inside(v) \/ Adding(v) \/ Failing(v) \/ Complete(v) \/ Crash(v)
             \/ \E j \in Jobs : Start(v, j)
      PROVE  UNCHANGED <<found[w], pc[w], imp[w]>>
  BY <1>2, OthersStay
<1>3. CASE Failing(w) \/ Complete(w) \/ Crash(w)
  BY <1>3, FailingQueue DEF Complete, Crash
<1>4. CASE \E j \in Jobs : Start(w, j)
  BY <1>4 DEF Start, FoundKnown
<1>5. CASE Adding(w)
  BY <1>5 DEF Adding, RefreshOffers, EnqueueFirstPoll, ChainOffers, Repoll, FoundKnown
<1>6. CASE FindPending(w)
  BY <1>6 DEF FindPending
<1>7. CASE Inside(w) /\ ~FindPending(w)
  BY <1>7 DEF Inside, NotImportable, NothingChanged, Ready, NoOffers, OffersReady, Submit,
         NoImportId, UpsertMapping, WriteLog, ReadPending, ReadTerminal, ReadReports, FindVariant, MarkVariant,
         ResolveLog, FinishSyncJob, GiveUp, Preparing, FoundKnown
<1> QED
  BY <1>1, <1>2, <1>3, <1>4, <1>5, <1>6, <1>7, Steps, Bounds

LEMMA HandlerSteps ==
  ASSUME Types, RunsKnown, FoundKnown, [Next]_vars, NEW j \in PollJobs
  PROVE  \/ UNCHANGED <<handling[j], target[j]>>
         \/ /\ handling'[j] = "find" /\ target'[j] = target[j] /\ job[j] = "active" /\ job'[j] = "failed"
            /\ \E w \in Workers : Failing(w) /\ Holds(w, j) /\ cur[w] = j
         \/ /\ HandlerFinds(j) /\ handling[j] = "find" /\ handling'[j] = "resolve"
            /\ target'[j] = Pending(j.of) /\ UNCHANGED <<job, log>>
         \/ /\ handling[j] # "none" /\ handling'[j] \in {"none", "finish"} /\ UNCHANGED job
            /\ target'[j] = 0
<1> USE DEF Types, RunsTyped, FoundTyped
<1>1. ASSUME NEW w \in Workers, Failing(w)
      PROVE  \/ UNCHANGED <<handling[j], target[j]>>
             \/ /\ handling'[j] = "find" /\ target'[j] = target[j] /\ job[j] = "active" /\ job'[j] = "failed"
                /\ Failing(w) /\ Holds(w, j) /\ cur[w] = j
  <2>1. UNCHANGED target
        /\ handling' = IF IsPoll(cur[w]) /\ Holds(w, cur[w]) /\ job'[cur[w]] = "failed"
                          THEN [handling EXCEPT ![cur[w]] = "find"] ELSE handling
    BY <1>1, FailingQueue
  <2>2. CASE cur[w] = j /\ Holds(w, cur[w]) /\ job'[cur[w]] = "failed"
    BY <1>1, <2>1, <2>2 DEF IsPoll
  <2>3. CASE ~(cur[w] = j /\ Holds(w, cur[w]) /\ job'[cur[w]] = "failed")
    BY <2>1, <2>3
  <2> QED
    BY <2>2, <2>3
<1>2. CASE Beside
  <2>1. ASSUME NEW k \in PollJobs, HandlerStep(k), k # j PROVE UNCHANGED <<handling[j], target[j]>>
    BY <2>1 DEF HandlerStep, HandlerFinds, HandlerResolves, HandlerFinishes, HandlerFails, Handle
  <2>2. CASE HandlerStep(j)
    BY <2>2 DEF HandlerStep, HandlerFinds, HandlerResolves, HandlerFinishes, HandlerFails, Handle, FoundKnown
  <2> QED
    BY <1>2, <2>1, <2>2 DEF Beside, Transform, Integrate, vars
<1>3. ASSUME NEW w \in Workers, Inside(w) \/ Complete(w) \/ Crash(w) \/ Adding(w) \/ \E k \in Jobs : Start(w, k)
      PROVE  UNCHANGED <<handling[j], target[j]>>
  BY <1>3, InsideQueue DEF Complete, Crash, Start, Adding, RefreshOffers, EnqueueFirstPoll, ChainOffers, Repoll
<1>4. ASSUME \/ EnqueueOfferSync
             \/ \E k \in Jobs : EnqueueProductSync(k) \/ RetryFailedSync(k) \/ RecoverStalled(k) \/ LoseLock(k)
      PROVE  UNCHANGED <<handling[j], target[j]>>
  BY <1>4 DEF EnqueueOfferSync, EnqueueProductSync, RetryFailedSync, RecoverStalled, LoseLock
<1> QED
  BY <1>1, <1>2, <1>3, <1>4, Steps, Bounds

LEMMA RowTypes == ASSUME Types, PollsKnown, RunsKnown, FoundKnown, [Next]_vars PROVE RowsTyped'
<1>1. log' \in Seq(LogRow)
  BY RowsStay
<1>2. mapping' \in [Variants -> MappingStatus] /\ linked' \subseteq Variants
  <2> USE DEF Types, RowsTyped, RegistersTyped
  <2>1. CASE \/ EnqueueOfferSync \/ Beside
             \/ \E j \in Jobs : EnqueueProductSync(j) \/ RetryFailedSync(j) \/ RecoverStalled(j) \/ LoseLock(j)
    BY <2>1 DEF EnqueueOfferSync, EnqueueProductSync, RetryFailedSync, RecoverStalled, LoseLock, Beside,
         Transform, Integrate, HandlerStep, HandlerFinds, HandlerResolves, HandlerFinishes, HandlerFails, Handle, vars
  <2>2. ASSUME NEW w \in Workers, Failing(w) PROVE mapping' \in [Variants -> MappingStatus] /\ linked' \subseteq Variants
    BY <2>2 DEF Failing, PrepareThrows, SubmitFails, Throw
  <2>3. ASSUME NEW w \in Workers, Complete(w) \/ Crash(w) \/ Adding(w) \/ \E j \in Jobs : Start(w, j)
        PROVE  UNCHANGED <<mapping, linked>>
    BY <2>3 DEF Complete, Crash, Start, Adding, RefreshOffers, EnqueueFirstPoll, ChainOffers, Repoll
  <2>4. ASSUME NEW w \in Workers, UpsertMapping(w) \/ MarkVariant(w)
        PROVE  mapping' \in [Variants -> MappingStatus] /\ linked' \subseteq Variants
    <3>1. left[w] \subseteq Variants /\ at[w] \subseteq Variants /\ ided[w] \subseteq Variants
      OBVIOUS
    <3>2. CASE UpsertMapping(w)
      BY <3>1, <3>2 DEF UpsertMapping
    <3>3. CASE MarkVariant(w)
      BY <3>1, <3>3 DEF MarkVariant
    <3> QED
      BY <2>4, <3>2, <3>3
  <2>5. ASSUME NEW w \in Workers, Inside(w), ~UpsertMapping(w), ~MarkVariant(w) PROVE UNCHANGED <<mapping, linked>>
    BY <2>5 DEF Inside, NotImportable, NothingChanged, Ready, NoOffers, OffersReady, Submit,
         NoImportId, WriteLog, ReadPending, ReadTerminal, ReadReports, FindVariant, FindPending, ResolveLog,
         FinishSyncJob, GiveUp
  <2> QED
    BY <2>1, <2>2, <2>3, <2>4, <2>5, Steps, Bounds
<1> QED
  BY <1>1, <1>2 DEF RowsTyped

LEMMA FoundTypes == ASSUME Types, PollsKnown, RunsKnown, FoundKnown, [Next]_vars PROVE FoundTyped'
<1>0. /\ Len(log) \in Nat /\ Len(log') \in Nat /\ Len(log) <= Len(log')
      /\ DOMAIN log = 1..Len(log)
  BY RowsStay DEF Types, RowsTyped
<1>1. ASSUME NEW i PROVE Pending(i) \in 0..Len(log)
  BY <1>0, PendingRow
<1> USE DEF Types, FoundTyped
<1>2. handling' \in [PollJobs -> HandlerPlaces] /\ target' \in [PollJobs -> 0..Len(log')]
  <2>1. \A j \in PollJobs : handling'[j] \in HandlerPlaces /\ target'[j] \in 0..Len(log')
    BY <1>0, <1>1, HandlerSteps
  <2>2. ASSUME NEW w \in Workers, Failing(w) 
        PROVE  target' = [j \in PollJobs |-> target'[j]] /\ handling' = [j \in PollJobs |-> handling'[j]]
    <3>1. UNCHANGED target /\ (handling' = handling \/ handling' = [handling EXCEPT ![cur[w]] = "find"])
      BY <2>2, FailingQueue
    <3> QED
      BY <3>1
  <2>3. ASSUME NEW j \in PollJobs, HandlerStep(j)
        PROVE  /\ target' = [k \in PollJobs |-> target'[k]] /\ handling' = [k \in PollJobs |-> handling'[k]]
    BY <2>3 DEF HandlerStep, HandlerFinds, HandlerResolves, HandlerFinishes, HandlerFails, Handle
  <2>4. ASSUME NEW w \in Workers, Inside(w) \/ Complete(w) \/ Crash(w) \/ Adding(w) \/ \E k \in Jobs : Start(w, k)
        PROVE  UNCHANGED <<handling, target>>
    BY <2>4, InsideQueue DEF Complete, Crash, Start, Adding, RefreshOffers, EnqueueFirstPoll, ChainOffers, Repoll
  <2>5. ASSUME \/ EnqueueOfferSync
               \/ \E k \in Jobs : EnqueueProductSync(k) \/ RetryFailedSync(k) \/ RecoverStalled(k) \/ LoseLock(k)
               \/ (\E i \in Imports : Transform(i) \/ Integrate(i)) \/ UNCHANGED vars
        PROVE  UNCHANGED <<handling, target>>
    BY <2>5 DEF EnqueueOfferSync, EnqueueProductSync, RetryFailedSync, RecoverStalled, LoseLock, Transform, Integrate, vars
  <2>6. /\ target' = [k \in PollJobs |-> target'[k]] /\ handling' = [k \in PollJobs |-> handling'[k]]
    BY <2>2, <2>3, <2>4, <2>5, Steps, Bounds DEF Beside
  <2> QED
    BY <2>1, <2>6
<1>3. found' \in [Workers -> 0..Len(log')]
  <2>1. \A w \in Workers : found'[w] \in 0..Len(log')
    BY <1>0, <1>1, FoundSteps
  <2>2. ASSUME \/ EnqueueOfferSync \/ Beside
               \/ \E j \in Jobs : EnqueueProductSync(j) \/ RetryFailedSync(j) \/ RecoverStalled(j) \/ LoseLock(j)
        PROVE  UNCHANGED found
    BY <2>2, BesideQueue DEF EnqueueOfferSync, EnqueueProductSync, RetryFailedSync, RecoverStalled, LoseLock
  <2>3. ASSUME NEW w \in Workers, Failing(w) \/ Complete(w) \/ Crash(w) PROVE found' = [v \in Workers |-> found'[v]]
    BY <2>3, FailingQueue DEF Complete, Crash
  <2>4. ASSUME NEW w \in Workers, Adding(w) \/ \E j \in Jobs : Start(w, j) PROVE UNCHANGED found
    BY <2>4 DEF Adding, RefreshOffers, EnqueueFirstPoll, ChainOffers, Repoll, Start
  <2>5. ASSUME NEW w \in Workers, Inside(w) PROVE found' = [v \in Workers |-> found'[v]]
    BY <2>5 DEF Inside, NotImportable, NothingChanged, Ready, NoOffers, OffersReady, Submit,
         NoImportId, UpsertMapping, WriteLog, ReadPending, ReadTerminal, ReadReports, FindVariant, MarkVariant,
         FindPending, ResolveLog, FinishSyncJob, GiveUp
  <2>6. found' = [v \in Workers |-> found'[v]]
    BY <2>2, <2>3, <2>4, <2>5, Steps, Bounds
  <2> QED
    BY <2>1, <2>6
<1> QED
  BY <1>2, <1>3

LEMMA StepTypes == ASSUME Types, PollsKnown, RunsKnown, FoundKnown, [Next]_vars PROVE Types'
  BY QueueTypes, RunTypes, RegisterTypes, SentTypes, RowTypes, FoundTypes DEF Types

LEMMA InitTypes == Init => Types
<1> SUFFICES ASSUME Init PROVE Types
  OBVIOUS
<1> USE Bounds DEF Init
<1>1. QueueTyped /\ RowsTyped
  BY DEF QueueInit, QueueTyped, RowsTyped
<1>2. SentTyped
  BY DEF SentTyped
<1>3. RunsTyped
  BY DEF RunsTyped
<1>4. RegistersTyped /\ FoundTyped
  BY DEF RegistersTyped, FoundTyped
<1> QED
  BY <1>1, <1>2, <1>3, <1>4 DEF Types

-----------------------------------------------------------------------------

LEMMA ImportsGrow ==
  ASSUME Types, [Next]_vars
  PROVE  /\ \A i \in DOMAIN imports : i \in DOMAIN imports' /\ imports'[i] = imports[i]
         /\ UNCHANGED imports \/ \E w \in Workers : Submit(w)
<1>1. ASSUME NEW w \in Workers, Submit(w)
      PROVE  \A i \in DOMAIN imports : i \in DOMAIN imports' /\ imports'[i] = imports[i]
  BY <1>1, SubmitImport
<1>2. CASE \/ EnqueueOfferSync \/ Beside
           \/ \E j \in Jobs : EnqueueProductSync(j) \/ RetryFailedSync(j) \/ RecoverStalled(j) \/ LoseLock(j)
  <2>1. UNCHANGED imports
    BY <1>2 DEF EnqueueOfferSync, EnqueueProductSync, RetryFailedSync, RecoverStalled, LoseLock, Beside,
         Transform, Integrate, HandlerStep, HandlerFinds, HandlerResolves, HandlerFinishes, HandlerFails, Handle, vars
  <2> QED
    BY <2>1
<1>3. ASSUME NEW w \in Workers, Failing(w) \/ Complete(w) \/ Crash(w) \/ Adding(w) \/ \E j \in Jobs : Start(w, j)
      PROVE  UNCHANGED imports
  BY <1>3, FailingQueue DEF Complete, Crash, Start, Adding, RefreshOffers, EnqueueFirstPoll, ChainOffers, Repoll
<1>4. ASSUME NEW w \in Workers, Inside(w), ~Submit(w) PROVE UNCHANGED imports
  BY <1>4 DEF Inside, NotImportable, NothingChanged, Ready, NoOffers, OffersReady,
         NoImportId, UpsertMapping, WriteLog, ReadPending, ReadTerminal, ReadReports, FindVariant, MarkVariant,
         FindPending, ResolveLog, FinishSyncJob, GiveUp
<1> QED
  BY <1>1, <1>2, <1>3, <1>4, Steps, Bounds

LEMMA InitKnown == Init => PollsKnown /\ RunsKnown /\ RowsKnown /\ FoundKnown
  BY PollIsJob, Bounds DEF Init, QueueInit, PollsKnown, RunsKnown, RowsKnown, FoundKnown, IsPoll, SubmitPlaces

LEMMA StepRowsKnown ==
  ASSUME Types, PollsKnown, RunsKnown, RowsKnown, FoundKnown, [Next]_vars
  PROVE  RowsKnown'
<1>1. /\ \A i \in DOMAIN imports : i \in DOMAIN imports'
      /\ log \in Seq(LogRow)
  BY ImportsGrow DEF Types, RowsTyped
<1>2. CASE UNCHANGED log
  BY <1>1, <1>2 DEF RowsKnown
<1>3. ASSUME NEW w \in Workers, WriteLog(w), NEW r \in DOMAIN log'
      PROVE  \/ log'[r].of \in DOMAIN imports' /\ log'[r].says = "PROCESSING"
             \/ r \in DOMAIN log /\ log'[r] = log[r]
  <2>1. /\ DOMAIN log' = DOMAIN log \cup {Len(log) + 1} /\ log'[Len(log) + 1] = NewLog(w)
        /\ \A q \in DOMAIN log : log'[q] = log[q]
        /\ imp[w] \in DOMAIN imports
    BY <1>3, WriteLogRow
  <2>2. NewLog(w).of = imp[w] /\ NewLog(w).says = "PROCESSING"
    BY DEF NewLog
  <2> QED
    BY <1>1, <2>1, <2>2
<1>4. ASSUME NEW i \in DOMAIN imports, NEW s \in Says, NEW d \in SUBSET Variants,
             NEW q \in DOMAIN log, Resolves(i, s, d, q), NEW r \in DOMAIN log'
      PROVE  /\ log'[r].of \in DOMAIN imports'
             /\ log'[r].says # "PROCESSING" => log'[r].about \in DOMAIN imports'
  <2>0. /\ DOMAIN log' = DOMAIN log /\ \A p \in DOMAIN log : log'[p].of = log[p].of
        /\ log'[q].about = i /\ \A p \in DOMAIN log \ {q} : log'[p] = log[p]
    BY <1>4, ResolvedRow
  <2>1. /\ r \in DOMAIN log /\ log'[r].of = log[r].of
        /\ IF r = q THEN log'[r].about = i ELSE log'[r] = log[r]
    BY <2>0
  <2> QED
    BY <1>1, <2>1 DEF RowsKnown
<1> QED
  BY <1>1, <1>2, <1>3, <1>4, LogSteps DEF RowsKnown

(* A poll that has failed stays so: nobody adds its job again. *)
LEMMA FailedStays ==
  ASSUME Types, RunsKnown, [Next]_vars, NEW j \in PollJobs, job[j] = "failed"
  PROVE  job'[j] = "failed"
<1> USE DEF Types, QueueTyped
<1>0. j \in Jobs /\ j # OfferJob /\ \A w \in Workers : cur[w] \in Jobs
  BY Bounds DEF RunsTyped
<1>1. ASSUME NEW k \in Jobs, AddJob(k) PROVE job'[j] = "failed"
  BY <1>1 DEF AddJob
<1>2. CASE \E k \in Jobs : EnqueueProductSync(k) \/ RetryFailedSync(k)
  BY <1>1, <1>2 DEF EnqueueProductSync, RetryFailedSync
<1>3. CASE EnqueueOfferSync
  BY <1>0, <1>3 DEF EnqueueOfferSync, RenewJob
<1>4. ASSUME NEW w \in Workers, NEW k \in Jobs, Start(w, k) PROVE job'[j] = "failed"
  BY <1>4 DEF Start, TakeJob
<1>5. ASSUME NEW w \in Workers, Failing(w) PROVE job'[j] = "failed"
  <2>1. FailJob(w, cur[w])
    BY <1>5, FailingQueue
  <2> QED
    BY <1>0, <2>1 DEF FailJob
<1>6. ASSUME NEW w \in Workers, Complete(w) PROVE job'[j] = "failed"
  BY <1>0, <1>6 DEF Complete, CompleteJob, RemoveJob
<1>7. ASSUME NEW w \in Workers, Adding(w) PROVE job'[j] = "failed"
  <2>1. pc[w] \in {"repoll", "poll"} => imp[w] \in Imports
    BY ImportOf DEF RunsKnown, SubmitPlaces, PollPlaces
  <2>2. CASE RefreshOffers(w) \/ ChainOffers(w)
    BY <1>1, <2>2, Bounds DEF RefreshOffers, ChainOffers
  <2>3. CASE EnqueueFirstPoll(w)
    BY <1>1, <2>1, <2>3, PollIsJob, Bounds DEF EnqueueFirstPoll
  <2>4. CASE Repoll(w)
    <3>1. cur[w].n \in 1..MaxPolls
      BY <2>4, PollIsJob DEF Repoll, RunsKnown, SubmitPlaces, IsPoll
    <3> QED
      BY <1>1, <2>1, <2>4, <3>1, PollIsJob, Bounds DEF Repoll
  <2> QED
    BY <1>7, <2>2, <2>3, <2>4 DEF Adding
<1>8. ASSUME NEW w \in Workers, Inside(w) \/ Crash(w) PROVE job'[j] = "failed"
  BY <1>8, InsideQueue DEF Crash
<1>9. ASSUME NEW k \in Jobs, RecoverStalled(k) \/ LoseLock(k) PROVE job'[j] = "failed"
  <2>1. StallJob(k)
    BY <1>9 DEF RecoverStalled, LoseLock
  <2> QED
    BY <1>0, <2>1 DEF StallJob
<1>10. CASE Beside
  BY <1>10, BesideQueue
<1> QED
  BY <1>2, <1>3, <1>4, <1>5, <1>6, <1>7, <1>8, <1>9, <1>10, Steps, Bounds

LEMMA StepFoundKnown ==
  ASSUME Types, PollsKnown, RunsKnown, FoundKnown, [Next]_vars
  PROVE  FoundKnown'
<1>0. /\ Types' /\ DOMAIN log = 1..Len(log) /\ Len(log) \in Nat
      /\ \A w \in Workers : found[w] \in 0..Len(log)
      /\ \A j \in PollJobs : target[j] \in 0..Len(log) /\ j.of \in Imports
  BY StepTypes, PollIsJob DEF Types, RowsTyped, FoundTyped
<1>1. ASSUME NEW r \in DOMAIN log, NEW i \in DOMAIN imports, Matches(log[r], i) PROVE Matches(log[r], i)'
  <2>1. imports'[i] = imports[i] /\ log'[r].corr = log[r].corr /\ log'[r].kind = log[r].kind
    BY ImportsGrow, RowsStay
  <2> QED
    BY <1>1, <2>1 DEF Matches
<1>2. ASSUME NEW w \in Workers, found'[w] # 0
      PROVE  pc'[w] = "resolve" /\ Matches(log[found[w]], imp[w])'
  <2>1. pc'[w] = "resolve"
    BY <1>2, FoundSteps DEF FoundKnown
  <2>2. PICK r, i : r = found'[w] /\ i = imp'[w]
    OBVIOUS
  <2>3. r \in DOMAIN log /\ i = imp[w] /\ Matches(log[r], i)
    BY <1>0, <1>2, <2>2, FoundSteps, PendingRow DEF FoundKnown
  <2>4. i \in DOMAIN imports
    BY <1>2, <2>3, FoundSteps DEF FoundKnown, RunsKnown, SubmitPlaces, FindPending
  <2>5. Matches(log[r], i)'
    BY <1>1, <2>3, <2>4
  <2> QED
    BY <2>1, <2>2, <2>5 DEF Matches
<1>3. ASSUME NEW j \in PollJobs
      PROVE  /\ handling'[j] # "none" => job'[j] = "failed"
             /\ target'[j] # 0 => handling'[j] = "resolve" /\ Matches(log[target[j]], j.of)'
  <2>1. handling'[j] # "none" => job'[j] = "failed"
    BY HandlerSteps, FailedStays DEF FoundKnown
  <2>2. ASSUME target'[j] # 0 PROVE handling'[j] = "resolve" /\ Matches(log[target[j]], j.of)'
    <3>1. PICK r, i : r = target'[j] /\ i = j.of
      OBVIOUS
    <3>2. handling'[j] = "resolve" /\ handling[j] # "none"
      BY <2>2, HandlerSteps DEF FoundKnown
    <3>3. r \in DOMAIN log /\ Matches(log[r], i)
      BY <1>0, <2>2, <3>1, HandlerSteps, PendingRow DEF FoundKnown
    <3>4. i \in DOMAIN imports
      BY <3>1, <3>2 DEF FoundKnown, PollsKnown
    <3>5. Matches(log[r], i)'
      BY <1>1, <3>3, <3>4
    <3> QED
      BY <3>1, <3>2, <3>5 DEF Matches
  <2> QED
    BY <2>1, <2>2
<1> QED
  BY <1>2, <1>3 DEF FoundKnown, Matches

LEMMA StepPollsKnown ==
  ASSUME Types, PollsKnown, RunsKnown, [Next]_vars
  PROVE  PollsKnown'
<1>1. \A i \in DOMAIN imports : i \in DOMAIN imports'
  BY ImportsGrow
<1> USE Bounds DEF Types, QueueTyped, PollsKnown
<1>2. ASSUME NEW j \in Jobs, AddJob(j), IsPoll(j) => j.of \in DOMAIN imports PROVE PollsKnown'
  BY <1>1, <1>2 DEF AddJob, IsPoll
<1>3. ASSUME \A j \in PollJobs : job'[j] # "absent" => job[j] # "absent" PROVE PollsKnown'
  BY <1>1, <1>3
<1>4. ASSUME NEW j \in ProductJobs \cup Requeues, EnqueueProductSync(j) \/ RetryFailedSync(j) PROVE PollsKnown'
  BY <1>2, <1>4 DEF EnqueueProductSync, RetryFailedSync, IsPoll
<1>5. CASE EnqueueOfferSync
  BY <1>3, <1>5 DEF EnqueueOfferSync, RenewJob
<1>6. ASSUME NEW w \in Workers, NEW j \in Jobs, Start(w, j) PROVE PollsKnown'
  BY <1>3, <1>6 DEF Start, TakeJob
<1>7. ASSUME NEW w \in Workers, Failing(w) PROVE PollsKnown'
  BY <1>3, <1>7, FailingQueue DEF FailJob
<1>8. ASSUME NEW w \in Workers, Complete(w) PROVE PollsKnown'
  BY <1>3, <1>8 DEF Complete, CompleteJob, RemoveJob
<1>9. ASSUME NEW w \in Workers, Adding(w) PROVE PollsKnown'
  <2>1. pc[w] \in {"repoll", "poll"} => imp[w] \in DOMAIN imports /\ imp[w] \in Imports
    BY ImportOf DEF RunsKnown, SubmitPlaces, PollPlaces
  <2>2. CASE RefreshOffers(w) \/ ChainOffers(w)
    BY <1>2, <2>2 DEF RefreshOffers, ChainOffers, IsPoll
  <2>3. CASE EnqueueFirstPoll(w)
    BY <1>2, <2>1, <2>3, PollIsJob DEF EnqueueFirstPoll
  <2>4. CASE Repoll(w)
    <3>1. cur[w].n \in 1..MaxPolls
      BY <2>4, PollIsJob DEF Repoll, RunsKnown, SubmitPlaces, IsPoll
    <3> QED
      BY <1>2, <2>1, <2>4, <3>1, PollIsJob DEF Repoll
  <2> QED
    BY <1>9, <2>2, <2>3, <2>4 DEF Adding
<1>10. ASSUME NEW w \in Workers, Inside(w) \/ Crash(w) PROVE PollsKnown'
  BY <1>3, <1>10, InsideQueue DEF Crash
<1>11. ASSUME NEW j \in Jobs, RecoverStalled(j) \/ LoseLock(j) PROVE PollsKnown'
  BY <1>3, <1>11 DEF RecoverStalled, LoseLock, StallJob
<1>12. CASE Beside
  BY <1>3, <1>12, BesideQueue
<1> QED
  BY <1>4, <1>5, <1>6, <1>7, <1>8, <1>9, <1>10, <1>11, <1>12, Steps

LEMMA StepRunsKnown ==
  ASSUME Types, PollsKnown, RunsKnown, [Next]_vars
  PROVE  RunsKnown'
<1> DEFINE Knows(w) ==
        IF IsPoll(cur[w])
        THEN /\ pc[w] \in PollPlaces /\ imp[w] = cur[w].of /\ imp[w] \in DOMAIN imports
             /\ pc[w] = "after" => imports[imp[w]].kind = "product"
        ELSE /\ pc[w] \in SubmitPlaces
             /\ pc[w] \in {"map", "log", "poll"} =>
                    /\ imp[w] \in DOMAIN imports
                    /\ imports[imp[w]].by = cur[w] /\ imports[imp[w]].kind = Kind(cur[w])
<1>1. \A i \in DOMAIN imports : i \in DOMAIN imports' /\ imports'[i] = imports[i]
  BY ImportsGrow
<1>2. ASSUME NEW v \in Workers, UNCHANGED <<pc[v], cur[v], imp[v]>> PROVE Knows(v)'
  BY <1>1, <1>2 DEF RunsKnown, IsPoll, Kind, IsProduct
<1>3. CASE UNCHANGED runVars
  BY <1>2, <1>3 DEF RunsKnown
<1>4. ASSUME NEW w \in Workers, Knows(w)',
             \/ Inside(w) \/ Adding(w) \/ Failing(w) \/ Complete(w) \/ Crash(w)
             \/ \E j \in Jobs : Start(w, j)
      PROVE  RunsKnown'
  <2>1. \A v \in Workers \ {w} : Knows(v)'
    BY <1>2, <1>4, OthersStay
  <2> QED
    BY <1>4, <2>1 DEF RunsKnown
<1> USE Bounds DEF Types, RunsTyped, RunsKnown, IsPoll, SubmitPlaces, PollPlaces
<1>5. CASE \/ EnqueueOfferSync \/ Beside
           \/ \E j \in Jobs : EnqueueProductSync(j) \/ RetryFailedSync(j) \/ RecoverStalled(j) \/ LoseLock(j)
  BY <1>3, <1>5, BesideQueue DEF EnqueueOfferSync, EnqueueProductSync, RetryFailedSync, RecoverStalled, LoseLock
<1>6. ASSUME NEW w \in Workers, NEW j \in Jobs, Start(w, j) PROVE Knows(w)'
  <2>1. CASE IsPoll(j)
    <3>1. j.of \in DOMAIN imports'
      BY <1>1, <1>6, <2>1 DEF PollsKnown, Start, TakeJob
    <3> QED
      BY <1>6, <2>1, <3>1 DEF Start
  <2>2. CASE ~IsPoll(j)
    BY <1>6, <2>2 DEF Start
  <2> QED
    BY <2>1, <2>2
<1>7. ASSUME NEW w \in Workers, Failing(w) \/ Complete(w) \/ Crash(w) PROVE Knows(w)'
  BY <1>7, FailingQueue DEF Complete, Crash
<1>8. ASSUME NEW w \in Workers, Adding(w) PROVE Knows(w)'
  <2>1. UNCHANGED imports /\ pc' = [pc EXCEPT ![w] = "done"] /\ UNCHANGED <<cur, imp>>
    BY <1>8 DEF Adding, RefreshOffers, EnqueueFirstPoll, ChainOffers, Repoll
  <2> QED
    BY <2>1
<1>9. ASSUME NEW w \in Workers, Submit(w) PROVE Knows(w)'
  <2>1. ~IsPoll(cur[w]) /\ pc'[w] = IF IsProduct(cur[w]) THEN "map" ELSE "log"
    BY <1>9 DEF Submit
  <2>2. cur'[w] = cur[w]
    BY <1>9 DEF Submit
  <2>3. imp' = [imp EXCEPT ![w] = Len(imports) + 1] /\ imports'[Len(imports) + 1] = NewImport(w)
    BY <1>9, SubmitImport
  <2>4. Len(imports) + 1 \in DOMAIN imports'
    BY <1>9, SubmitImport
  <2>5. imp'[w] = Len(imports) + 1
    BY <2>3
  <2>6. NewImport(w).by = cur[w] /\ NewImport(w).kind = Kind(cur[w])
    BY DEF NewImport
  <2> QED
    BY <2>1, <2>2, <2>3, <2>4, <2>5, <2>6 DEF Kind, IsProduct
<1>10. ASSUME NEW w \in Workers, Inside(w), ~Submit(w) PROVE Knows(w)'
  <2>1. UNCHANGED <<cur, imp, imports>>
    BY <1>10 DEF Inside, NotImportable, NothingChanged, Ready, NoOffers, OffersReady,
         NoImportId, UpsertMapping, WriteLog, ReadPending, ReadTerminal, ReadReports, FindVariant, MarkVariant,
         FindPending, ResolveLog, FinishSyncJob, GiveUp
  <2>2. \/ /\ pc[w] \in {"prepare", "submit", "refresh", "map", "log"}
           /\ pc'[w] \in {"refresh", "submit", "done", "map", "log", "poll"}
           /\ pc'[w] \in {"map", "log", "poll"} => pc[w] \in {"map", "log"}
        \/ /\ pc[w] \in PollPlaces \ {"done"} /\ pc'[w] \in PollPlaces
           /\ pc'[w] = "after" => imports[imp[w]].kind = "product"
    BY <1>10 DEF Inside, NotImportable, NothingChanged, Ready, NoOffers, OffersReady,
         NoImportId, UpsertMapping, WriteLog, ReadPending, ReadTerminal, ReadReports, FindVariant, MarkVariant,
         FindPending, ResolveLog, FinishSyncJob, GiveUp, Preparing, Publishes
  <2> QED
    BY <2>1, <2>2 DEF Kind, IsProduct
<1> QED
  BY <1>3, <1>4, <1>5, <1>6, <1>7, <1>8, <1>9, <1>10, Steps

Base == Types /\ PollsKnown /\ RunsKnown /\ RowsKnown /\ FoundKnown

LEMMA InitBase == Init => Base
  BY InitTypes, InitKnown DEF Base

LEMMA StepBase == ASSUME Base, [Next]_vars PROVE Base'
  BY StepTypes, StepPollsKnown, StepRunsKnown, StepRowsKnown, StepFoundKnown DEF Base

-----------------------------------------------------------------------------
(* Whose result a row reports                                              *)

(* A product import has the correlation id of its own run. *)
ProductCorrelations ==
    /\ \A i \in DOMAIN imports : imports[i].kind = "product" => imports[i].corr = i
    /\ \A r \in DOMAIN log :
           log[r].kind = "product" =>
               /\ log[r].corr = log[r].of
               /\ log[r].says # "PROCESSING" => log[r].about = log[r].of

LEMMA InitCorrelations == Init => ProductCorrelations
  BY DEF Init, ProductCorrelations

LEMMA StepCorrelations ==
  ASSUME Base, ProductCorrelations, [Next]_vars
  PROVE  ProductCorrelations'
<1> USE DEF Base
<1>1. \A i \in DOMAIN imports' : imports'[i].kind = "product" => imports'[i].corr = i
  <2>1. ASSUME NEW w \in Workers, Submit(w), NEW i \in DOMAIN imports', imports'[i].kind = "product"
        PROVE  imports'[i].corr = i
    <3>1. CASE i \in DOMAIN imports
      BY <2>1, <3>1, SubmitImport DEF ProductCorrelations
    <3>2. CASE i \notin DOMAIN imports
      <4>1. i = Len(imports) + 1 /\ imports'[i] = NewImport(w)
        BY <2>1, <3>2, SubmitImport
      <4> QED
        BY <2>1, <4>1 DEF NewImport, Kind, Correlation
    <3> QED
      BY <3>1, <3>2
  <2> QED
    BY <2>1, ImportsGrow DEF ProductCorrelations
<1>2. ASSUME NEW w \in Workers, WriteLog(w) PROVE ProductCorrelations'
  <2>1. /\ DOMAIN log' = DOMAIN log \cup {Len(log) + 1} /\ log'[Len(log) + 1] = NewLog(w)
        /\ \A q \in DOMAIN log : log'[q] = log[q]
        /\ imp[w] \in DOMAIN imports
    BY <1>2, WriteLogRow
  <2>2. /\ NewLog(w).of = imp[w] /\ NewLog(w).says = "PROCESSING"
        /\ NewLog(w).kind = Kind(cur[w]) /\ NewLog(w).corr = imports[imp[w]].corr
    BY DEF NewLog
  <2>3. imports[imp[w]].kind = Kind(cur[w])
    BY <1>2 DEF WriteLog, RunsKnown, PollPlaces
  <2> QED
    BY <1>1, <2>1, <2>2, <2>3 DEF ProductCorrelations
<1>3. ASSUME NEW i \in DOMAIN imports, NEW s \in Says, NEW d \in SUBSET Variants,
             NEW q \in DOMAIN log, Resolves(i, s, d, q)
      PROVE  ProductCorrelations'
  <2>1. ASSUME NEW r \in DOMAIN log', log'[r].kind = "product"
        PROVE  log'[r].corr = log'[r].of /\ (log'[r].says # "PROCESSING" => log'[r].about = log'[r].of)
    <3>1. /\ r \in DOMAIN log /\ log'[r].kind = log[r].kind /\ log'[r].corr = log[r].corr
          /\ log'[r].of = log[r].of
          /\ IF r = q THEN log'[r].about = i ELSE log'[r] = log[r]
      BY <1>3, <2>1, ResolvedRow
    <3>2. CASE r # q
      BY <2>1, <3>1, <3>2 DEF ProductCorrelations
    <3>3. CASE r = q
      <4>1. log[r].kind = imports[i].kind /\ log[r].corr = imports[i].corr
        BY <1>3, <3>3 DEF Resolves, Matches
      <4> QED
        BY <2>1, <3>1, <3>3, <4>1 DEF ProductCorrelations
    <3> QED
      BY <3>2, <3>3
  <2> QED
    BY <1>1, <2>1 DEF ProductCorrelations
<1> QED
  BY <1>1, <1>2, <1>3, LogSteps DEF ProductCorrelations

(* The row of a product import reports that import (resolvePending), for   *)
(* any number of imports of the product under way at once.                 *)
THEOREM RowsTellTheirOwn == Spec => []ProductRowsTellTheirOwn
<1>1. Init => Base /\ ProductCorrelations
  BY InitBase, InitCorrelations
<1>2. Base /\ ProductCorrelations /\ [Next]_vars => (Base /\ ProductCorrelations)'
  BY StepBase, StepCorrelations
<1>3. ProductCorrelations => ProductRowsTellTheirOwn
  BY DEF ProductCorrelations, ProductRowsTellTheirOwn
<1> QED
  BY <1>1, <1>2, <1>3, PTL DEF Spec

-----------------------------------------------------------------------------
(* What Decathlon says of an import                                        *)

StagesFollow ==
    /\ \A i \in Imports : \A v \in Variants :
           /\ stage1[i][v] # "none" => i \in DOMAIN imports /\ v \in Sent(i)
           /\ stage2[i][v] # "none" => stage1[i][v] = "ok"
    /\ \A i \in DOMAIN imports : \A v \in Sent(i) : stage1[i][v] # "none"

(* Decathlon transformed every variant of import i, and of a product       *)
(* published the variants d that its integration had counted.              *)
Took(i, d) ==
    /\ \A v \in Sent(i) : stage1[i][v] = "ok"
    /\ imports[i].kind = "product" => d # {} /\ \A v \in d : stage2[i][v] = "published"

Refuses(i, v) == v \in Sent(i) /\ (stage1[i][v] = "error" \/ stage2[i][v] = "refused")

(* What a poll has read stays true. *)
ReadIsTrue ==
    \A w \in Workers :
        /\ good[w] => pc[w] \in PollPlaces /\ IsPoll(cur[w]) /\ Took(imp[w], seen[w])
        /\ pc[w] = "report" => Transformed(imp[w])
        /\ pc[w] \in {"mark", "update"} =>
               left[w] \subseteq Sent(imp[w]) /\ \A u \in bad[w] : Refuses(imp[w], u)
        /\ pc[w] = "update" => at[w] \subseteq Sent(imp[w])

SuccessIsTrue ==
    \A r \in DOMAIN log : log[r].says = "SUCCESS" => Took(log[r].about, log[r].seen)

LEMMA StageSteps ==
  ASSUME [Next]_vars
  PROVE  \/ UNCHANGED decathlonVars
         \/ \E i \in Imports : Transform(i) \/ Integrate(i)
         \/ \E w \in Workers : Submit(w)
<1>1. CASE \/ EnqueueOfferSync \/ (\E j \in PollJobs : HandlerStep(j)) \/ UNCHANGED vars
           \/ \E j \in Jobs : EnqueueProductSync(j) \/ RetryFailedSync(j) \/ RecoverStalled(j) \/ LoseLock(j)
  BY <1>1 DEF EnqueueOfferSync, EnqueueProductSync, RetryFailedSync, RecoverStalled, LoseLock,
         HandlerStep, HandlerFinds, HandlerResolves, HandlerFinishes, HandlerFails, Handle, vars
<1>2. ASSUME NEW w \in Workers, Failing(w) \/ Complete(w) \/ Crash(w) \/ Adding(w) \/ \E j \in Jobs : Start(w, j)
      PROVE  UNCHANGED decathlonVars
  BY <1>2, FailingQueue DEF Complete, Crash, Start, Adding, RefreshOffers, EnqueueFirstPoll, ChainOffers, Repoll
<1>3. ASSUME NEW w \in Workers, Inside(w), ~Submit(w) PROVE UNCHANGED decathlonVars
  BY <1>3 DEF Inside, NotImportable, NothingChanged, Ready, NoOffers, OffersReady,
         NoImportId, UpsertMapping, WriteLog, ReadPending, ReadTerminal, ReadReports, FindVariant, MarkVariant,
         FindPending, ResolveLog, FinishSyncJob, GiveUp
<1> QED
  BY <1>1, <1>2, <1>3, Steps, Bounds DEF Beside

LEMMA SubmitStages ==
  ASSUME Base, NEW w \in Workers, Submit(w), NEW k, k = Len(imports) + 1
  PROVE  /\ stage2' = stage2 /\ subs[w] \subseteq Variants
         /\ \A i \in DOMAIN imports : Sent(i)' = Sent(i)
         /\ stage1'[k] = [v \in Variants |-> IF v \in subs[w] THEN "running" ELSE "none"]
         /\ Sent(k)' = subs[w]
         /\ \A i \in Imports \ {k} : stage1'[i] = stage1[i]
         /\ k \in Imports /\ k \notin DOMAIN imports /\ DOMAIN imports \subseteq Imports
         /\ DOMAIN imports' = DOMAIN imports \cup {k}
<1>1. /\ stage1' = [stage1 EXCEPT ![k] = [v \in Variants |-> IF v \in subs[w] THEN "running" ELSE "none"]]
      /\ stage2' = stage2
  BY DEF Submit
<1>2. subs[w] \subseteq Variants /\ stage1 \in [Imports -> [Variants -> {"none", "running", "ok", "error"}]]
  BY DEF Base, Types, RegistersTyped, SentTyped
<1>3. /\ DOMAIN imports = 1..Len(imports) /\ DOMAIN imports' = 1..k /\ k <= MaxImports
      /\ Len(imports) \in Nat
      /\ \A i \in DOMAIN imports : imports'[i] = imports[i]
      /\ imports'[k] = NewImport(w)
  BY SubmitImport DEF Base
<1>4. /\ k \in Imports /\ k \notin DOMAIN imports /\ DOMAIN imports \subseteq Imports
      /\ DOMAIN imports' = DOMAIN imports \cup {k}
  BY <1>3, Bounds
<1>5. NewImport(w).variants = subs[w]
  BY DEF NewImport
<1>6. Sent(k)' = subs[w] /\ \A i \in DOMAIN imports : Sent(i)' = Sent(i)
  BY <1>3, <1>5 DEF Sent
<1> QED
  BY <1>1, <1>2, <1>4, <1>6

LEMMA TransformStages ==
  ASSUME Base, NEW i \in Imports, Transform(i)
  PROVE  /\ i \in DOMAIN imports /\ UNCHANGED <<imports, stage2>>
         /\ \A v \in Sent(i) : stage1[i][v] = "running"
         /\ \A v \in Sent(i) : stage1'[i][v] \in {"ok", "error"}
         /\ \A v \in Variants \ Sent(i) : stage1'[i][v] = "none"
         /\ \A k \in Imports \ {i} : stage1'[k] = stage1[k]
         /\ Sent(i) \subseteq Variants
<1>1. PICK ok \in SUBSET Sent(i) : stage1' = [stage1 EXCEPT ![i] =
             [v \in Variants |-> IF v \notin Sent(i) THEN "none" ELSE IF v \in ok THEN "ok" ELSE "error"]]
  BY DEF Transform
<1>2. stage1 \in [Imports -> [Variants -> {"none", "running", "ok", "error"}]]
  BY DEF Base, Types, SentTyped
<1>3. i \in DOMAIN imports /\ UNCHANGED <<imports, stage2>> /\ \A v \in Sent(i) : stage1[i][v] = "running"
  BY DEF Transform
<1>4. Sent(i) \subseteq Variants
  BY <1>3, ImportOf DEF Sent, Base
<1> QED
  BY <1>1, <1>2, <1>3, <1>4

LEMMA IntegrateStages ==
  ASSUME Base, NEW i \in Imports, Integrate(i)
  PROVE  /\ i \in DOMAIN imports /\ UNCHANGED <<imports, stage1>>
         /\ \A v \in Variants :
               \/ stage2'[i][v] = stage2[i][v]
               \/ stage2[i][v] = "none" /\ v \in Clean(i) /\ stage2'[i][v] \in {"published", "refused"}
         /\ \A k \in Imports \ {i} : stage2'[k] = stage2[k]
         /\ Clean(i) \subseteq Variants
<1>1. PICK now, ok : /\ now \subseteq {v \in Clean(i) : stage2[i][v] = "none"} /\ ok \subseteq now
                     /\ stage2' = Grown(i, now, ok)
  BY Growth
<1>2. stage2 \in [Imports -> [Variants -> {"none", "published", "refused"}]]
  BY DEF Base, Types, SentTyped
<1>3. i \in DOMAIN imports /\ UNCHANGED <<imports, stage1>>
  BY DEF Integrate
<1>4. Clean(i) \subseteq Variants
  BY <1>3, ImportOf DEF Clean, Sent, Base
<1>5. \A v \in Variants : stage2'[i][v] = IF v \notin now THEN stage2[i][v]
                                         ELSE IF v \in ok THEN "published" ELSE "refused"
  BY <1>1, <1>2 DEF Grown
<1>6. \A k \in Imports \ {i} : stage2'[k] = stage2[k]
  BY <1>1, <1>2 DEF Grown
<1> QED
  BY <1>1, <1>3, <1>4, <1>5, <1>6

LEMMA InitStages == Init => StagesFollow
  BY Bounds DEF Init, StagesFollow

LEMMA StepStages == ASSUME Base, StagesFollow, [Next]_vars PROVE StagesFollow'
<1> DEFINE Follows(i) ==
        /\ \A v \in Variants :
               /\ stage1[i][v] # "none" => i \in DOMAIN imports /\ v \in Sent(i)
               /\ stage2[i][v] # "none" => stage1[i][v] = "ok"
        /\ i \in DOMAIN imports => \A v \in Sent(i) : stage1[i][v] # "none"
<1>0. DOMAIN imports \subseteq Imports /\ \A i \in Imports : Follows(i)
  BY ImportOf DEF StagesFollow, Base
<1>s. ASSUME \A i \in Imports : Follows(i)' PROVE StagesFollow'
  <2>1. DOMAIN imports' \subseteq Imports
    BY StepBase, Bounds DEF Base, Types, SentTyped
  <2> QED
    BY <1>s, <2>1 DEF StagesFollow
<1>k. ASSUME NEW w \in Workers, Submit(w), NEW k, k = Len(imports) + 1, NEW i \in Imports \ {k}
      PROVE  /\ UNCHANGED <<stage1[i], stage2[i]>> /\ (i \in DOMAIN imports' <=> i \in DOMAIN imports)
             /\ i \in DOMAIN imports => Sent(i)' = Sent(i)
  <2>1. /\ stage2' = stage2 /\ stage1'[i] = stage1[i]
        /\ DOMAIN imports' = DOMAIN imports \cup {k}
        /\ \A n \in DOMAIN imports : Sent(n)' = Sent(n)
    BY <1>k, SubmitStages
  <2> QED
    BY <1>k, <2>1
<1> USE DEF Sent, Clean
<1>1. CASE UNCHANGED decathlonVars
  BY <1>0, <1>s, <1>1
<1>2. ASSUME NEW w \in Workers, Submit(w) PROVE StagesFollow'
  <2> SUFFICES ASSUME NEW k, k = Len(imports) + 1 PROVE StagesFollow'
    OBVIOUS
  <2>1. ASSUME NEW i \in Imports \ {k} PROVE Follows(i)'
    <3>1. /\ UNCHANGED <<stage1[i], stage2[i]>> /\ (i \in DOMAIN imports' <=> i \in DOMAIN imports)
          /\ i \in DOMAIN imports => Sent(i)' = Sent(i)
      BY <1>2, <1>k
    <3> QED
      BY <1>0, <2>1, <3>1
  <2>2. Follows(k)'
    <3>1. /\ k \in Imports /\ k \notin DOMAIN imports /\ k \in DOMAIN imports' /\ Sent(k)' = subs[w]
          /\ stage1'[k] = [v \in Variants |-> IF v \in subs[w] THEN "running" ELSE "none"]
          /\ stage2'[k] = stage2[k] /\ subs[w] \subseteq Variants
      BY <1>2, SubmitStages
    <3>2. \A v \in Variants : stage2[k][v] = "none"
      BY <1>0, <3>1
    <3> QED
      BY <3>1, <3>2
  <2> QED
    BY <1>s, <2>1, <2>2
<1>3. ASSUME NEW i \in Imports, Transform(i) PROVE StagesFollow'
  <2>1. ASSUME NEW k \in Imports \ {i} PROVE Follows(k)'
    BY <1>0, <1>3, TransformStages
  <2>2. Follows(i)'
    <3>1. /\ i \in DOMAIN imports /\ UNCHANGED <<imports, stage2>> /\ Sent(i)' = Sent(i)
          /\ \A v \in Sent(i) : stage1[i][v] = "running" /\ stage1'[i][v] \in {"ok", "error"}
          /\ \A v \in Variants \ Sent(i) : stage1'[i][v] = "none"
          /\ Sent(i) \subseteq Variants
      BY <1>3, TransformStages
    <3>2. \A v \in Variants : stage2[i][v] = "none"
      BY <1>0, <3>1
    <3> QED
      BY <3>1, <3>2
  <2> QED
    BY <1>s, <2>1, <2>2
<1>4. ASSUME NEW i \in Imports, Integrate(i) PROVE StagesFollow'
  <2>1. ASSUME NEW k \in Imports \ {i} PROVE Follows(k)'
    BY <1>0, <1>4, IntegrateStages
  <2>2. Follows(i)'
    <3>1. /\ i \in DOMAIN imports /\ UNCHANGED <<imports, stage1>>
          /\ \A v \in Variants : stage2'[i][v] = stage2[i][v] \/ v \in Clean(i)
      BY <1>4, IntegrateStages
    <3> QED
      BY <1>0, <3>1
  <2> QED
    BY <1>s, <2>1, <2>2
<1> QED
  BY <1>1, <1>2, <1>3, <1>4, StageSteps

(* What Decathlon has said of an import stays said. *)
LEMMA TruthStays ==
  ASSUME Base, StagesFollow, [Next]_vars, NEW i \in DOMAIN imports
  PROVE  /\ i \in DOMAIN imports' /\ Sent(i)' = Sent(i) /\ imports'[i] = imports[i]
         /\ \A v \in Variants :
               /\ stage1[i][v] \in {"ok", "error"} => stage1'[i][v] = stage1[i][v]
               /\ stage2[i][v] # "none" => stage2'[i][v] = stage2[i][v]
<1>1. i \in Imports /\ i \in DOMAIN imports' /\ imports'[i] = imports[i] /\ Sent(i)' = Sent(i)
  BY ImportOf, ImportsGrow DEF Base, Sent
<1>2. \A v \in Variants : stage1[i][v] # "none" => v \in Sent(i)
  BY <1>1 DEF StagesFollow
<1>3. CASE \E w \in Workers : Submit(w)
  <2>1. PICK w \in Workers : Submit(w)
    BY <1>3
  <2>2. \A k : k = Len(imports) + 1 => k \notin DOMAIN imports /\ stage2' = stage2
                                       /\ \A j \in Imports \ {k} : stage1'[j] = stage1[j]
    BY <2>1, SubmitStages
  <2> QED
    BY <1>1, <2>2
<1>4. CASE \E k \in Imports : Transform(k)
  BY <1>1, <1>2, <1>4, TransformStages
<1>5. CASE \E k \in Imports : Integrate(k)
  BY <1>1, <1>5, IntegrateStages
<1> QED
  BY <1>1, <1>3, <1>4, <1>5, StageSteps

LEMMA TookStays ==
  ASSUME Base, StagesFollow, [Next]_vars, NEW i \in DOMAIN imports
  PROVE  /\ \A d \in SUBSET Variants : Took(i, d) => Took(i, d)'
         /\ \A v \in Variants : Refuses(i, v) => Refuses(i, v)'
<1>1. Sent(i) \subseteq Variants
  BY ImportOf DEF Base, Sent
<1> QED
  BY <1>1, TruthStays DEF Took, Refuses

LEMMA ReadingKnows ==
  ASSUME Base, NEW w \in Workers, good[w] \/ pc[w] \in PollPlaces \ {"done"}, ReadIsTrue
  PROVE  IsPoll(cur[w]) /\ imp[w] \in DOMAIN imports /\ Sent(imp[w]) \subseteq Variants
<1>1. IsPoll(cur[w]) /\ imp[w] \in DOMAIN imports
  BY DEF Base, RunsKnown, SubmitPlaces, PollPlaces, ReadIsTrue
<1> QED
  BY <1>1, ImportOf DEF Base, Sent

(* A terminal status is read off what Decathlon made of the import. *)
LEMMA ReadTerminalTrue ==
  ASSUME Base, StagesFollow, ReadIsTrue, NEW w \in Workers, ReadTerminal(w)
  PROVE  /\ OverallOk(imp[w]) => Took(imp[w], Integrated(imp[w]))
         /\ Transformed(imp[w]) /\ Integrated(imp[w]) \subseteq Variants
<1> DEFINE i == imp[w]
<1>1. i \in DOMAIN imports /\ i \in Imports /\ Sent(i) \subseteq Variants
  BY ReadingKnows, ImportOf DEF ReadTerminal, PollPlaces, Base
<1>2. Transformed(i)
  BY DEF ReadTerminal, StillRunning
<1>3. \A v \in Sent(i) : stage2[i][v] \in {"none", "published", "refused"}
  BY <1>1 DEF Base, Types, SentTyped
<1>4. imports[i].kind \in {"product", "offer"}
  BY <1>1, ImportOf DEF Base
<1> HIDE DEF i
<1>5. OverallOk(i) => Took(i, Integrated(i))
  BY <1>3, <1>4 DEF OverallOk, TransformOk, Clean, Refused, Integrated, Took
<1> QED
  BY <1>1, <1>2, <1>5 DEF i, Integrated

(* What the reports of a transformed import call failed. *)
LEMMA ReadReportsTrue ==
  ASSUME Base, StagesFollow, NEW i \in DOMAIN imports, Transformed(i),
         NEW rejected \in SUBSET {Sent(i) \ Clean(i), Refused(i)}
  PROVE  \A u \in UNION rejected : Refuses(i, u)
<1>1. i \in Imports /\ Sent(i) \subseteq Variants
  BY ImportOf DEF Base, Sent
<1>2. \A v \in Sent(i) : stage1[i][v] \in {"ok", "error"}
  BY <1>1 DEF StagesFollow, Transformed, Base, Types, SentTyped
<1>3. \A u \in (Sent(i) \ Clean(i)) \cup Refused(i) : Refuses(i, u)
  BY <1>2 DEF Clean, Refused, Refuses
<1> QED
  BY <1>3

LEMMA InitTruth == Init => ReadIsTrue /\ SuccessIsTrue
  BY DEF Init, ReadIsTrue, SuccessIsTrue

LEMMA StepReads ==
  ASSUME Base, StagesFollow, ReadIsTrue, [Next]_vars
  PROVE  ReadIsTrue'
<1> DEFINE Marking(w) == pc[w] \in {"mark", "update"}
           True(w) ==
             /\ good[w] => pc[w] \in PollPlaces /\ IsPoll(cur[w]) /\ Took(imp[w], seen[w])
             /\ pc[w] = "report" => Transformed(imp[w])
             /\ Marking(w) => left[w] \subseteq Sent(imp[w]) /\ \A u \in bad[w] : Refuses(imp[w], u)
             /\ pc[w] = "update" => at[w] \subseteq Sent(imp[w])
<1>0. Types /\ RunsKnown /\ \A w \in Workers : seen[w] \subseteq Variants
  BY DEF Base, Types, RegistersTyped
<1>1. \A i \in DOMAIN imports :
          /\ Sent(i)' = Sent(i) /\ Sent(i) \subseteq Variants
          /\ \A d \in SUBSET Variants : Took(i, d) => Took(i, d)'
          /\ \A v \in Variants : Refuses(i, v) => Refuses(i, v)'
          /\ Transformed(i) => Transformed(i)'
  <2>1. ASSUME NEW i \in DOMAIN imports, Transformed(i) PROVE Transformed(i)'
    <3>1. i \in Imports /\ Sent(i) \subseteq Variants
      BY ImportOf DEF Base, Sent
    <3>2. \A v \in Sent(i) : stage1[i][v] \in {"ok", "error"}
      BY <2>1, <3>1 DEF StagesFollow, Transformed, Base, Types, SentTyped
    <3> QED
      BY <3>1, <3>2, TruthStays DEF Transformed
  <2> QED
    BY <2>1, TookStays, TruthStays, ImportOf DEF Base, Sent
<1>2. ASSUME NEW w \in Workers, UNCHANGED <<good[w], seen[w], cur[w], imp[w], bad[w]>>,
             left'[w] \subseteq left[w],
             good[w] => pc'[w] \in PollPlaces, pc'[w] = "report" => pc[w] = "report",
             Marking(w)' => Marking(w),
             pc'[w] = "update" => at'[w] \subseteq left[w] \/ (pc[w] = "update" /\ at'[w] \subseteq at[w])
      PROVE  True(w)'
  <2>1. good[w] \/ pc[w] = "report" \/ Marking(w) => imp[w] \in DOMAIN imports
    BY ReadingKnows DEF PollPlaces
  <2>2. True(w)
    BY DEF ReadIsTrue
  <2>3. good'[w] => (pc[w] \in PollPlaces /\ IsPoll(cur[w]) /\ Took(imp[w], seen[w]))'
    BY <1>0, <1>1, <1>2, <2>1, <2>2 DEF IsPoll
  <2>4. pc'[w] = "report" => Transformed(imp[w])'
    BY <1>1, <1>2, <2>1, <2>2
  <2>5. Marking(w)' => (left[w] \subseteq Sent(imp[w]) /\ \A u \in bad[w] : Refuses(imp[w], u))'
    <3>1. Marking(w) => \A u \in bad[w] : u \in Variants
      BY <1>1, <2>1, <2>2 DEF Refuses
    <3> QED
      BY <1>1, <1>2, <2>1, <2>2, <3>1
  <2>6. pc'[w] = "update" => (at[w] \subseteq Sent(imp[w]))'
    BY <1>1, <1>2, <2>1, <2>2
  <2> QED
    BY <2>3, <2>4, <2>5, <2>6
<1>3. CASE UNCHANGED runVars
  BY <1>2, <1>3 DEF ReadIsTrue
<1>4. ASSUME NEW w \in Workers, True(w)',
             \/ Inside(w) \/ Adding(w) \/ Failing(w) \/ Complete(w) \/ Crash(w)
             \/ \E j \in Jobs : Start(w, j)
      PROVE  ReadIsTrue'
  <2>1. \A v \in Workers \ {w} : True(v)'
    BY <1>2, <1>4, OthersStay DEF Base, ReadIsTrue
  <2> QED
    BY <1>4, <2>1 DEF ReadIsTrue
<1>5. CASE \/ EnqueueOfferSync \/ Beside
           \/ \E j \in Jobs : EnqueueProductSync(j) \/ RetryFailedSync(j) \/ RecoverStalled(j) \/ LoseLock(j)
  BY <1>3, <1>5, BesideQueue DEF EnqueueOfferSync, EnqueueProductSync, RetryFailedSync, RecoverStalled, LoseLock
<1> USE DEF Base, Types, RunsTyped, RegistersTyped
<1>6. ASSUME NEW w \in Workers, NEW j \in Jobs, Start(w, j) PROVE True(w)'
  <2>1. ~good[w] /\ good'[w] = good[w] /\ pc'[w] \notin {"report", "mark", "update"}
    BY <1>6 DEF Start, ReadIsTrue, PollPlaces
  <2> QED
    BY <2>1
<1>7. ASSUME NEW w \in Workers, Failing(w) \/ Complete(w) \/ Crash(w) PROVE True(w)'
  <2>1. ~good'[w] /\ pc'[w] = "idle"
    BY <1>7, FailingQueue DEF Complete, Crash
  <2> QED
    BY <2>1
<1>8. ASSUME NEW w \in Workers, Adding(w) PROVE True(w)'
  <2>1. pc'[w] = "done" /\ UNCHANGED <<good, seen, cur, imp, bad, left>>
    BY <1>8 DEF Adding, RefreshOffers, EnqueueFirstPoll, ChainOffers, Repoll
  <2> QED
    BY <1>2, <2>1 DEF PollPlaces
<1>9. ASSUME NEW w \in Workers, ReadTerminal(w) PROVE True(w)'
  <2>1. /\ imp[w] \in DOMAIN imports /\ IsPoll(cur[w])
    BY <1>9, ReadingKnows DEF ReadTerminal, PollPlaces
  <2>2. /\ good' = [good EXCEPT ![w] = OverallOk(imp[w])]
        /\ seen' = [seen EXCEPT ![w] = Integrated(imp[w])]
        /\ pc' = [pc EXCEPT ![w] = "report"] /\ UNCHANGED <<cur, imp>>
    BY <1>9 DEF ReadTerminal
  <2>3. PICK i, d : i = imp[w] /\ d = Integrated(imp[w])
    OBVIOUS
  <2>4. /\ OverallOk(i) => Took(i, d)'
        /\ Transformed(i)'
    BY <1>1, <1>9, <2>1, <2>3, ReadTerminalTrue
  <2>5. good'[w] = OverallOk(i) /\ seen'[w] = d /\ imp'[w] = i /\ pc'[w] = "report" /\ cur'[w] = cur[w]
    BY <2>2, <2>3
  <2> QED
    BY <2>1, <2>4, <2>5 DEF PollPlaces, IsPoll
<1>10. ASSUME NEW w \in Workers, ReadReports(w) PROVE True(w)'
  <2>1. /\ imp[w] \in DOMAIN imports /\ IsPoll(cur[w]) /\ Transformed(imp[w]) /\ True(w)
    BY <1>10, ReadingKnows DEF ReadReports, PollPlaces, ReadIsTrue
  <2>2. PICK rejected \in SUBSET {Sent(imp[w]) \ Clean(imp[w]), Refused(imp[w])} :
           bad' = [bad EXCEPT ![w] = UNION rejected]
    BY <1>10 DEF ReadReports
  <2>3. /\ left' = [left EXCEPT ![w] = Sent(imp[w])]
        /\ pc' = [pc EXCEPT ![w] = "mark"] /\ UNCHANGED <<cur, imp, good, seen>>
    BY <1>10 DEF ReadReports
  <2>4. PICK i, b : i = imp[w] /\ b = UNION rejected
    OBVIOUS
  <2>5. \A u \in b : u \in Variants /\ Refuses(i, u)
    <3>1. \A u \in b : Refuses(i, u)
      BY <2>1, <2>4, ReadReportsTrue
    <3> QED
      BY <1>1, <2>1, <2>4, <3>1 DEF Refuses
  <2>6. \A u \in b : Refuses(i, u)'
    BY <1>1, <2>1, <2>4, <2>5
  <2>7. /\ left'[w] = Sent(i) /\ bad'[w] = b /\ pc'[w] = "mark" /\ imp'[w] = i
        /\ UNCHANGED <<cur[w], good[w], seen[w]>>
    BY <2>2, <2>3, <2>4
  <2>8. good'[w] => Took(i, seen[w])'
    BY <1>0, <1>1, <2>1, <2>4, <2>7
  <2> QED
    BY <1>1, <2>1, <2>4, <2>6, <2>7, <2>8 DEF PollPlaces, IsPoll
<1>11. ASSUME NEW w \in Workers, Submit(w) \/ Ready(w) \/ OffersReady(w) \/ UpsertMapping(w)
       PROVE  True(w)'
  <2>1. ~good[w] /\ good'[w] = good[w] /\ pc'[w] \notin {"report", "mark", "update"}
    BY <1>11 DEF Submit, Ready, OffersReady, UpsertMapping, Preparing, ReadIsTrue, PollPlaces
  <2> QED
    BY <2>1
<1>12. ASSUME NEW w \in Workers, FindVariant(w) PROVE True(w)'
  <2>1. PICK v \in left[w] : /\ left' = [left EXCEPT ![w] = @ \ {v}]
                            /\ at' = [at EXCEPT ![w] = {v}]
    BY <1>12 DEF FindVariant
  <2>2. pc[w] = "mark" /\ pc'[w] = "update" /\ UNCHANGED <<good, seen, cur, imp, bad>>
    BY <1>12 DEF FindVariant
  <2>3. left'[w] = left[w] \ {v} /\ at'[w] = {v}
    BY <2>1
  <2>4. left'[w] \subseteq left[w] /\ at'[w] \subseteq left[w]
    BY <2>1, <2>3
  <2>5. /\ UNCHANGED <<good[w], seen[w], cur[w], imp[w], bad[w]>>
        /\ good[w] => pc'[w] \in PollPlaces
        /\ Marking(w)' => Marking(w)
        /\ pc'[w] = "report" => pc[w] = "report"
    BY <2>2 DEF PollPlaces
  <2>6. pc'[w] = "update" => at'[w] \subseteq left[w] \/ (pc[w] = "update" /\ at'[w] \subseteq at[w])
    BY <2>4
  <2> HIDE DEF True, Marking
  <2> QED
    BY <1>2, <2>4, <2>5, <2>6
<1>13. ASSUME NEW w \in Workers, MarkVariant(w) PROVE True(w)'
  <2>1. /\ pc[w] = "update" /\ pc'[w] \in {"mark", "find"}
        /\ UNCHANGED <<good, seen, cur, imp, bad, left>>
    BY <1>13 DEF MarkVariant
  <2> QED
    BY <1>2, <2>1 DEF PollPlaces
<1>14. ASSUME NEW w \in Workers, Inside(w),
              ~(ReadTerminal(w) \/ ReadReports(w) \/ Submit(w) \/ Ready(w) \/ OffersReady(w)
                  \/ FindVariant(w) \/ MarkVariant(w) \/ UpsertMapping(w))
       PROVE  True(w)'
  <2>1. /\ UNCHANGED <<good, seen, cur, imp, bad, left>> /\ pc'[w] \notin {"report", "mark", "update"}
        /\ pc[w] \in PollPlaces => pc'[w] \in PollPlaces
    BY <1>14 DEF Inside, NotImportable, NothingChanged, NoOffers, NoImportId, WriteLog, ReadPending,
         FindPending, ResolveLog, FinishSyncJob, GiveUp, Preparing, PollPlaces
  <2> QED
    BY <1>2, <2>1 DEF ReadIsTrue
<1> QED
  BY <1>3, <1>4, <1>5, <1>6, <1>7, <1>8, <1>9, <1>10, <1>11, <1>12, <1>13, <1>14, Steps, Bounds

LEMMA StepSuccess ==
  ASSUME Base, StagesFollow, ReadIsTrue, SuccessIsTrue, [Next]_vars
  PROVE  SuccessIsTrue'
<1> USE DEF Base
<1>1. /\ \A i \in DOMAIN imports : \A d \in SUBSET Variants : Took(i, d) => Took(i, d)'
      /\ \A r \in DOMAIN log : log[r] \in LogRow /\ log[r].seen \in SUBSET Variants
  <2>1. \A r \in DOMAIN log : log[r] \in LogRow
    BY DEF Types, RowsTyped
  <2>2. \A x \in LogRow : x.seen \in SUBSET Variants
    BY DEF LogRow
  <2> QED
    BY <2>1, <2>2, TookStays
<1>2. ASSUME NEW r \in DOMAIN log, log'[r] = log[r], log[r].says = "SUCCESS"
      PROVE  Took(log[r].about, log[r].seen)'
  <2>1. PICK i, d : i = log[r].about /\ d = log[r].seen
    OBVIOUS
  <2>2. i \in DOMAIN imports /\ Took(i, d) /\ d \in SUBSET Variants
    BY <1>1, <1>2, <2>1 DEF RowsKnown, SuccessIsTrue
  <2>3. Took(i, d)'
    BY <1>1, <2>2
  <2> QED
    BY <1>2, <2>1, <2>3
<1>3. CASE UNCHANGED log
  BY <1>2, <1>3 DEF SuccessIsTrue
<1>4. ASSUME NEW w \in Workers, WriteLog(w) PROVE SuccessIsTrue'
  <2>1. /\ DOMAIN log' = DOMAIN log \cup {Len(log) + 1} /\ log'[Len(log) + 1] = NewLog(w)
        /\ \A q \in DOMAIN log : log'[q] = log[q]
    BY <1>4, WriteLogRow
  <2>2. NewLog(w).says = "PROCESSING"
    BY DEF NewLog
  <2> QED
    BY <1>2, <2>1, <2>2 DEF SuccessIsTrue
<1>5. ASSUME NEW i \in DOMAIN imports, NEW s \in Says, NEW d \in SUBSET Variants,
             NEW q \in DOMAIN log, Resolves(i, s, d, q)
      PROVE  SuccessIsTrue'
  <2>1. s = "SUCCESS" => Took(i, d)
    BY <1>5 DEF Resolves, ReadIsTrue
  <2>2. ASSUME NEW r \in DOMAIN log', log'[r].says = "SUCCESS" PROVE Took(log[r].about, log[r].seen)'
    <3>1. /\ r \in DOMAIN log
          /\ IF r = q THEN log'[r].about = i /\ log'[r].says = s /\ log'[r].seen = d
                      ELSE log'[r] = log[r]
      BY <1>5, <2>2, ResolvedRow
    <3>2. CASE r # q
      BY <1>2, <2>2, <3>1, <3>2
    <3>3. CASE r = q
      BY <1>1, <2>1, <2>2, <3>1, <3>3
    <3> QED
      BY <3>2, <3>3
  <2> QED
    BY <2>2 DEF SuccessIsTrue
<1> QED
  BY <1>3, <1>4, <1>5, LogSteps

Truth == Base /\ StagesFollow /\ ReadIsTrue /\ SuccessIsTrue

LEMMA InitIsTrue == Init => Truth
  BY InitBase, InitStages, InitTruth DEF Truth

LEMMA StepIsTrue == ASSUME Truth, [Next]_vars PROVE Truth'
  BY StepBase, StepStages, StepReads, StepSuccess DEF Truth

(* A row that says SUCCESS is about an import all of whose variants        *)
(* Decathlon transformed and of which it refused none that the status had  *)
(* counted, one of a product at least (pollImportStatus), for any number   *)
(* of imports, polls, retries and lost locks.                              *)
THEOREM SuccessMeansPublished == Spec => []SuccessIsPublished
<1>1. Truth => SuccessIsPublished
  BY DEF Truth, SuccessIsTrue, Took, SuccessIsPublished
<1> QED
  BY <1>1, InitIsTrue, StepIsTrue, PTL DEF Spec

-----------------------------------------------------------------------------
(* SYNCED                                                                  *)

(* Import i is why variant v is marked SYNCED. *)
IsCause(i, v) ==
    \/ stage2[i][v] = "published"
    \/ imports[i].kind = "offer" /\ stage1[i][v] = "ok"
    \/ v \in Sent(i) /\ \E u \in Sent(i) \ {v} :
           \/ stage1[i][u] = "error" \/ stage2[i][u] = "refused"
           \/ stage2[i][u] = "published" /\ stage1[i][v] = "ok"

LEMMA CauseStays ==
  ASSUME Base, StagesFollow, [Next]_vars, NEW v \in Variants, NEW i \in DOMAIN imports, IsCause(i, v)
  PROVE  i \in DOMAIN imports' /\ IsCause(i, v)'
<1>1. Sent(i) \subseteq Variants
  BY ImportOf DEF Base, Sent
<1> QED
  BY <1>1, TruthStays DEF IsCause

(* A mark SYNCED is made of what the poll has read. *)
LEMMA MarkHasCause ==
  ASSUME Truth, NEW w \in Workers, pc[w] = "update", NEW v \in at[w], RowOk(w, v)
  PROVE  imp[w] \in DOMAIN imports /\ IsCause(imp[w], v)
<1>1. imp[w] \in DOMAIN imports /\ v \in Sent(imp[w]) /\ imp[w] \in Imports
  BY ReadingKnows, ImportOf DEF Truth, Base, PollPlaces, ReadIsTrue
<1>2. CASE good[w]
  <2>1. /\ Took(imp[w], seen[w]) /\ imports[imp[w]].kind \in {"product", "offer"}
        /\ seen[w] \subseteq Variants
    BY <1>1, <1>2, ImportOf DEF Truth, Base, ReadIsTrue, Types, RegistersTyped
  <2>2. \A u \in seen[w] : stage2[imp[w]][u] = "published" => u \in Sent(imp[w])
    BY <1>1, <2>1 DEF Truth, StagesFollow
  <2> QED
    BY <1>1, <2>1, <2>2 DEF Took, IsCause
<1>3. CASE ~good[w]
  <2>1. PICK u \in bad[w] : u # v
    BY <1>3 DEF RowOk
  <2>2. Refuses(imp[w], u)
    BY DEF Truth, ReadIsTrue
  <2> QED
    BY <1>1, <2>1, <2>2 DEF Refuses, IsCause
<1> QED
  BY <1>2, <1>3

LEMMA MappingSteps ==
  ASSUME Truth, [Next]_vars, NEW v \in Variants, mapping'[v] = "SYNCED"
  PROVE  \/ mapping[v] = "SYNCED"
         \/ \E w \in Workers : pc[w] = "update" /\ v \in at[w] /\ RowOk(w, v)
<1>0. mapping \in [Variants -> MappingStatus]
  BY DEF Truth, Base, Types, RowsTyped
<1>1. CASE \/ EnqueueOfferSync \/ Beside
           \/ \E j \in Jobs : EnqueueProductSync(j) \/ RetryFailedSync(j) \/ RecoverStalled(j) \/ LoseLock(j)
  BY <1>1 DEF EnqueueOfferSync, EnqueueProductSync, RetryFailedSync, RecoverStalled, LoseLock, Beside,
         Transform, Integrate, HandlerStep, HandlerFinds, HandlerResolves, HandlerFinishes, HandlerFails, Handle, vars
<1>2. ASSUME NEW w \in Workers, Failing(w) PROVE mapping[v] = "SYNCED"
  BY <1>0, <1>2 DEF Failing, PrepareThrows, SubmitFails, Throw
<1>3. ASSUME NEW w \in Workers, Complete(w) \/ Crash(w) \/ Adding(w) \/ \E j \in Jobs : Start(w, j)
      PROVE  UNCHANGED mapping
  BY <1>3 DEF Complete, Crash, Start, Adding, RefreshOffers, EnqueueFirstPoll, ChainOffers, Repoll
<1>4. ASSUME NEW w \in Workers, UpsertMapping(w) PROVE mapping[v] = "SYNCED"
  BY <1>0, <1>4 DEF UpsertMapping
<1>5. ASSUME NEW w \in Workers, MarkVariant(w), mapping[v] # "SYNCED"
      PROVE  pc[w] = "update" /\ v \in at[w] /\ RowOk(w, v)
  <2>1. PICK u \in at[w] : mapping' = [mapping EXCEPT ![u] = IF RowOk(w, u) THEN "SYNCED" ELSE "FAILED"]
    BY <1>5 DEF MarkVariant
  <2>2. u = v /\ RowOk(w, v)
    BY <1>0, <1>5, <2>1
  <2> QED
    BY <1>5, <2>2 DEF MarkVariant
<1>6. ASSUME NEW w \in Workers, Inside(w), ~UpsertMapping(w), ~MarkVariant(w) PROVE UNCHANGED mapping
  BY <1>6 DEF Inside, NotImportable, NothingChanged, Ready, NoOffers, OffersReady, Submit,
         NoImportId, WriteLog, ReadPending, ReadTerminal, ReadReports, FindVariant, FindPending, ResolveLog,
         FinishSyncJob, GiveUp
<1> QED
  BY <1>1, <1>2, <1>3, <1>4, <1>5, <1>6, Steps, Bounds

(* A variant is marked SYNCED only if Decathlon took it, or a report named *)
(* another variant of the import as the failing one (pollImportStatus),    *)
(* for any number of variants, imports and polls.                          *)
THEOREM SyncedIsCaused == Spec => []SyncedHasCause
<1> DEFINE Caused == \A v \in Variants : mapping[v] = "SYNCED" => \E i \in DOMAIN imports : IsCause(i, v)
<1>1. Init => Caused
  BY DEF Init
<1>2. ASSUME Truth, Caused, [Next]_vars PROVE Caused'
  <2> SUFFICES ASSUME NEW v \in Variants, mapping'[v] = "SYNCED"
               PROVE  \E i \in DOMAIN imports : i \in DOMAIN imports' /\ IsCause(i, v)'
    OBVIOUS
  <2>1. \E i \in DOMAIN imports : IsCause(i, v)
    BY <1>2, MappingSteps, MarkHasCause
  <2> QED
    BY <1>2, <2>1, CauseStays DEF Truth
<1>3. Caused => SyncedHasCause
  BY DEF SyncedHasCause, IsCause
<1> QED
  BY <1>1, <1>2, <1>3, InitIsTrue, StepIsTrue, PTL DEF Spec

-----------------------------------------------------------------------------
(* The life of one job, and of one run, in a step                          *)

JobRests(j) == UNCHANGED <<job[j], attempts[j], stalls[j], holder[j]>>

JobIsAdded(j) ==
    /\ job[j] = "absent" /\ job'[j] = "waiting"
    /\ UNCHANGED <<attempts[j], stalls[j], holder[j]>>

JobIsRenewed(j) ==
    /\ EnqueueOfferSync /\ j = OfferJob
    /\ job[j] # "active" /\ job'[j] = "waiting" /\ holder'[j] = holder[j]

JobIsTaken(j, w) ==
    /\ Start(w, j) /\ job[j] = "waiting" /\ job'[j] = "active" /\ holder'[j] = w
    /\ UNCHANGED <<attempts[j], stalls[j]>>

JobFails(j, w) ==
    /\ Failing(w) /\ Running(w, j) /\ Holds(w, j) /\ job'[j] \in {"waiting", "failed"}
    /\ attempts'[j] = attempts[j] + 1 /\ stalls'[j] = stalls[j]

JobIsDone(j, w) ==
    /\ Complete(w) /\ Running(w, j) /\ Holds(w, j)
    /\ IF IsPoll(j) THEN job'[j] = "absent"
       ELSE job'[j] = "completed" /\ UNCHANGED <<attempts[j], stalls[j]>>

JobStalls(j) ==
    /\ RecoverStalled(j) \/ LoseLock(j)
    /\ job[j] = "active" /\ job'[j] \in {"waiting", "failed"}
    /\ stalls'[j] = stalls[j] + 1 /\ attempts'[j] = attempts[j]

LEMMA JobSteps ==
  ASSUME Base, [Next]_vars, NEW j \in Jobs
  PROVE  \/ JobRests(j) \/ JobIsAdded(j) \/ JobIsRenewed(j) \/ JobStalls(j)
         \/ \E w \in Workers : JobIsTaken(j, w) \/ JobFails(j, w) \/ JobIsDone(j, w)
<1> USE DEF Base, Types, QueueTyped, RunsTyped
<1>1. ASSUME NEW k \in Jobs, AddJob(k) PROVE JobRests(j) \/ JobIsAdded(j)
  BY <1>1 DEF AddJob, JobRests, JobIsAdded
<1>2. ASSUME NEW k \in Jobs, EnqueueProductSync(k) \/ RetryFailedSync(k) PROVE JobRests(j) \/ JobIsAdded(j)
  BY <1>1, <1>2 DEF EnqueueProductSync, RetryFailedSync
<1>3. CASE EnqueueOfferSync
  BY <1>3, Bounds DEF EnqueueOfferSync, RenewJob, JobRests, JobIsRenewed
<1>4. ASSUME NEW w \in Workers, NEW k \in Jobs, Start(w, k) PROVE JobRests(j) \/ JobIsTaken(j, w)
  BY <1>4 DEF Start, TakeJob, JobRests, JobIsTaken
<1>5. ASSUME NEW w \in Workers, Failing(w) PROVE JobRests(j) \/ JobFails(j, w)
  <2>1. FailJob(w, cur[w]) /\ pc[w] # "idle"
    BY <1>5, FailingQueue
  <2>2. CASE cur[w] = j /\ Holds(w, j)
    BY <1>5, <2>1, <2>2 DEF FailJob, JobFails, Running
  <2>3. CASE ~(cur[w] = j /\ Holds(w, j))
    BY <2>1, <2>3 DEF FailJob, JobRests
  <2> QED
    BY <2>2, <2>3
<1>6. ASSUME NEW w \in Workers, Complete(w) PROVE JobRests(j) \/ JobIsDone(j, w)
  <2>1. pc[w] = "done" /\ IF IsPoll(cur[w]) THEN RemoveJob(w, cur[w]) ELSE CompleteJob(w, cur[w])
    BY <1>6 DEF Complete
  <2>2. CASE cur[w] = j /\ Holds(w, j)
    <3>1. CASE IsPoll(j)
      BY <1>6, <2>1, <2>2, <3>1 DEF RemoveJob, JobIsDone, Running
    <3>2. CASE ~IsPoll(j)
      BY <1>6, <2>1, <2>2, <3>2 DEF CompleteJob, JobIsDone, Running
    <3> QED
      BY <3>1, <3>2
  <2>3. CASE ~(cur[w] = j /\ Holds(w, j))
    <3>1. CASE IsPoll(cur[w])
      BY <2>1, <2>3, <3>1 DEF RemoveJob, JobRests
    <3>2. CASE ~IsPoll(cur[w])
      BY <2>1, <2>3, <3>2 DEF CompleteJob, JobRests
    <3> QED
      BY <3>1, <3>2
  <2> QED
    BY <2>2, <2>3
<1>7. ASSUME NEW w \in Workers, Adding(w) PROVE JobRests(j) \/ JobIsAdded(j)
  <2>1. pc[w] \in {"repoll", "poll"} => imp[w] \in Imports
    BY ImportOf DEF RunsKnown, SubmitPlaces, PollPlaces
  <2>2. CASE RefreshOffers(w) \/ ChainOffers(w)
    BY <1>1, <2>2, Bounds DEF RefreshOffers, ChainOffers
  <2>3. CASE EnqueueFirstPoll(w)
    BY <1>1, <2>1, <2>3, PollIsJob, Bounds DEF EnqueueFirstPoll
  <2>4. CASE Repoll(w)
    <3>1. cur[w].n \in 1..MaxPolls
      BY <2>4, PollIsJob DEF Repoll, RunsKnown, SubmitPlaces, IsPoll
    <3> QED
      BY <1>1, <2>1, <2>4, <3>1, PollIsJob, Bounds DEF Repoll
  <2> QED
    BY <1>7, <2>2, <2>3, <2>4 DEF Adding
<1>8. ASSUME NEW w \in Workers, Inside(w) \/ Crash(w) PROVE JobRests(j)
  BY <1>8, InsideQueue DEF Crash, JobRests
<1>9. ASSUME NEW k \in Jobs, RecoverStalled(k) \/ LoseLock(k) PROVE JobRests(j) \/ JobStalls(j)
  BY <1>9 DEF RecoverStalled, LoseLock, StallJob, JobRests, JobStalls
<1>10. CASE Beside
  BY <1>10, BesideQueue DEF JobRests
<1> QED
  BY <1>2, <1>3, <1>4, <1>5, <1>6, <1>7, <1>8, <1>9, <1>10, Steps, Bounds

RunGoesOn(w) ==
    /\ cur'[w] = cur[w] /\ (pc[w] = "idle" <=> pc'[w] = "idle")
    /\ UNCHANGED <<pc[w], imp[w]>> \/ Inside(w) \/ Adding(w)

RunEnds(w) == pc[w] # "idle" /\ pc'[w] = "idle" /\ (Failing(w) \/ Complete(w) \/ Crash(w))

LEMMA RunSteps ==
  ASSUME Base, [Next]_vars, NEW v \in Workers
  PROVE  RunGoesOn(v) \/ RunEnds(v) \/ \E j \in Jobs : Start(v, j)
<1> USE DEF Base, Types, RunsTyped
<1>1. CASE UNCHANGED runVars
  BY <1>1 DEF RunGoesOn
<1>2. CASE \/ EnqueueOfferSync \/ Beside
           \/ \E j \in Jobs : EnqueueProductSync(j) \/ RetryFailedSync(j) \/ RecoverStalled(j) \/ LoseLock(j)
  BY <1>1, <1>2, BesideQueue DEF EnqueueOfferSync, EnqueueProductSync, RetryFailedSync, RecoverStalled, LoseLock
<1>3. ASSUME NEW w \in Workers, v # w,
             \/ Inside(w) \/ Adding(w) \/ Failing(w) \/ Complete(w) \/ Crash(w)
             \/ \E j \in Jobs : Start(w, j)
      PROVE  RunGoesOn(v)
  BY <1>3, OthersStay DEF RunGoesOn
<1>4. CASE Failing(v) \/ Complete(v) \/ Crash(v)
  BY <1>4, FailingQueue DEF Complete, Crash, RunEnds
<1>5. CASE Adding(v)
  BY <1>5 DEF Adding, RefreshOffers, EnqueueFirstPoll, ChainOffers, Repoll, RunGoesOn
<1>6. CASE Inside(v)
  <2>1. cur' = cur
    BY <1>6 DEF Inside, NotImportable, NothingChanged, Ready, NoOffers, OffersReady, Submit,
         NoImportId, UpsertMapping, WriteLog, ReadPending, ReadTerminal, ReadReports, FindVariant, MarkVariant,
         FindPending, ResolveLog, FinishSyncJob, GiveUp
  <2>2. pc[v] # "idle" /\ pc'[v] # "idle"
    BY <1>6 DEF Inside, NotImportable, NothingChanged, Ready, NoOffers, OffersReady, Submit,
         NoImportId, UpsertMapping, WriteLog, ReadPending, ReadTerminal, ReadReports, FindVariant, MarkVariant,
         FindPending, ResolveLog, FinishSyncJob, GiveUp, Preparing
  <2> QED
    BY <1>6, <2>1, <2>2 DEF RunGoesOn
<1> QED
  BY <1>2, <1>3, <1>4, <1>5, <1>6, Steps, Bounds

-----------------------------------------------------------------------------
(* Interruptions                                                           *)

FaultsCount == \A j \in Jobs \ PollJobs : Interrupted(j) => faults > 0

(* A run that has lost its job's lock has been interrupted. *)
LocksHold ==
    \A w \in Workers :
        pc[w] # "idle" /\ ~IsPoll(cur[w]) /\ ~Holds(w, cur[w]) => Interrupted(cur[w])

LEMMA FaultsGrow ==
  ASSUME Base, [Next]_vars
  PROVE  /\ faults \in Nat /\ faults' \in {faults, faults + 1}
         /\ \A w \in Workers : Failing(w) \/ Crash(w) => faults' = faults + 1
         /\ \A j \in Jobs : LoseLock(j) => faults' = faults + 1
<1>1. ASSUME \/ EnqueueOfferSync \/ Beside
             \/ \E k \in Jobs : EnqueueProductSync(k) \/ RetryFailedSync(k) \/ RecoverStalled(k) \/ LoseLock(k)
      PROVE  faults' \in {faults, faults + 1}
  BY <1>1, BesideQueue DEF EnqueueOfferSync, EnqueueProductSync, RetryFailedSync, RecoverStalled, LoseLock
<1>2. ASSUME NEW w \in Workers,
             \/ Inside(w) \/ Adding(w) \/ Failing(w) \/ Complete(w) \/ Crash(w)
             \/ \E k \in Jobs : Start(w, k)
      PROVE  faults' \in {faults, faults + 1}
  BY <1>2, InsideQueue, FailingQueue DEF Complete, Crash, Start, Adding, RefreshOffers, EnqueueFirstPoll,
         ChainOffers, Repoll
<1>3. faults' \in {faults, faults + 1}
  BY <1>1, <1>2, Steps, Bounds
<1> QED
  BY <1>3, FailingQueue DEF Base, Types, RunsTyped, Crash, LoseLock

LEMMA InterruptedStays ==
  ASSUME Base, FaultsCount, [Next]_vars, NEW j \in Jobs \ PollJobs, Interrupted(j)
  PROVE  Interrupted(j)'
<1> USE DEF Base, Types, QueueTyped, RunsTyped
<1>1. faults \in Nat /\ faults' \in {faults, faults + 1}
  BY FaultsGrow
<1>2. attempts[j] \in Nat /\ stalls[j] \in Nat /\ ~IsPoll(j)
  BY DEF IsPoll
<1>3. CASE j = OfferJob /\ StockMoves /\ faults > 0
  BY <1>1, <1>3 DEF Interrupted
<1>4. CASE attempts[j] > 0 \/ stalls[j] > 0
  <2>1. CASE JobIsRenewed(j)
    BY <1>1, <1>3, <2>1 DEF JobIsRenewed, EnqueueOfferSync, FaultsCount
  <2>2. CASE ~JobIsRenewed(j)
    <3>1. attempts'[j] >= attempts[j] /\ stalls'[j] >= stalls[j]
      BY <1>2, <2>2, JobSteps DEF JobRests, JobIsAdded, JobStalls, JobIsTaken, JobFails, JobIsDone
    <3> QED
      BY <1>2, <1>4, <3>1, QueueTypes DEF Interrupted
  <2> QED
    BY <2>1, <2>2
<1>5. CASE job[j] = "active" /\ ~(holder[j] \in Workers /\ Running(holder[j], j))
  <2>1. CASE JobStalls(j)
    BY <1>2, <2>1 DEF JobStalls, Interrupted
  <2>2. CASE JobRests(j)
    <3>1. holder[j] \in Workers => ~Running(holder[j], j)'
      <4> SUFFICES ASSUME NEW h \in Workers, h = holder[j] PROVE ~Running(h, j)'
        BY <2>2 DEF JobRests
      <4>1. ~Running(h, j)
        BY <1>5
      <4>2. ~Start(h, j)
        BY <1>5 DEF Start, TakeJob
      <4>3. ASSUME NEW k \in Jobs, Start(h, k) PROVE cur'[h] = k
        BY <4>3 DEF Start
      <4> QED
        BY <4>1, <4>2, <4>3, RunSteps DEF RunGoesOn, RunEnds, Running
    <3> QED
      BY <1>5, <2>2, <3>1 DEF JobRests, Interrupted
  <2>3. \A w \in Workers : ~JobFails(j, w) /\ ~JobIsDone(j, w) /\ ~JobIsTaken(j, w)
    BY <1>5 DEF JobFails, JobIsDone, JobIsTaken
  <2> QED
    BY <1>5, <2>1, <2>2, <2>3, JobSteps DEF JobIsAdded, JobIsRenewed
<1> QED
  BY <1>3, <1>4, <1>5 DEF Interrupted


LEMMA StepFaultsCount ==
  ASSUME Base, FaultsCount, [Next]_vars
  PROVE  FaultsCount'
<1> USE DEF Base, Types, QueueTyped, RunsTyped
<1> SUFFICES ASSUME NEW j \in Jobs \ PollJobs, Interrupted(j)', faults' = 0
             PROVE  FALSE
  BY FaultsGrow DEF FaultsCount
<1>1. faults = 0 /\ (\A w \in Workers : ~Failing(w) /\ ~Crash(w)) /\ \A k \in Jobs : ~LoseLock(k)
  BY FaultsGrow
<1>2. ~Interrupted(j) /\ ~IsPoll(j)
  BY <1>1 DEF FaultsCount, IsPoll
<1>3. attempts[j] = 0 /\ stalls[j] = 0
  BY <1>2 DEF Interrupted
<1>4. CASE JobRests(j)
  <2>1. job[j] = "active" /\ job'[j] = "active" /\ holder'[j] = holder[j]
    BY <1>1, <1>3, <1>4 DEF Interrupted, JobRests
  <2>2. PICK h \in Workers : h = holder[j] /\ Running(h, j)
    BY <1>2, <2>1 DEF Interrupted
  <2>3. ~Complete(h)
    BY <1>2, <2>1, <2>2 DEF Complete, CompleteJob, Running
  <2>4. \A k \in Jobs : ~Start(h, k)
    BY <2>2 DEF Start, Running
  <2>5. Running(h, j)'
    BY <1>1, <2>2, <2>3, <2>4, RunSteps DEF RunGoesOn, RunEnds, Running
  <2> QED
    BY <1>3, <1>4, <2>1, <2>2, <2>5 DEF Interrupted, JobRests
<1>5. CASE JobIsAdded(j)
  BY <1>3, <1>5 DEF JobIsAdded, Interrupted
<1>6. CASE JobIsRenewed(j)
  <2>1. attempts'[j] = 0 /\ stalls'[j] = 0
    BY <1>3, <1>6 DEF JobIsRenewed, EnqueueOfferSync, RenewJob
  <2> QED
    BY <1>6, <2>1 DEF JobIsRenewed, Interrupted
<1>7. ASSUME NEW w \in Workers, JobIsTaken(j, w) PROVE FALSE
  <2>1. Running(w, j)'
    BY <1>2, <1>7 DEF JobIsTaken, Start, Running
  <2> QED
    BY <1>3, <1>7, <2>1 DEF JobIsTaken, Interrupted
<1>8. ASSUME NEW w \in Workers, JobIsDone(j, w) PROVE FALSE
  BY <1>2, <1>3, <1>8 DEF JobIsDone, Interrupted
<1>9. CASE JobStalls(j)
  BY <1>1, <1>2, <1>9 DEF JobStalls, RecoverStalled, Interrupted
<1> QED
  BY <1>1, <1>4, <1>5, <1>6, <1>7, <1>8, <1>9, JobSteps DEF JobFails

LEMMA StepLocksHold ==
  ASSUME Base, FaultsCount, LocksHold, [Next]_vars
  PROVE  LocksHold'
<1> USE DEF Base, Types, QueueTyped, RunsTyped
<1> SUFFICES ASSUME NEW w \in Workers, pc'[w] # "idle", ~IsPoll(cur'[w]), ~Holds(w, cur[w])'
             PROVE  Interrupted(cur[w])'
  BY DEF LocksHold, IsPoll
<1>1. ASSUME NEW j \in Jobs PROVE ~Start(w, j)
  BY DEF Start, TakeJob
<1>2. pc[w] # "idle" /\ cur'[w] = cur[w]
  BY <1>1, RunSteps DEF RunGoesOn, RunEnds
<1> DEFINE j == cur[w]
<1>3. j \in Jobs \ PollJobs /\ ~IsPoll(j)
  BY <1>2 DEF IsPoll
<1> HIDE DEF j
<1>4. CASE ~Holds(w, j)
  BY <1>2, <1>3, <1>4, InterruptedStays DEF LocksHold, j, Interrupted, Running
<1>5. CASE Holds(w, j)
  <2>1. ~JobRests(j)
    BY <1>2, <1>5 DEF JobRests, j
  <2>2. \A v \in Workers : ~JobFails(j, v) /\ ~JobIsDone(j, v) /\ ~JobIsTaken(j, v)
    BY <1>5, FailingQueue DEF JobFails, JobIsDone, JobIsTaken, Complete
  <2>3. JobStalls(j)
    BY <1>3, <1>5, <2>1, <2>2, JobSteps DEF JobIsAdded, JobIsRenewed
  <2> QED
    BY <1>2, <1>3, <2>3 DEF JobStalls, Interrupted, j
<1> QED
  BY <1>4, <1>5

NeverCompleted == \A j \in PollJobs : job[j] # "completed"

LEMMA StepNeverCompleted ==
  ASSUME Base, NeverCompleted, [Next]_vars
  PROVE  NeverCompleted'
<1> SUFFICES ASSUME NEW j \in PollJobs PROVE job'[j] # "completed"
  BY DEF NeverCompleted
<1>1. j \in Jobs /\ IsPoll(j) /\ job[j] # "completed"
  BY Bounds DEF NeverCompleted, IsPoll
<1> QED
  BY <1>1, JobSteps DEF JobRests, JobIsAdded, JobIsRenewed, JobStalls, JobIsTaken, JobFails, JobIsDone

-----------------------------------------------------------------------------
(* One row and one submission of each import                               *)

Submitting(w) == pc[w] \in {"map", "log", "poll"}

RowsAreOne ==
    /\ \A r, q \in DOMAIN log : log[r].of = log[q].of => r = q
    /\ \A w \in Workers : pc[w] \in {"map", "log"} => \A r \in DOMAIN log : log[r].of # imp[w]
    /\ \A v, w \in Workers : Submitting(v) /\ Submitting(w) /\ imp[v] = imp[w] => v = w
    /\ \A r \in DOMAIN log :
          log[r].kind = imports[log[r].of].kind /\ log[r].corr = imports[log[r].of].corr

(* The poll that the submission adds is the first of the import. *)
FirstPollFirst ==
    \A v \in Workers : Submitting(v) =>
        /\ \A j \in PollJobs : j.of = imp[v] => ~Known(j)
        /\ \A w \in Workers : IsPoll(cur[w]) => imp[w] # imp[v]

LEMMA SubmittingSteps ==
  ASSUME Base, [Next]_vars, NEW w \in Workers, Submitting(w)'
  PROVE  /\ ~IsPoll(cur[w])
         /\ \/ Submit(w)
            \/ /\ Submitting(w) /\ UNCHANGED <<imp[w], cur[w]>> /\ imp[w] \in DOMAIN imports
               /\ pc'[w] = pc[w] \/ UpsertMapping(w) \/ WriteLog(w)
<1> USE DEF Base, Types, RunsTyped, Submitting
<1>1. ASSUME NEW j \in Jobs PROVE ~Start(w, j)
  BY DEF Start
<1>2. RunGoesOn(w)
  BY <1>1, RunSteps DEF RunEnds
<1>3. \/ UNCHANGED <<pc[w], cur[w], imp[w]>>
      \/ Submit(w)
      \/ (UpsertMapping(w) \/ WriteLog(w)) /\ Submitting(w) /\ UNCHANGED <<imp[w], cur[w]>>
  <2>1. CASE UNCHANGED <<pc[w], imp[w]>>
    BY <1>2, <2>1 DEF RunGoesOn
  <2>2. CASE Adding(w)
    BY <2>2 DEF Adding, RefreshOffers, EnqueueFirstPoll, ChainOffers, Repoll
  <2>3. CASE Inside(w)
    BY <2>3 DEF Inside, NotImportable, NothingChanged, Ready, NoOffers, OffersReady,
         NoImportId, UpsertMapping, WriteLog, ReadPending, ReadTerminal, ReadReports, FindVariant, MarkVariant,
         FindPending, ResolveLog, FinishSyncJob, GiveUp
  <2> QED
    BY <1>2, <2>1, <2>2, <2>3 DEF RunGoesOn
<1>4. Submit(w) => pc[w] = "submit"
  BY DEF Submit
<1> QED
  BY <1>3, <1>4 DEF RunsKnown, PollPlaces

(* Of two runs one at most submits in a step. *)
LEMMA SubmitAlone ==
  ASSUME Base, [Next]_vars, NEW v \in Workers, NEW w \in Workers,
         Submit(w), Submitting(v)', v # w
  PROVE  Submitting(v) /\ UNCHANGED <<pc[v], imp[v]>> /\ imp[v] \in DOMAIN imports
<1>1. UNCHANGED <<pc[v], imp[v]>>
  BY OthersStay DEF Inside, Base
<1> QED
  BY <1>1 DEF Submitting, Base, RunsKnown, PollPlaces

LEMMA StepRowsAreOne ==
  ASSUME Base, RowsAreOne, [Next]_vars
  PROVE  RowsAreOne'
<1> USE DEF Base
<1>1. /\ \A i \in DOMAIN imports : i \in DOMAIN imports' /\ imports'[i] = imports[i]
      /\ \A r \in DOMAIN log : log[r] \in LogRow /\ log[r].of \in DOMAIN imports
  BY ImportsGrow DEF Types, RowsTyped, RowsKnown
<1>2. ASSUME NEW w \in Workers, WriteLog(w), NEW r \in DOMAIN log', r \notin DOMAIN log
      PROVE  log'[r].of = imp[w] /\ log'[r].kind = imports[imp[w]].kind /\ log'[r].corr = imports[imp[w]].corr
  <2>1. log'[r] = NewLog(w)
    BY <1>2, WriteLogRow
  <2>2. imports[imp[w]].kind = Kind(cur[w])
    BY <1>2 DEF WriteLog, RunsKnown, PollPlaces
  <2> QED
    BY <2>1, <2>2 DEF NewLog
<1>3. ASSUME NEW r \in DOMAIN log' 
      PROVE  \/ /\ r \in DOMAIN log /\ log'[r].of = log[r].of /\ log'[r].kind = log[r].kind
                /\ log'[r].corr = log[r].corr
             \/ r \notin DOMAIN log /\ \E w \in Workers : WriteLog(w)
  <2>1. ASSUME NEW i \in DOMAIN imports, NEW s \in Says, NEW d \in SUBSET Variants,
               NEW q \in DOMAIN log, Resolves(i, s, d, q)
        PROVE  /\ r \in DOMAIN log /\ log'[r].of = log[r].of /\ log'[r].kind = log[r].kind
               /\ log'[r].corr = log[r].corr
    BY <2>1, ResolvedRow
  <2>2. ASSUME NEW w \in Workers, WriteLog(w), r \in DOMAIN log PROVE log'[r] = log[r]
    BY <2>2, WriteLogRow
  <2> QED
    BY <2>1, <2>2, LogSteps
<1>4. \A r, q \in DOMAIN log' : log'[r].of = log'[q].of => r = q
  <2> SUFFICES ASSUME NEW r \in DOMAIN log', NEW q \in DOMAIN log', log'[r].of = log'[q].of PROVE r = q
    OBVIOUS
  <2>1. CASE r \in DOMAIN log /\ q \in DOMAIN log
    BY <1>3, <2>1 DEF RowsAreOne
  <2>2. CASE r \notin DOMAIN log \/ q \notin DOMAIN log
    <3>1. PICK w \in Workers : WriteLog(w)
      BY <1>3, <2>2
    <3>2. DOMAIN log' = DOMAIN log \cup {Len(log) + 1}
      BY <3>1, WriteLogRow
    <3>3. \A p \in DOMAIN log : log'[p].of # imp[w]
      BY <1>3, <3>1, <3>2 DEF WriteLog, RowsAreOne
    <3>4. \A p \in DOMAIN log' : p \notin DOMAIN log => log'[p].of = imp[w]
      BY <1>2, <3>1
    <3> QED
      BY <2>2, <3>2, <3>3, <3>4
  <2> QED
    BY <2>1, <2>2
<1>5. ASSUME NEW w \in Workers, pc'[w] \in {"map", "log"}, NEW r \in DOMAIN log' PROVE log'[r].of # imp'[w]
  <2>1. Submitting(w)'
    BY <1>5 DEF Submitting
  <2>2. CASE Submit(w)
    <3>1. imp'[w] = Len(imports) + 1 /\ Len(imports) + 1 \notin DOMAIN imports
      BY <2>2, SubmitImport DEF Types, RunsTyped
    <3> QED
      BY <1>1, <2>2, <3>1 DEF Submit
  <2>3. CASE ~Submit(w)
    <3>1. /\ Submitting(w) /\ imp'[w] = imp[w] /\ ~WriteLog(w)
          /\ pc'[w] = pc[w] \/ UpsertMapping(w)
      BY <1>5, <2>1, <2>3, SubmittingSteps DEF WriteLog, Types, RunsTyped
    <3>2. pc[w] \in {"map", "log"}
      BY <1>5, <3>1 DEF UpsertMapping
    <3>3. CASE r \in DOMAIN log
      BY <1>3, <3>1, <3>2, <3>3 DEF RowsAreOne
    <3>4. ASSUME NEW v \in Workers, WriteLog(v), r \notin DOMAIN log PROVE log'[r].of # imp'[w]
      <4>1. log'[r].of = imp[v] /\ v # w /\ Submitting(v)
        BY <1>2, <3>1, <3>4 DEF WriteLog, Submitting
      <4> QED
        BY <3>1, <4>1 DEF RowsAreOne
    <3> QED
      BY <1>3, <3>3, <3>4
  <2> QED
    BY <2>2, <2>3
<1>6. ASSUME NEW v \in Workers, NEW w \in Workers, Submitting(v)', Submitting(w)', imp'[v] = imp'[w]
      PROVE  v = w
  <2>1. ASSUME NEW a \in Workers, NEW b \in Workers, a # b, Submit(a), Submitting(b)'
        PROVE  imp'[a] # imp'[b]
    <3>1. imp'[a] = Len(imports) + 1 /\ Len(imports) + 1 \notin DOMAIN imports
      BY <2>1, SubmitImport DEF Types, RunsTyped
    <3> QED
      BY <2>1, <3>1, SubmitAlone
  <2>2. CASE Submit(v) \/ Submit(w)
    BY <1>6, <2>1, <2>2
  <2>3. CASE ~Submit(v) /\ ~Submit(w)
    BY <1>6, <2>3, SubmittingSteps DEF RowsAreOne
  <2> QED
    BY <2>2, <2>3
<1>7. ASSUME NEW r \in DOMAIN log'
      PROVE  log'[r].kind = imports'[log'[r].of].kind /\ log'[r].corr = imports'[log'[r].of].corr
  <2>1. CASE r \in DOMAIN log
    BY <1>1, <1>3, <2>1 DEF RowsAreOne
  <2>2. CASE r \notin DOMAIN log
    <3>1. PICK w \in Workers : WriteLog(w)
      BY <1>3, <2>2
    <3>2. imp[w] \in DOMAIN imports
      BY <3>1, WriteLogRow
    <3> QED
      BY <1>1, <1>2, <2>2, <3>1, <3>2
  <2> QED
    BY <2>1, <2>2
<1> QED
  BY <1>4, <1>5, <1>6, <1>7 DEF RowsAreOne, Submitting

(* Which steps add a poll, and of which import. *)
LEMMA PollIsAdded ==
  ASSUME Base, [Next]_vars, NEW j \in PollJobs, JobIsAdded(j)
  PROVE  \E w \in Workers :
            \/ EnqueueFirstPoll(w) /\ j = Poll(imp[w], 1)
            \/ Repoll(w) /\ j = Poll(imp[w], cur[w].n + 1) /\ IsPoll(cur[w])
<1> USE DEF Base, Types, QueueTyped
<1>1. j \in Jobs /\ IsPoll(j) /\ job[j] = "absent" /\ job'[j] = "waiting"
  BY Bounds DEF JobIsAdded, IsPoll
<1>2. ASSUME NEW k \in Jobs \ PollJobs PROVE ~AddJob(k)
  BY <1>1 DEF AddJob
<1>3. ASSUME NEW k \in ProductJobs \cup Requeues PROVE ~EnqueueProductSync(k) /\ ~RetryFailedSync(k)
  BY <1>2, Bounds DEF EnqueueProductSync, RetryFailedSync
<1>4. ~EnqueueOfferSync
  BY <1>1, Bounds DEF EnqueueOfferSync, RenewJob
<1>5. ASSUME NEW w \in Workers PROVE ~Failing(w) /\ ~Complete(w) /\ \A k \in Jobs : ~Start(w, k)
  BY <1>1, FailingQueue DEF FailJob, Complete, RemoveJob, CompleteJob, Start, TakeJob
<1>6. ASSUME NEW k \in Jobs PROVE ~RecoverStalled(k) /\ ~LoseLock(k)
  BY <1>1 DEF RecoverStalled, LoseLock, StallJob
<1>7. ASSUME NEW w \in Workers PROVE ~Inside(w) /\ ~Crash(w) /\ ~Beside
  BY <1>1, InsideQueue, BesideQueue DEF Crash
<1>8. PICK w \in Workers : Adding(w)
  <2>1. ~Beside
    BY <1>1, BesideQueue
  <2> QED
    BY <2>1, <1>3, <1>4, <1>5, <1>6, <1>7, Steps, Bounds
<1>9. \A k \in Jobs : AddJob(k) => j = k
  BY <1>1 DEF AddJob
<1>10. ~RefreshOffers(w) /\ ~ChainOffers(w)
  BY <1>2, Bounds DEF RefreshOffers, ChainOffers
<1>11. pc[w] \in {"repoll", "poll"} => imp[w] \in Imports
  BY ImportOf DEF RunsKnown, SubmitPlaces, PollPlaces
<1>12. CASE EnqueueFirstPoll(w)
  <2>1. AddJob(Poll(imp[w], 1)) /\ imp[w] \in Imports
    BY <1>11, <1>12 DEF EnqueueFirstPoll
  <2>2. Poll(imp[w], 1) \in Jobs
    BY <2>1, PollIsJob, Bounds
  <2>3. j = Poll(imp[w], 1)
    BY <1>9, <2>1, <2>2
  <2> QED
    BY <1>12, <2>3
<1>13. CASE Repoll(w)
  <2>1. IsPoll(cur[w]) /\ cur[w].n \in 1..MaxPolls
    BY <1>13, PollIsJob DEF Repoll, RunsKnown, SubmitPlaces, IsPoll
  <2>2. AddJob(Poll(imp[w], cur[w].n + 1)) /\ imp[w] \in Imports /\ cur[w].n + 1 \in 1..MaxPolls
    BY <1>11, <1>13, <2>1, Bounds DEF Repoll
  <2>3. Poll(imp[w], cur[w].n + 1) \in Jobs
    BY <2>2, PollIsJob, Bounds
  <2>4. j = Poll(imp[w], cur[w].n + 1)
    BY <1>9, <2>2, <2>3
  <2> QED
    BY <1>13, <2>1, <2>4
<1> QED
  BY <1>8, <1>10, <1>12, <1>13 DEF Adding

LEMMA StepFirstPollFirst ==
  ASSUME Base, RowsAreOne, FirstPollFirst, [Next]_vars
  PROVE  FirstPollFirst'
<1> USE DEF Base, Types, RunsTyped
<1>0. Base'
  BY StepBase
<1> SUFFICES ASSUME NEW v \in Workers, Submitting(v)'
             PROVE  /\ \A j \in PollJobs : j.of = imp'[v] => job'[j] = "absent"
                    /\ \A w \in Workers : IsPoll(cur'[w]) => imp'[w] # imp'[v]
  BY DEF FirstPollFirst, IsPoll
<1>1. CASE Submit(v)
  <2>1. imp'[v] = Len(imports) + 1 /\ Len(imports) + 1 \notin DOMAIN imports
    BY <1>1, SubmitImport
  <2>2. UNCHANGED <<job, cur>> /\ ~IsPoll(cur[v])
    BY <1>1, SubmittingSteps DEF Submit
  <2>3. \A w \in Workers \ {v} : imp'[w] = imp[w]
    BY <1>1, OthersStay DEF Inside
  <2> QED
    BY <2>1, <2>2, <2>3 DEF PollsKnown, RunsKnown, IsPoll
<1>2. CASE ~Submit(v)
  <2>1. Submitting(v) /\ imp'[v] = imp[v] /\ (pc'[v] = pc[v] \/ UpsertMapping(v) \/ WriteLog(v))
    BY <1>2, SubmittingSteps
  <2>2. ASSUME NEW j \in PollJobs, j.of = imp[v] PROVE job'[j] = "absent"
    <3>1. j \in Jobs /\ job[j] = "absent"
      BY <2>1, <2>2, Bounds DEF FirstPollFirst
    <3>2. ~JobIsAdded(j)
      <4> SUFFICES ASSUME JobIsAdded(j) PROVE FALSE
        OBVIOUS
      <4>1. PICK w \in Workers : \/ EnqueueFirstPoll(w) /\ j = Poll(imp[w], 1)
                                 \/ Repoll(w) /\ j = Poll(imp[w], cur[w].n + 1) /\ IsPoll(cur[w])
        BY PollIsAdded
      <4>2. imp[w] = imp[v]
        BY <2>2, <4>1 DEF Poll
      <4>3. ~Repoll(w)
        BY <2>1, <4>1, <4>2 DEF FirstPollFirst, Repoll, RunsKnown, SubmitPlaces
      <4>4. w = v
        BY <2>1, <4>1, <4>2, <4>3 DEF RowsAreOne, EnqueueFirstPoll, Submitting
      <4> QED
        BY <2>1, <4>1, <4>3, <4>4 DEF EnqueueFirstPoll, Submitting
    <3> QED
      BY <3>1, <3>2, Bounds, JobSteps DEF JobRests, JobIsRenewed, JobStalls, JobIsTaken, JobFails, JobIsDone
  <2>3. ASSUME NEW w \in Workers, IsPoll(cur'[w]) PROVE imp'[w] # imp[v]
    <3>1. imp'[w] = cur'[w].of
      BY <1>0, <2>3 DEF RunsKnown, IsPoll
    <3>2. CASE cur'[w] = cur[w]
      BY <2>1, <2>3, <3>1, <3>2 DEF FirstPollFirst, RunsKnown, IsPoll
    <3>3. ASSUME NEW j \in Jobs, Start(w, j) PROVE imp'[w] # imp[v]
      BY <2>1, <2>3, <3>1, <3>3 DEF FirstPollFirst, Start, TakeJob, IsPoll
    <3>4. ~RunEnds(w)
      <4>1. OfferJob \notin PollJobs
        BY Bounds
      <4> QED
        BY <2>3, <4>1, FailingQueue DEF RunEnds, IsPoll, Complete, Crash
    <3> QED
      BY <3>2, <3>3, <3>4, RunSteps DEF RunGoesOn
  <2> QED
    BY <2>1, <2>2, <2>3
<1> QED
  BY <1>1, <1>2

-----------------------------------------------------------------------------
(* The correlation ids of offer imports                                    *)

(* An offer import is the offer job's; its id is its own, or the one drawn *)
(* by an unchanged product sync, or a product import's.                    *)
OfferCorrelations ==
    /\ \A j \in Jobs \ PollJobs :
          (\E w \in Workers : Running(w, j)) \/ (\E i \in DOMAIN imports : imports[i].by = j) => Known(j)
    /\ \A i \in DOMAIN imports :
          /\ imports[i].by \in Jobs \ PollJobs
          /\ imports[i].kind = "offer" =>
                /\ imports[i].by = OfferJob
                /\ \/ imports[i].corr \in {i, Unchanged}
                   \/ imports[i].corr \in DOMAIN imports /\ imports[imports[i].corr].kind = "product"
    /\ \/ offerCorr \in {NoCorrelation, Unchanged}
       \/ offerCorr \in DOMAIN imports /\ imports[offerCorr].kind = "product"

LEMMA OfferCorrSteps ==
  ASSUME Base, ProductCorrelations, [Next]_vars
  PROVE  \/ UNCHANGED offerCorr
         \/ EnqueueOfferSync /\ offerCorr' = NoCorrelation
         \/ /\ UNCHANGED imports /\ ~Known(OfferJob)
            /\ \/ offerCorr' = Unchanged
               \/ offerCorr' \in DOMAIN imports /\ imports[offerCorr'].kind = "product"
<1> USE DEF Base
<1>1. CASE \/ EnqueueOfferSync \/ Beside
           \/ \E j \in Jobs : EnqueueProductSync(j) \/ RetryFailedSync(j) \/ RecoverStalled(j) \/ LoseLock(j)
  BY <1>1 DEF EnqueueOfferSync, EnqueueProductSync, RetryFailedSync, RecoverStalled, LoseLock, Beside,
       Transform, Integrate, HandlerStep, HandlerFinds, HandlerResolves, HandlerFinishes, HandlerFails, Handle, vars
<1>2. ASSUME NEW w \in Workers, Failing(w) \/ Complete(w) \/ Crash(w) \/ \E j \in Jobs : Start(w, j)
      PROVE  UNCHANGED offerCorr
  BY <1>2, FailingQueue DEF Complete, Crash, Start
<1>3. ASSUME NEW w \in Workers, Adding(w)
      PROVE  \/ UNCHANGED offerCorr
             \/ /\ UNCHANGED imports /\ ~Known(OfferJob)
                /\ \/ offerCorr' = Unchanged
                   \/ offerCorr' \in DOMAIN imports /\ imports[offerCorr'].kind = "product"
  <2>1. CASE ChainOffers(w)
    <3>1. imp[w] \in DOMAIN imports /\ imports[imp[w]].kind = "product"
      BY <2>1 DEF ChainOffers, Publishes, RunsKnown, SubmitPlaces
    <3>2. imports[imp[w]].corr = imp[w]
      BY <3>1 DEF ProductCorrelations
    <3> QED
      BY <2>1, <3>1, <3>2 DEF ChainOffers
  <2>2. CASE RefreshOffers(w) \/ EnqueueFirstPoll(w) \/ Repoll(w)
    BY <2>2 DEF RefreshOffers, EnqueueFirstPoll, Repoll
  <2> QED
    BY <1>3, <2>1, <2>2 DEF Adding
<1>4. ASSUME NEW w \in Workers, Inside(w) PROVE UNCHANGED offerCorr
  BY <1>4 DEF Inside, NotImportable, NothingChanged, Ready, NoOffers, OffersReady, Submit,
         NoImportId, UpsertMapping, WriteLog, ReadPending, ReadTerminal, ReadReports, FindVariant, MarkVariant,
         FindPending, ResolveLog, FinishSyncJob, GiveUp
<1> QED
  BY <1>1, <1>2, <1>3, <1>4, Steps, Bounds

(* Kinds and jobs: only the offer job submits an offer import. *)
LEMMA Submitted ==
  ASSUME Base, ProductCorrelations, OfferCorrelations, NEW w \in Workers, Submit(w)
  PROVE  LET n == Len(imports) + 1 IN
         /\ n \in DOMAIN imports' /\ n \notin DOMAIN imports /\ n # Unchanged /\ n # NoCorrelation
         /\ DOMAIN imports' = DOMAIN imports \cup {n}
         /\ imports'[n].by = cur[w] /\ cur[w] \in Jobs \ PollJobs /\ Running(w, cur[w])
         /\ imports'[n].kind = "offer" =>
               /\ cur[w] = OfferJob /\ pc'[w] = "log"
               /\ IF offerCorr = NoCorrelation THEN imports'[n].corr = n
                                               ELSE imports'[n].corr = offerCorr
<1> USE DEF Base, Types, RunsTyped
<1>1. /\ imports'[Len(imports) + 1] = NewImport(w) /\ DOMAIN imports' = 1..(Len(imports) + 1)
      /\ DOMAIN imports = 1..Len(imports) /\ Len(imports) + 1 <= MaxImports /\ Len(imports) \in Nat
  BY SubmitImport
<1>2. pc[w] = "submit" /\ pc'[w] = (IF IsProduct(cur[w]) THEN "map" ELSE "log")
  BY DEF Submit
<1>3. cur[w] \in Jobs \ PollJobs
  BY <1>2 DEF RunsKnown, PollPlaces, IsPoll
<1>4. ~IsProduct(cur[w]) => cur[w] = OfferJob
  BY <1>3, Bounds DEF IsProduct
<1>5. NewImport(w).by = cur[w] /\ NewImport(w).kind = Kind(cur[w])
      /\ NewImport(w).corr = Correlation(cur[w], Len(imports) + 1)
  BY DEF NewImport
<1> HIDE DEF NewImport
<1>6. Kind(cur[w]) = "offer" => ~IsProduct(cur[w])
  BY DEF Kind
<1> QED
  BY <1>1, <1>2, <1>3, <1>4, <1>5, <1>6, Bounds DEF Correlation, Running

LEMMA StepOfferCorrelations ==
  ASSUME Base, ProductCorrelations, OfferCorrelations, [Next]_vars
  PROVE  OfferCorrelations'
<1> USE DEF Base
<1>1. \A i \in DOMAIN imports : i \in DOMAIN imports' /\ imports'[i] = imports[i]
  BY ImportsGrow
<1>2. ASSUME NEW j \in Jobs \ PollJobs, Known(j) PROVE Known(j)'
  <2>1. ~IsPoll(j)
    BY DEF IsPoll
  <2> QED
    BY <1>2, <2>1, JobSteps DEF JobRests, JobIsAdded, JobIsRenewed, JobStalls, JobIsTaken, JobFails, JobIsDone
<1>3. ASSUME NEW j \in Jobs \ PollJobs, NEW w \in Workers, Running(w, j)' PROVE Known(j)'
  <2>1. CASE Running(w, j)
    BY <1>2, <2>1 DEF OfferCorrelations
  <2>2. ASSUME NEW k \in Jobs, Start(w, k) PROVE Known(j)'
    <3>1. cur' = [cur EXCEPT ![w] = k] /\ job' = [job EXCEPT ![k] = "active"]
      BY <2>2 DEF Start, TakeJob
    <3> QED
      BY <1>3, <3>1 DEF Types, RunsTyped, QueueTyped, Running
  <2>3. RunGoesOn(w) => Running(w, j)
    BY <1>3 DEF RunGoesOn, Running
  <2> QED
    BY <1>3, <2>1, <2>2, <2>3, RunSteps DEF RunEnds, Running
<1>4. ASSUME NEW j \in Jobs \ PollJobs, NEW i \in DOMAIN imports', imports'[i].by = j PROVE Known(j)'
  <2>1. CASE i \in DOMAIN imports
    BY <1>1, <1>2, <1>4, <2>1 DEF OfferCorrelations
  <2>2. ASSUME NEW w \in Workers, Submit(w), i \notin DOMAIN imports PROVE Known(j)'
    BY <1>2, <1>4, <2>2, Submitted DEF OfferCorrelations
  <2> QED
    BY <1>4, <2>1, <2>2, ImportsGrow
<1>5. ASSUME NEW i \in DOMAIN imports'
      PROVE  /\ imports'[i].by \in Jobs \ PollJobs
             /\ imports'[i].kind = "offer" =>
                /\ imports'[i].by = OfferJob
                /\ \/ imports'[i].corr \in {i, Unchanged}
                   \/ imports'[i].corr \in DOMAIN imports' /\ imports'[imports'[i].corr].kind = "product"
  <2>1. CASE i \in DOMAIN imports
    BY <1>1, <2>1 DEF OfferCorrelations
  <2>2. ASSUME NEW w \in Workers, Submit(w), i \notin DOMAIN imports
        PROVE  /\ imports'[i].by \in Jobs \ PollJobs
               /\ imports'[i].kind = "offer" =>
                    /\ imports'[i].by = OfferJob
                    /\ \/ imports'[i].corr \in {i, Unchanged}
                       \/ imports'[i].corr \in DOMAIN imports' /\ imports'[imports'[i].corr].kind = "product"
    <3>1. i = Len(imports) + 1
      BY <1>5, <2>2, Submitted
    <3> QED
      BY <1>1, <2>2, <3>1, Submitted DEF OfferCorrelations
  <2> QED
    BY <1>5, <2>1, <2>2, ImportsGrow
<1>6. \/ offerCorr' \in {NoCorrelation, Unchanged}
      \/ offerCorr' \in DOMAIN imports' /\ imports'[offerCorr'].kind = "product"
  BY <1>1, OfferCorrSteps DEF OfferCorrelations
<1> QED
  BY <1>3, <1>4, <1>5, <1>6 DEF OfferCorrelations, Known, Running, NoCorrelation, Unchanged

(* The present id of the offer job has been used: the job has to be        *)
(* interrupted before another import can be submitted under it.            *)
Spent ==
    \/ Interrupted(OfferJob) \/ Ended(OfferJob)
    \/ \E w \in Workers : Holds(w, OfferJob) /\ cur[w] = OfferJob /\ pc[w] \in {"log", "poll", "done"}

SharedMeansRetried ==
    /\ \A i, k \in DOMAIN imports :
           i # k /\ imports[i].kind = "offer" /\ imports[k].kind = "offer"
             /\ imports[i].corr = imports[k].corr => Interrupted(OfferJob)
    /\ \A i \in DOMAIN imports :
           imports[i].kind = "offer" /\ imports[i].corr = offerCorr => Spent

LEMMA OfferJobIsJob == OfferJob \in Jobs \ PollJobs /\ ~IsPoll(OfferJob)
  BY Bounds DEF IsPoll

LEMMA SpentStays ==
  ASSUME Base, FaultsCount, LocksHold, [Next]_vars, ~EnqueueOfferSync, Spent
  PROVE  Spent'
<1> USE DEF Base, Types, QueueTyped, RunsTyped
<1> USE OfferJobIsJob
<1>1. CASE Interrupted(OfferJob)
  BY <1>1, InterruptedStays DEF Spent
<1>2. CASE Ended(OfferJob)
  <2>1. JobRests(OfferJob)
    BY <1>2, JobSteps DEF JobIsAdded, JobIsRenewed, JobStalls, JobIsTaken, JobFails, JobIsDone
  <2> QED
    BY <1>2, <2>1 DEF JobRests, Spent
<1>3. ASSUME NEW w \in Workers, Holds(w, OfferJob), cur[w] = OfferJob, pc[w] \in {"log", "poll", "done"}
      PROVE  Spent'
  <2>1. CASE JobRests(OfferJob)
    <3>1. Holds(w, OfferJob)'
      BY <1>3, <2>1 DEF JobRests
    <3>2. CASE RunGoesOn(w)
      <4>1. pc'[w] \in {"log", "poll", "done"}
        <5>1. CASE UNCHANGED <<pc[w], imp[w]>>
          BY <1>3, <5>1
        <5>2. CASE Adding(w)
          BY <5>2 DEF Adding, RefreshOffers, EnqueueFirstPoll, ChainOffers, Repoll
        <5>3. CASE Inside(w)
          BY <1>3, <5>3 DEF Inside, NotImportable, NothingChanged, Ready, NoOffers, OffersReady, Submit,
             NoImportId, UpsertMapping, WriteLog, ReadPending, ReadTerminal, ReadReports, FindVariant, MarkVariant,
             FindPending, ResolveLog, FinishSyncJob, GiveUp, Preparing
        <5> QED
          BY <3>2, <5>1, <5>2, <5>3 DEF RunGoesOn
      <4> QED
        BY <1>3, <3>1, <3>2, <4>1 DEF Spent, RunGoesOn
    <3>3. CASE RunEnds(w)
      <4>1. ~Complete(w)
        BY <1>3, <2>1 DEF Complete, CompleteJob, JobRests
      <4>2. ~Failing(w)
        BY <1>3, <2>1, FailingQueue DEF FailJob, JobRests
      <4>3. Crash(w) /\ pc'[w] = "idle"
        BY <3>3, <4>1, <4>2 DEF RunEnds
      <4> QED
        BY <3>1, <4>3 DEF Spent, Interrupted, Running
    <3>4. \A j \in Jobs : ~Start(w, j)
      BY <1>3 DEF Start
    <3> QED
      BY <3>2, <3>3, <3>4, RunSteps
  <2>2. ASSUME NEW u \in Workers, JobFails(OfferJob, u) PROVE Spent'
    BY <2>2 DEF JobFails, Spent, Interrupted
  <2>3. ASSUME NEW u \in Workers, JobIsDone(OfferJob, u) PROVE Spent'
    BY <2>3 DEF JobIsDone, Spent
  <2>4. CASE JobStalls(OfferJob)
    BY <2>4 DEF JobStalls, Spent, Interrupted
  <2> QED
    BY <1>3, <2>1, <2>2, <2>3, <2>4, JobSteps DEF JobIsAdded, JobIsRenewed, JobIsTaken
<1> QED
  BY <1>1, <1>2, <1>3 DEF Spent

LEMMA StepSharedMeansRetried ==
  ASSUME Base, FaultsCount, LocksHold, ProductCorrelations, OfferCorrelations, SharedMeansRetried, [Next]_vars
  PROVE  SharedMeansRetried'
<1> USE DEF Base
<1> USE OfferJobIsJob
<1> DEFINE Offer(i) == imports[i].kind = "offer"
<1>1. /\ \A i \in DOMAIN imports : i \in DOMAIN imports' /\ imports'[i] = imports[i] /\ imports[i].corr # NoCorrelation
      /\ Interrupted(OfferJob) => Interrupted(OfferJob)'
  BY ImportsGrow, InterruptedStays, ImportOf, Bounds
<1>2. ASSUME NEW w \in Workers, Submit(w), cur[w] = OfferJob, Spent PROVE Interrupted(OfferJob)
  <2>1. pc[w] = "submit"
    BY <1>2 DEF Submit
  <2>2. CASE Holds(w, OfferJob)
    BY <1>2, <2>1, <2>2 DEF Spent
  <2>3. CASE ~Holds(w, OfferJob)
    BY <1>2, <2>1, <2>3 DEF LocksHold
  <2> QED
    BY <2>2, <2>3
<1>3. ASSUME NEW i \in DOMAIN imports', NEW k \in DOMAIN imports', i # k, Offer(i)', Offer(k)',
             imports'[i].corr = imports'[k].corr
      PROVE  Interrupted(OfferJob)'
  <2>1. CASE i \in DOMAIN imports /\ k \in DOMAIN imports
    BY <1>1, <1>3, <2>1 DEF SharedMeansRetried
  <2>2. ASSUME NEW w \in Workers, Submit(w), NEW new \in DOMAIN imports', NEW old \in DOMAIN imports,
               new \notin DOMAIN imports, Offer(old)', Offer(new)', imports'[new].corr = imports'[old].corr
        PROVE  Interrupted(OfferJob)'
    <3>1. /\ new = Len(imports) + 1 /\ cur[w] = OfferJob /\ new # Unchanged
          /\ IF offerCorr = NoCorrelation THEN imports'[new].corr = new ELSE imports'[new].corr = offerCorr
      BY <2>2, Submitted
    <3>2. imports[old].corr # new
      BY <1>1, <2>2, <3>1 DEF OfferCorrelations
    <3>3. Spent
      BY <1>1, <2>2, <3>1, <3>2 DEF SharedMeansRetried
    <3> QED
      BY <1>1, <1>2, <2>2, <3>1, <3>3
  <2>3. CASE ~(i \in DOMAIN imports /\ k \in DOMAIN imports)
    <3>1. PICK w \in Workers : Submit(w)
      BY <1>3, <2>3, ImportsGrow
    <3>2. \A n \in DOMAIN imports' : n \in DOMAIN imports \/ n = Len(imports) + 1
      BY <3>1, Submitted
    <3> QED
      BY <1>3, <2>2, <2>3, <3>1, <3>2
  <2> QED
    BY <2>1, <2>3
<1>4. ASSUME NEW i \in DOMAIN imports', Offer(i)', imports'[i].corr = offerCorr' PROVE Spent'
  <2>1. CASE i \in DOMAIN imports
    <3>1. Offer(i) /\ imports[i].corr = offerCorr' /\ offerCorr' # NoCorrelation
      BY <1>1, <1>4, <2>1
    <3>2. Known(OfferJob)
      BY <2>1, <3>1 DEF OfferCorrelations
    <3>3. UNCHANGED offerCorr /\ ~EnqueueOfferSync
      BY <3>1, <3>2, OfferCorrSteps DEF EnqueueOfferSync
    <3> QED
      BY <2>1, <3>1, <3>3, SpentStays DEF SharedMeansRetried
  <2>2. CASE i \notin DOMAIN imports
    <3>1. PICK w \in Workers : Submit(w)
      BY <1>4, <2>2, ImportsGrow
    <3>2. cur[w] = OfferJob /\ pc'[w] = "log"
      BY <1>4, <2>2, <3>1, Submitted
    <3>3. UNCHANGED queueVars /\ cur' = cur /\ pc[w] # "idle"
      BY <3>1 DEF Submit
    <3>4. CASE Holds(w, OfferJob)
      BY <3>2, <3>3, <3>4 DEF Spent
    <3>5. CASE ~Holds(w, OfferJob)
      BY <1>1, <3>2, <3>3, <3>5 DEF LocksHold, Spent
    <3> QED
      BY <3>4, <3>5
  <2> QED
    BY <2>1, <2>2
<1> QED
  BY <1>3, <1>4 DEF SharedMeansRetried

-----------------------------------------------------------------------------
(* The poll chain                                                          *)

Settled(i) == ~Waiting(i) \/ Abandoned(i)

Past(w) == pc[w] \in {"finish", "after", "done"}

(* Poll j has still to decide whether it ends the chain or goes on. *)
Coming(j) ==
    \/ job[j] = "waiting"
    \/ job[j] = "active" /\ ~(holder[j] \in Workers /\ Running(holder[j], j) /\ Past(holder[j]))

(* Somebody still works on import i, and a poll that has decided was not   *)
(* the last of a chain that goes on; a run that found no row has none to   *)
(* resolve.                                                                *)
ChainGoesOn ==
    /\ \A i \in DOMAIN imports :
          \/ Settled(i)
          \/ \E w \in Workers : Submitting(w) /\ imp[w] = i
          \/ \E n \in 1..MaxPolls : Coming(Poll(i, n))
    /\ \A w \in Workers :
          IsPoll(cur[w]) /\ Past(w) =>
             Settled(imp[w]) \/ \E n \in 1..MaxPolls : n > cur[w].n /\ Coming(Poll(imp[w], n))
    /\ \A w \in Workers : pc[w] = "resolve" /\ found[w] = 0 => Settled(imp[w])

Sound ==
    /\ Base /\ ProductCorrelations /\ FaultsCount /\ LocksHold /\ NeverCompleted
    /\ RowsAreOne /\ FirstPollFirst /\ OfferCorrelations /\ SharedMeansRetried

LEMMA InitSound == Init => Sound
<1> SUFFICES ASSUME Init PROVE Sound
  OBVIOUS
<1>1. Base /\ ProductCorrelations
  BY InitBase, InitCorrelations
<1>2. /\ job = [j \in Jobs |-> "absent"] /\ attempts = [j \in Jobs |-> 0] /\ stalls = [j \in Jobs |-> 0]
      /\ faults = 0 /\ pc = [w \in Workers |-> "idle"] /\ imports = <<>> /\ log = <<>>
      /\ offerCorr = NoCorrelation /\ DOMAIN imports = {} /\ DOMAIN log = {}
  BY DEF Init, QueueInit
<1>3. FaultsCount /\ LocksHold /\ NeverCompleted
  BY <1>2, Bounds DEF FaultsCount, LocksHold, NeverCompleted, Interrupted
<1>4. RowsAreOne /\ FirstPollFirst
  BY <1>2 DEF RowsAreOne, FirstPollFirst, Submitting
<1>5. OfferCorrelations /\ SharedMeansRetried
  BY <1>2 DEF OfferCorrelations, SharedMeansRetried, Running
<1> QED
  BY <1>1, <1>3, <1>4, <1>5 DEF Sound

LEMMA StepSound == ASSUME Sound, [Next]_vars PROVE Sound'
  BY StepBase, StepCorrelations, StepFaultsCount, StepLocksHold, StepNeverCompleted, StepRowsAreOne,
     StepFirstPollFirst, StepOfferCorrelations, StepSharedMeansRetried DEF Sound

LEMMA AbandonedStays ==
  ASSUME Sound, [Next]_vars, NEW i \in DOMAIN imports, Abandoned(i)
  PROVE  Abandoned(i)'
<1> USE DEF Sound
<1>1. imports'[i] = imports[i] /\ imports[i].by \in Jobs \ PollJobs
  BY ImportsGrow DEF Base, OfferCorrelations
<1>2. CASE Interrupted(imports[i].by)
  BY <1>1, <1>2, InterruptedStays DEF Abandoned, Interrupted, Running
<1>3. ASSUME NEW j \in PollJobs, j.of = i, job[j] = "failed" PROVE Abandoned(i)'
  <2>1. j \in Jobs /\ j # OfferJob
    BY Bounds
  <2>2. job'[j] = "failed"
    BY <1>3, <2>1, JobSteps DEF JobRests, JobIsAdded, JobIsRenewed, JobStalls, JobIsTaken, JobFails, JobIsDone
  <2> QED
    BY <1>3, <2>2 DEF Abandoned
<1> QED
  BY <1>2, <1>3 DEF Abandoned

LEMMA WaitingSteps ==
  ASSUME Base, [Next]_vars, NEW i \in DOMAIN imports, Waiting(i)'
  PROVE  \/ Waiting(i)
         \/ \E w \in Workers : WriteLog(w) /\ imp[w] = i
<1> USE DEF Base
<1>1. PICK r \in DOMAIN log' : log'[r].of = i /\ log'[r].says = "PROCESSING"
  BY DEF Waiting, Row
<1>2. CASE r \in DOMAIN log /\ log'[r] = log[r]
  BY <1>1, <1>2 DEF Waiting, Row
<1>3. ASSUME NEW w \in Workers, WriteLog(w), ~(r \in DOMAIN log /\ log'[r] = log[r])
      PROVE  imp[w] = i
  <2>1. log'[r] = NewLog(w)
    BY <1>1, <1>3, WriteLogRow
  <2> QED
    BY <1>1, <2>1 DEF NewLog
<1>4. ASSUME NEW k \in DOMAIN imports, NEW s \in Says, NEW d \in SUBSET Variants,
             NEW q \in DOMAIN log, Resolves(k, s, d, q)
      PROVE  r \in DOMAIN log /\ log'[r] = log[r]
  <2>1. r \in DOMAIN log /\ IF r = q THEN log'[r].says = s ELSE log'[r] = log[r]
    BY <1>1, <1>4, ResolvedRow
  <2> QED
    BY <1>1, <2>1 DEF Says
<1> QED
  BY <1>1, <1>2, <1>3, <1>4, LogSteps

LEMMA SettledStays ==
  ASSUME Sound, [Next]_vars, NEW i \in DOMAIN imports, Settled(i)
  PROVE  Settled(i)' \/ \E w \in Workers : WriteLog(w) /\ imp[w] = i
<1>1. Base
  BY DEF Sound
<1>2. CASE Abandoned(i)
  BY <1>2, AbandonedStays DEF Settled
<1>3. CASE ~Waiting(i)
  BY <1>1, <1>3, WaitingSteps DEF Settled
<1> QED
  BY <1>2, <1>3 DEF Settled

(* Resolving for an import resolves its row; or it takes the row of        *)
(* another import, under an id that only an interrupted job draws twice.   *)
LEMMA ResolveSettles ==
  ASSUME Sound, [Next]_vars, NEW i \in DOMAIN imports, NEW s \in Says, NEW d \in SUBSET Variants,
         NEW r \in DOMAIN log, Resolves(i, s, d, r)
  PROVE  Settled(i)'
<1> USE DEF Sound, Base
<1> SUFFICES ASSUME Waiting(i)' PROVE Abandoned(i)'
  BY DEF Settled
<1>1. PICK q \in DOMAIN log' : log'[q].of = i /\ log'[q].says = "PROCESSING"
  BY DEF Waiting, Row
<1>2. q \in DOMAIN log /\ q # r /\ log'[q] = log[q]
  BY <1>1, ResolvedRow DEF Says
<1>3. log[r].kind = imports[i].kind /\ log[r].corr = imports[i].corr
  BY DEF Resolves, Matches
<1> DEFINE k == log[r].of
<1>4. /\ k \in DOMAIN imports /\ k # i
      /\ imports[k].kind = imports[i].kind /\ imports[k].corr = imports[i].corr
  BY <1>1, <1>2, <1>3 DEF RowsAreOne, RowsKnown
<1> HIDE DEF k
<1>5. imports[i].kind = "offer"
  BY <1>4, ImportOf DEF ProductCorrelations
<1>6. Interrupted(OfferJob) /\ imports[i].by = OfferJob
  BY <1>4, <1>5 DEF SharedMeansRetried, OfferCorrelations
<1> QED
  BY <1>6, AbandonedStays DEF Abandoned

(* A poll decides in this step whether it ends the chain. *)
Decides(w) == IsPoll(cur[w]) /\ (ResolveLog(w) \/ Repoll(w))

LEMMA PastSteps ==
  ASSUME Base, [Next]_vars, NEW w \in Workers, IsPoll(cur'[w]), Past(w)'
  PROVE  UNCHANGED <<cur[w], imp[w]>> /\ pc[w] # "idle" /\ (Past(w) \/ Decides(w))
<1> USE DEF Base, Types, RunsTyped
<1>1. \A j \in Jobs : ~Start(w, j)
  BY DEF Start, Past
<1>2. RunGoesOn(w)
  BY <1>1, RunSteps DEF RunEnds, Past
<1>3. cur'[w] = cur[w] /\ pc[w] # "idle" /\ IsPoll(cur[w])
  BY <1>2 DEF RunGoesOn, Past, IsPoll
<1>4. imp'[w] = imp[w]
  BY <1>3, StepBase DEF RunsKnown, IsPoll
<1>5. pc[w] \in PollPlaces
  BY <1>3 DEF RunsKnown
<1>6. CASE UNCHANGED <<pc[w], imp[w]>>
  BY <1>3, <1>6 DEF Past
<1>7. CASE Adding(w)
  BY <1>3, <1>4, <1>5, <1>7 DEF Adding, RefreshOffers, EnqueueFirstPoll, ChainOffers, PollPlaces, Past, Decides
<1>8. CASE Inside(w)
  BY <1>3, <1>4, <1>5, <1>8 DEF Inside, NotImportable, NothingChanged, Ready, NoOffers, OffersReady, Submit,
         NoImportId, UpsertMapping, WriteLog, ReadPending, ReadTerminal, ReadReports, FindVariant, MarkVariant,
         FindPending, ResolveLog, FinishSyncJob, GiveUp, Preparing, PollPlaces, Past, Decides
<1> QED
  BY <1>2, <1>6, <1>7, <1>8 DEF RunGoesOn

LEMMA ComingSteps ==
  ASSUME Sound, [Next]_vars, NEW j \in PollJobs, Coming(j)
  PROVE  \/ Coming(j)' \/ job'[j] = "failed"
         \/ \E w \in Workers : cur[w] = j /\ Decides(w)
<1> USE DEF Sound, Base, Types, QueueTyped
<1>1. j \in Jobs /\ IsPoll(j) /\ j # OfferJob
  BY Bounds DEF IsPoll
<1>2. CASE JobRests(j)
  <2> SUFFICES ASSUME ~Coming(j)' PROVE \E w \in Workers : cur[w] = j /\ Decides(w)
    OBVIOUS
  <2>1. /\ job[j] = "active" /\ job'[j] = "active" /\ holder'[j] = holder[j]
        /\ holder[j] \in Workers /\ (Running(holder[j], j) /\ Past(holder[j]))'
    BY <1>2 DEF Coming, JobRests
  <2>2. PICK h \in Workers : h = holder[j]
    BY <2>1
  <2>3. Running(h, j)' /\ Past(h)'
    BY <2>1, <2>2
  <2>4. cur[h] = j /\ pc[h] # "idle" /\ (Past(h) \/ Decides(h))
    BY <1>1, <2>3, PastSteps DEF Running
  <2>5. ~Past(h)
    BY <2>1, <2>2, <2>4 DEF Coming, Running
  <2> QED
    BY <2>4, <2>5
<1>3. CASE JobIsAdded(j)
  BY <1>3 DEF JobIsAdded, Coming
<1>4. ASSUME NEW w \in Workers, JobIsTaken(j, w) PROVE Coming(j)'
  <2>1. pc'[w] = "status"
    BY <1>1, <1>4 DEF JobIsTaken, Start, Types, RunsTyped
  <2> QED
    BY <1>4, <2>1 DEF JobIsTaken, Coming, Past
<1>5. ASSUME NEW w \in Workers, JobFails(j, w) PROVE Coming(j)' \/ job'[j] = "failed"
  BY <1>5 DEF JobFails, Coming
<1>6. ASSUME NEW w \in Workers, JobIsDone(j, w) PROVE FALSE
  BY <1>6 DEF JobIsDone, Complete, Past, Coming
<1>7. CASE JobStalls(j)
  BY <1>7 DEF JobStalls, Coming
<1> QED
  BY <1>1, <1>2, <1>3, <1>4, <1>5, <1>6, <1>7, JobSteps DEF JobIsRenewed

FailedIsAbandoned(i) == \A n \in 1..MaxPolls : job[Poll(i, n)] = "failed" => Abandoned(i)

LEMMA FailedPolls ==
  ASSUME NEW i \in Imports
  PROVE  FailedIsAbandoned(i) /\ FailedIsAbandoned(i)'
<1>1. \A n \in 1..MaxPolls : Poll(i, n) \in PollJobs /\ Poll(i, n).of = i
  BY PollIsJob
<1> HIDE DEF Poll
<1>2. FailedIsAbandoned(i)
  BY <1>1 DEF FailedIsAbandoned, Abandoned
<1>3. FailedIsAbandoned(i)'
  BY <1>1 DEF FailedIsAbandoned, Abandoned
<1> QED
  BY <1>2, <1>3

(* Of a poll of import i nobody writes the first row any more. *)
LEMMA PolledIsLogged ==
  ASSUME Sound, NEW w \in Workers, IsPoll(cur[w]), NEW v \in Workers, WriteLog(v)
  PROVE  imp[v] # imp[w]
  BY DEF Sound, FirstPollFirst, WriteLog, Submitting

GoesOn(i, n) == \E m \in 1..MaxPolls : m > n /\ Coming(Poll(i, m))

(* A poll that decides settles its import, or leaves a later one behind. *)
LEMMA DecidingGoesOn ==
  ASSUME Sound, ChainGoesOn, [Next]_vars, NEW w \in Workers, Decides(w),
         NEW i, i = imp[w], NEW n, n = cur[w].n
  PROVE  Settled(i)' \/ GoesOn(i, n)'
<1> USE DEF Sound, Base
<1>1. /\ i \in DOMAIN imports /\ i \in Imports /\ n \in 1..MaxPolls /\ cur[w] = Poll(i, n)
      /\ pc[w] # "idle"
  BY PollIsJob, ImportOf DEF Decides, RunsKnown, IsPoll, ResolveLog, Repoll
<1>2. CASE ResolveLog(w) /\ found[w] = 0
  <2>1. Settled(i)
    BY <1>2 DEF ResolveLog, ChainGoesOn
  <2> QED
    BY <1>1, <2>1, SettledStays, PolledIsLogged DEF Decides
<1>3. CASE ResolveLog(w) /\ found[w] # 0
  <2>1. found[w] \in DOMAIN log /\ Matches(log[found[w]], i)
    BY <1>3 DEF FoundKnown, Types, FoundTyped, RowsTyped
  <2>2. Outcome(w) \in Says /\ (Outcome(w) = "SUCCESS" => good[w]) /\ seen[w] \in SUBSET Variants
    BY DEF Outcome, Says, Types, RegistersTyped
  <2>3. Resolves(i, Outcome(w), seen[w], found[w])
    BY <1>3, <2>1, <2>2 DEF ResolveLog, Resolves
  <2> QED
    BY <1>1, <2>1, <2>2, <2>3, ResolveSettles
<1>4. CASE Repoll(w)
  <2> DEFINE k == Poll(i, n + 1)
  <2>1. n + 1 \in 1..MaxPolls /\ n < n + 1 /\ AddJob(k) /\ UNCHANGED <<log, imports, cur, imp>>
    BY <1>1, <1>4, Bounds DEF Repoll
  <2>2. k \in PollJobs /\ k \in Jobs /\ k.n = n + 1 /\ k # cur[w]
    BY <1>1, <2>1, PollIsJob, Bounds
  <2> HIDE DEF k
  <2>3. pc' = [pc EXCEPT ![w] = "done"]
    BY <1>4 DEF Repoll
  <2>4. ASSUME NEW m \in 1..MaxPolls, m > n, Coming(Poll(i, m)) PROVE GoesOn(i, n)'
    <3>1. Poll(i, m) \in PollJobs /\ Poll(i, m).n = m /\ Poll(i, m) # cur[w]
      BY <1>1, <2>4, PollIsJob
    <3>2. \/ Coming(Poll(i, m))' \/ job'[Poll(i, m)] = "failed"
          \/ \E u \in Workers : cur[u] = Poll(i, m) /\ Decides(u)
      BY <2>4, <3>1, ComingSteps
    <3>3. job'[Poll(i, m)] # "failed"
      BY <2>1, <2>2, <2>4, <3>1, Bounds DEF AddJob, Coming, Types, QueueTyped
    <3>4. \A u \in Workers : u # w => ~Decides(u)
      BY <2>3 DEF Decides, ResolveLog, Repoll, Types, RunsTyped
    <3>5. Coming(Poll(i, m))'
      BY <3>1, <3>2, <3>3, <3>4
    <3> QED
      BY <2>4, <3>5 DEF GoesOn, Poll
  <2>5. CASE job[k] \in {"absent", "waiting"}
    <3>1. job'[k] = "waiting"
      BY <2>1, <2>2, <2>5 DEF AddJob, Types, QueueTyped
    <3> QED
      BY <2>1, <3>1 DEF GoesOn, Coming, Poll, k
  <2>6. CASE Coming(k)
    BY <2>1, <2>4, <2>6 DEF k
  <2>7. CASE job[k] = "active" /\ ~Coming(k)
    <3>1. PICK g \in Workers : Running(g, k) /\ Past(g)
      BY <2>7 DEF Coming
    <3>2. cur[g] = k /\ imp[g] = i /\ IsPoll(cur[g])
      <4>1. cur[g] = k /\ k.of = i
        BY <1>1, <2>1, <3>1, PollIsJob DEF Running, k
      <4> QED
        BY <2>2, <4>1 DEF RunsKnown, IsPoll
    <3>3. Settled(i) \/ \E m \in 1..MaxPolls : m > n + 1 /\ Coming(Poll(i, m))
      BY <2>2, <3>1, <3>2 DEF ChainGoesOn
    <3>4. CASE Settled(i)
      BY <1>1, <3>2, <3>4, SettledStays, PolledIsLogged
    <3> QED
      BY <1>1, <2>4, <3>3, <3>4
  <2>8. CASE job[k] = "failed"
    <3>1. job'[k] = "failed"
      BY <2>1, <2>2, <2>8 DEF AddJob, Types, QueueTyped
    <3>2. Abandoned(i)'
      BY <1>1, <2>1, <3>1, FailedPolls DEF FailedIsAbandoned, k, Poll
    <3> QED
      BY <3>2 DEF Settled
  <2> QED
    BY <2>2, <2>5, <2>6, <2>7, <2>8 DEF NeverCompleted, Types, QueueTyped, JobStates
<1> QED
  BY <1>2, <1>3, <1>4 DEF Decides

LEMMA ComingGoesOn ==
  ASSUME Sound, ChainGoesOn, [Next]_vars, NEW i \in DOMAIN imports, NEW n \in 1..MaxPolls, Coming(Poll(i, n))
  PROVE  Settled(i)' \/ \E m \in 1..MaxPolls : m >= n /\ Coming(Poll(i, m))'
<1> USE DEF Sound, Base
<1>1. i \in Imports /\ Poll(i, n) \in PollJobs /\ Poll(i, n).of = i /\ Poll(i, n).n = n
  BY ImportOf, PollIsJob
<1>2. CASE Coming(Poll(i, n))'
  BY <1>2
<1>3. CASE job'[Poll(i, n)] = "failed"
  <2>1. Abandoned(i)'
    BY <1>1, <1>3, FailedPolls DEF FailedIsAbandoned, Poll
  <2> QED
    BY <2>1 DEF Settled
<1>4. ASSUME NEW w \in Workers, cur[w] = Poll(i, n), Decides(w)
      PROVE  Settled(i)' \/ \E m \in 1..MaxPolls : m >= n /\ Coming(Poll(i, m))'
  <2>1. imp[w] = i
    BY <1>1, <1>4 DEF Decides, RunsKnown, IsPoll
  <2>2. Settled(i)' \/ GoesOn(i, n)'
    BY <1>1, <1>4, <2>1, DecidingGoesOn
  <2> QED
    BY <2>2 DEF GoesOn, Poll
<1> QED
  BY <1>1, <1>2, <1>3, <1>4, ComingSteps

LEMMA InterruptedSettles ==
  ASSUME Types, [Next]_vars, NEW i \in DOMAIN imports, NEW j, j = imports[i].by, Interrupted(j)'
  PROVE  Settled(i)'
<1>1. imports'[i].by = j
  BY ImportsGrow
<1> HIDE DEF Interrupted
<1>2. Abandoned(i)'
  BY <1>1 DEF Abandoned, Interrupted, Running
<1> QED
  BY <1>2 DEF Settled

(* A submission ends with the first poll, or was interrupted. *)
LEMMA SubmissionGoesOn ==
  ASSUME Sound, [Next]_vars, NEW w \in Workers, Submitting(w), NEW i, i = imp[w]
  PROVE  Settled(i)' \/ (Submitting(w)' /\ imp'[w] = i) \/ \E n \in 1..MaxPolls : Coming(Poll(i, n))'
<1> USE DEF Sound, Base, Types, RunsTyped, QueueTyped
<1>1. ~IsPoll(cur[w]) /\ i \in DOMAIN imports /\ imports[i].by = cur[w] /\ pc[w] # "idle"
  BY DEF RunsKnown, PollPlaces, Submitting
<1>2. PICK j \in Jobs \ PollJobs : j = cur[w]
  BY <1>1 DEF IsPoll
<1>3. ASSUME Interrupted(j)' PROVE Settled(i)'
  BY <1>1, <1>2, <1>3, InterruptedSettles
<1>4. CASE ~Holds(w, j)
  <2>1. Interrupted(j)
    BY <1>1, <1>2, <1>4 DEF LocksHold
  <2> QED
    BY <1>3, <2>1, InterruptedStays
<1>5. CASE Failing(w) /\ Holds(w, j)
  <2>1. attempts'[j] > 0
    BY <1>2, <1>5, FailingQueue DEF FailJob
  <2> QED
    BY <1>3, <2>1 DEF Interrupted
<1>6. CASE Crash(w) /\ Holds(w, j)
  <2>1. job'[j] = "active" /\ holder'[j] = w /\ pc'[w] = "idle"
    BY <1>6 DEF Crash
  <2> QED
    BY <1>3, <2>1 DEF Interrupted, Running
<1>7. CASE EnqueueFirstPoll(w)
  <2>1. Poll(i, 1) \in PollJobs /\ Poll(i, 1) \in Jobs /\ Poll(i, 1).of = i /\ 1 \in 1..MaxPolls
    BY <1>1, ImportOf, PollIsJob, Bounds
  <2>2. ~Known(Poll(i, 1))
    BY <2>1 DEF FirstPollFirst
  <2>3. job'[Poll(i, 1)] = "waiting"
    BY <1>7, <2>1, <2>2 DEF EnqueueFirstPoll, AddJob
  <2> QED
    BY <2>1, <2>3 DEF Coming, Poll
<1>8. CASE UNCHANGED <<pc[w], imp[w]>>
  BY <1>8 DEF Submitting
<1>9. CASE Inside(w)
  BY <1>9 DEF Submitting, Inside, NotImportable, NothingChanged, Ready, NoOffers, OffersReady, Submit,
         NoImportId, UpsertMapping, WriteLog, ReadPending, ReadTerminal, ReadReports, FindVariant, MarkVariant,
         FindPending, ResolveLog, FinishSyncJob, GiveUp, Preparing
<1>10. ~Complete(w) /\ (\A k \in Jobs : ~Start(w, k)) /\ (Adding(w) => EnqueueFirstPoll(w))
  BY DEF Complete, Start, Adding, RefreshOffers, ChainOffers, Repoll, Submitting
<1> QED
  BY <1>4, <1>5, <1>6, <1>7, <1>8, <1>9, <1>10, RunSteps DEF RunGoesOn, RunEnds

(* A run comes to resolve a row by looking for it.                         *)
LEMMA ResolvePlace ==
  ASSUME Base, [Next]_vars, NEW w \in Workers, pc'[w] = "resolve"
  PROVE  /\ FindPending(w) \/ UNCHANGED <<pc[w], cur[w], imp[w], found[w]>>
         /\ cur'[w] = cur[w] /\ IsPoll(cur[w]) /\ imp'[w] = imp[w] /\ imp[w] \in DOMAIN imports
<1> USE DEF Base, Types, RunsTyped, FoundTyped
<1>1. ASSUME \/ EnqueueOfferSync \/ Beside
             \/ \E j \in Jobs : EnqueueProductSync(j) \/ RetryFailedSync(j) \/ RecoverStalled(j) \/ LoseLock(j)
      PROVE  UNCHANGED <<pc[w], cur[w], imp[w], found[w]>>
  <2>1. UNCHANGED runVars
    BY <1>1, BesideQueue DEF EnqueueOfferSync, EnqueueProductSync, RetryFailedSync, RecoverStalled, LoseLock
  <2> QED
    BY <2>1
<1>2. ASSUME NEW v \in Workers, v # w,
             \/ Inside(v) \/ Adding(v) \/ Failing(v) \/ Complete(v) \/ Crash(v)
             \/ \E j \in Jobs : Start(v, j)
      PROVE  UNCHANGED <<pc[w], cur[w], imp[w], found[w]>>
  BY <1>2, OthersStay
<1>3. ~Failing(w) /\ ~Complete(w) /\ ~Crash(w) /\ ~Adding(w) /\ \A j \in Jobs : ~Start(w, j)
  BY FailingQueue DEF Complete, Crash, Adding, RefreshOffers, EnqueueFirstPoll, ChainOffers, Repoll, Start
<1>4. Inside(w) => FindPending(w)
  BY DEF Inside, NotImportable, NothingChanged, Ready, NoOffers, OffersReady, Submit,
         NoImportId, UpsertMapping, WriteLog, ReadPending, ReadTerminal, ReadReports, FindVariant, MarkVariant,
         FindPending, ResolveLog, FinishSyncJob, GiveUp, Preparing
<1>5. FindPending(w) \/ UNCHANGED <<pc[w], cur[w], imp[w], found[w]>>
  BY <1>1, <1>2, <1>3, <1>4, Steps, Bounds
<1>6. cur'[w] = cur[w] /\ imp'[w] = imp[w] /\ pc[w] \in {"find", "resolve"}
  BY <1>5 DEF FindPending
<1> QED
  BY <1>5, <1>6 DEF RunsKnown, SubmitPlaces

LEMMA StepChainGoesOn ==
  ASSUME Sound, ChainGoesOn, [Next]_vars
  PROVE  ChainGoesOn'
<1> USE DEF Sound, Base
<1>1. ASSUME NEW i \in DOMAIN imports'
      PROVE  \/ Settled(i)'
             \/ \E w \in Workers : Submitting(w)' /\ imp'[w] = i
             \/ \E n \in 1..MaxPolls : Coming(Poll(i, n))'
  <2>1. ASSUME NEW w \in Workers, Submit(w), i \notin DOMAIN imports
        PROVE  Submitting(w)' /\ imp'[w] = i
    <3>1. imp'[w] = Len(imports) + 1 /\ i = Len(imports) + 1
      BY <1>1, <2>1, SubmitImport DEF Types, RunsTyped
    <3>2. pc'[w] \in {"map", "log"}
      BY <2>1 DEF Submit, Types, RunsTyped
    <3> QED
      BY <3>1, <3>2 DEF Submitting
  <2>2. CASE i \in DOMAIN imports
    <3>1. CASE Settled(i)
      <4>1. ASSUME NEW w \in Workers, WriteLog(w), imp[w] = i PROVE Submitting(w)' /\ imp'[w] = i
        BY <4>1 DEF WriteLog, Types, RunsTyped, Submitting
      <4> QED
        BY <2>2, <3>1, <4>1, SettledStays
    <3>2. ASSUME NEW w \in Workers, Submitting(w), imp[w] = i
          PROVE  \/ Settled(i)' \/ (Submitting(w)' /\ imp'[w] = i)
                 \/ \E n \in 1..MaxPolls : Coming(Poll(i, n))'
      BY <3>2, SubmissionGoesOn
    <3>3. ASSUME NEW n \in 1..MaxPolls, Coming(Poll(i, n))
          PROVE  Settled(i)' \/ \E m \in 1..MaxPolls : Coming(Poll(i, m))'
      BY <2>2, <3>3, ComingGoesOn
    <3> QED
      BY <2>2, <3>1, <3>2, <3>3 DEF ChainGoesOn
  <2> QED
    BY <1>1, <2>1, <2>2, ImportsGrow
<1>2. ASSUME NEW w \in Workers, IsPoll(cur'[w]), Past(w)', NEW i, i = imp[w], NEW n, n = cur[w].n
      PROVE  /\ cur'[w].n = n /\ imp'[w] = i
             /\ Settled(i)' \/ GoesOn(i, n)'
  <2>1. UNCHANGED <<cur[w], imp[w]>> /\ (Past(w) \/ Decides(w)) /\ IsPoll(cur[w])
    BY <1>2, PastSteps DEF IsPoll
  <2>2. i \in DOMAIN imports /\ i \in Imports /\ n \in 1..MaxPolls
    BY <1>2, <2>1, PollIsJob, ImportOf DEF RunsKnown, IsPoll
  <2>3. CASE Decides(w)
    BY <1>2, <2>1, <2>3, DecidingGoesOn
  <2>4. CASE Past(w)
    <3>1. Settled(i) \/ \E m \in 1..MaxPolls : m > n /\ Coming(Poll(i, m))
      BY <1>2, <2>1, <2>4 DEF ChainGoesOn
    <3>2. CASE Settled(i)
      BY <1>2, <2>1, <2>2, <3>2, SettledStays, PolledIsLogged
    <3>3. ASSUME NEW m \in 1..MaxPolls, m > n, Coming(Poll(i, m)) PROVE Settled(i)' \/ GoesOn(i, n)'
      <4>1. Settled(i)' \/ \E p \in 1..MaxPolls : p >= m /\ Coming(Poll(i, p))'
        BY <2>2, <3>3, ComingGoesOn
      <4>2. \A p \in 1..MaxPolls : p >= m => p > n
        BY <2>2, <3>3
      <4> QED
        BY <4>1, <4>2 DEF GoesOn, Poll
    <3> QED
      BY <1>2, <2>1, <3>1, <3>2, <3>3
  <2> QED
    BY <1>2, <2>1, <2>3, <2>4
<1>3. ASSUME NEW w \in Workers, IsPoll(cur'[w]), Past(w)'
      PROVE  Settled(imp[w])' \/ \E n \in 1..MaxPolls : n > cur'[w].n /\ Coming(Poll(imp[w], n))'
  <2>1. \A i, n : i = imp'[w] /\ n = cur'[w].n => Settled(i)' \/ GoesOn(i, n)'
    <3>1. UNCHANGED <<cur[w], imp[w]>>
      BY <1>3, PastSteps
    <3> QED
      BY <1>2, <1>3, <3>1
  <2> QED
    BY <2>1 DEF GoesOn, Settled, Waiting, Row, Abandoned, Interrupted, Running, Poll
<1>4. ASSUME NEW w \in Workers, pc'[w] = "resolve", found'[w] = 0 PROVE Settled(imp[w])'
  <2>1. IsPoll(cur[w])
    BY <1>4, ResolvePlace
  <2>2. PICK i : i = imp[w]
    OBVIOUS
  <2>3. i \in DOMAIN imports /\ imp'[w] = i
    BY <1>4, <2>2, ResolvePlace
  <2>4. CASE FindPending(w)
    <3>1. Pending(i) = 0 /\ UNCHANGED log
      BY <1>4, <2>2, <2>4 DEF FindPending, Types, FoundTyped
    <3>2. Open(i) = {}
      BY <3>1, PendingRow
    <3>3. ~Waiting(i)
      BY <2>3, <3>2 DEF Waiting, Row, Open, Matches, RowsAreOne
    <3> QED
      BY <2>1, <2>2, <2>3, <3>3, SettledStays, PolledIsLogged DEF Settled
  <2>5. CASE UNCHANGED <<pc[w], imp[w], found[w]>>
    <3>1. Settled(i)
      BY <1>4, <2>2, <2>5 DEF ChainGoesOn
    <3> QED
      BY <2>1, <2>2, <2>3, <3>1, SettledStays, PolledIsLogged
  <2>6. FindPending(w) \/ UNCHANGED <<pc[w], imp[w], found[w]>>
    BY <1>4, ResolvePlace
  <2> QED
    BY <2>4, <2>5, <2>6
<1> QED
  BY <1>1, <1>3, <1>4 DEF ChainGoesOn, IsPoll, Submitting, Poll, Past

(* A row is stranded on PROCESSING only if its submission was interrupted, *)
(* or one of its polls failed for good: neither the chain of polls         *)
(* (engine.ts), nor two polls of one import, nor imports that share a      *)
(* correlation id, ever break it off, for any number of jobs, processors,  *)
(* polls and failures.                                                     *)
THEOREM StrandedIsCaused == Spec => []StrandedHasCause
<1>1. Init => Sound /\ ChainGoesOn
  <2>1. Init => ChainGoesOn
    BY Bounds DEF Init, ChainGoesOn, IsPoll
  <2> QED
    BY <2>1, InitSound
<1>2. Sound /\ ChainGoesOn /\ [Next]_vars => (Sound /\ ChainGoesOn)'
  BY StepSound, StepChainGoesOn
<1>3. Sound /\ ChainGoesOn => StrandedHasCause
  <2> SUFFICES ASSUME Sound, ChainGoesOn, NEW i \in DOMAIN imports, Waiting(i), ~Abandoned(i)
               PROVE  Attended(i)
    BY DEF StrandedHasCause
  <2>1. ASSUME NEW n \in 1..MaxPolls, Coming(Poll(i, n)) PROVE Attended(i)
    <3>1. Poll(i, n) \in PollJobs /\ Poll(i, n).of = i
      BY PollIsJob, ImportOf DEF Sound, Base
    <3> QED
      BY <2>1, <3>1 DEF Attended, Coming
  <2> QED
    BY <2>1 DEF ChainGoesOn, Settled, Attended, Submitting
<1> QED
  BY <1>1, <1>2, <1>3, PTL DEF Spec
-----------------------------------------------------------------------------
(* One run about an import, as long as no job is taken away from its run   *)

(* Poll j may still come to resolve a row. *)
Alive(j) ==
    \/ job[j] = "waiting" \/ handling[j] # "none"
    \/ \E w \in Workers : Running(w, j) /\ pc[w] # "done"

Same(i, k) == imports[i].kind = imports[k].kind /\ imports[i].corr = imports[k].corr

Held ==
    /\ \A w \in Workers : pc[w] # "idle" => Holds(w, cur[w])
    /\ \A j \in Jobs : job[j] = "active" => \E w \in Workers : Holds(w, j) /\ Running(w, j)

OneAlive == \A j, k \in PollJobs : Alive(j) /\ Alive(k) /\ Same(j.of, k.of) => j = k

(* The offer job has added the poll of an import under its present id. *)
Used == Ended(OfferJob) \/ \E w \in Workers : Running(w, OfferJob) /\ pc[w] = "done"

UsedOnce ==
    \A k \in PollJobs : Alive(k) /\ imports[k.of].kind = "offer" =>
        /\ imports[k.of].corr = offerCorr => Used
        /\ \A w \in Workers :
              Submitting(w) /\ imports[imp[w]].kind = "offer" =>
                  imports[k.of].corr # imports[imp[w]].corr

FoundOpen ==
    /\ \A w \in Workers : found[w] # 0 => log[found[w]].says = "PROCESSING"
    /\ \A j \in PollJobs : target[j] # 0 => log[target[j]].says = "PROCESSING"

Undisturbed == Held /\ OneAlive /\ UsedOnce /\ FoundOpen

LEMMA Severing ==
  ASSUME Base, [Next]_vars, ~severed'
  PROVE  ~severed /\ (\A w \in Workers : ~Crash(w)) /\ \A j \in Jobs : ~LoseLock(j)
<1>1. \A w \in Workers : ~Crash(w)
  BY DEF Crash
<1>2. \A j \in Jobs : ~LoseLock(j)
  BY DEF LoseLock
<1>3. ASSUME \/ EnqueueOfferSync \/ Beside
             \/ \E j \in Jobs : EnqueueProductSync(j) \/ RetryFailedSync(j) \/ RecoverStalled(j)
      PROVE  severed => severed'
  BY <1>3, BesideQueue DEF EnqueueOfferSync, EnqueueProductSync, RetryFailedSync, RecoverStalled
<1>4. ASSUME NEW w \in Workers,
             Inside(w) \/ Adding(w) \/ Complete(w) \/ \E j \in Jobs : Start(w, j)
      PROVE  severed => severed'
  BY <1>4, InsideQueue DEF Complete, Start, Adding, RefreshOffers, EnqueueFirstPoll, ChainOffers, Repoll
<1>5. ASSUME NEW w \in Workers, Failing(w) PROVE severed => severed'
  BY <1>5 DEF Failing, PrepareThrows, SubmitFails, Throw
<1>6. severed => severed'
  BY <1>1, <1>2, <1>3, <1>4, <1>5, Steps, Bounds
<1> QED
  BY <1>1, <1>2, <1>6

LEMMA NoneStalls ==
  ASSUME Base, Held, [Next]_vars, ~severed', NEW j \in Jobs
  PROVE  ~JobStalls(j)
<1>1. ~LoseLock(j)
  BY Severing
<1>2. ASSUME job[j] = "active" PROVE ~RecoverStalled(j)
  BY <1>2 DEF Held, RecoverStalled
<1> QED
  BY <1>1, <1>2 DEF JobStalls

LEMMA StepHeld ==
  ASSUME Base, Held, [Next]_vars, ~severed'
  PROVE  Held'
<1> USE DEF Base, Types, RunsTyped, QueueTyped
<1>0. \A w \in Workers : ~Crash(w)
  BY Severing
<1>1. ASSUME NEW w \in Workers, pc'[w] # "idle" PROVE Holds(w, cur[w])'
  <2>1. CASE RunGoesOn(w)
    <3>1. cur'[w] = cur[w] /\ pc[w] # "idle" /\ Holds(w, cur[w]) /\ Running(w, cur[w])
      BY <1>1, <2>1 DEF RunGoesOn, Held, Running
    <3>2. cur[w] \in Jobs /\ ~JobStalls(cur[w])
      BY NoneStalls
    <3>3. ASSUME NEW u \in Workers PROVE ~JobFails(cur[w], u) /\ ~JobIsDone(cur[w], u)
      <4>1. Holds(u, cur[w]) => u = w
        BY <3>1
      <4>2. ~Failing(w) /\ ~Complete(w)
        BY <1>1, FailingQueue DEF Complete
      <4> QED
        BY <4>1, <4>2 DEF JobFails, JobIsDone
    <3>4. JobRests(cur[w])
      BY <3>1, <3>2, <3>3, JobSteps DEF JobIsAdded, JobIsRenewed, JobIsTaken
    <3> QED
      BY <3>1, <3>4 DEF JobRests
  <2>2. ASSUME NEW j \in Jobs, Start(w, j) PROVE Holds(w, cur[w])'
    BY <2>2 DEF Start, TakeJob
  <2> QED
    BY <1>1, <2>1, <2>2, RunSteps DEF RunEnds
<1>2. ASSUME NEW j \in Jobs, job'[j] = "active"
      PROVE  \E w \in Workers : Holds(w, j)' /\ Running(w, j)'
  <2>1. CASE JobRests(j)
    <3>1. PICK w \in Workers : Holds(w, j) /\ Running(w, j)
      BY <1>2, <2>1 DEF JobRests, Held
    <3>2. ~Failing(w)
      BY <2>1, <3>1, FailingQueue DEF FailJob, JobRests, Running
    <3>3. ~Complete(w)
      BY <2>1, <3>1 DEF Complete, CompleteJob, RemoveJob, JobRests, Running
    <3>4. \A k \in Jobs : ~Start(w, k)
      BY <3>1 DEF Start, Running
    <3>5. RunGoesOn(w)
      BY <1>0, <3>2, <3>3, <3>4, RunSteps DEF RunEnds
    <3>6. Holds(w, j)' /\ Running(w, j)'
      BY <2>1, <3>1, <3>5 DEF JobRests, RunGoesOn, Running
    <3> QED
      BY <3>6
  <2>2. ASSUME NEW w \in Workers, JobIsTaken(j, w) PROVE Holds(w, j)' /\ Running(w, j)'
    BY <2>2 DEF JobIsTaken, Start, Running
  <2> QED
    BY <1>2, <2>1, <2>2, NoneStalls, JobSteps DEF JobIsAdded, JobIsRenewed, JobFails, JobIsDone
<1> QED
  BY <1>1, <1>2 DEF Held

LEMMA AliveKnown ==
  ASSUME Base, Held, NEW j \in PollJobs, Alive(j)
  PROVE  Known(j) /\ j.of \in DOMAIN imports
<1>1. Known(j)
  BY DEF Alive, Base, FoundKnown, Held, Running
<1> QED
  BY <1>1 DEF Base, PollsKnown

(* No poll comes alive that was not added. *)
LEMMA AliveSteps ==
  ASSUME Base, Held, [Next]_vars, ~severed', NEW j \in PollJobs, Alive(j)'
  PROVE  Alive(j) \/ JobIsAdded(j)
<1> USE DEF Base, Types, RunsTyped, QueueTyped
<1>0. j \in Jobs /\ j # OfferJob /\ IsPoll(j)
  BY Bounds DEF IsPoll
<1>1. ASSUME NEW w \in Workers, Failing(w), cur[w] = j PROVE Alive(j)
  BY <1>1, FailingQueue DEF Alive, Running
<1>2. CASE job'[j] = "waiting"
  <2>1. ASSUME NEW w \in Workers, JobFails(j, w) PROVE Alive(j)
    BY <1>1, <2>1 DEF JobFails, Running
  <2>2. JobRests(j) => Alive(j)
    BY <1>2 DEF JobRests, Alive
  <2> QED
    BY <1>0, <1>2, <2>1, <2>2, NoneStalls, JobSteps DEF JobIsRenewed, JobIsTaken, JobIsDone
<1>3. CASE handling'[j] # "none"
  BY <1>1, <1>3, HandlerSteps DEF Alive
<1>4. ASSUME NEW w \in Workers, Running(w, j)', pc'[w] # "done" PROVE Alive(j)
  <2>1. CASE RunGoesOn(w)
    <3>1. pc[w] # "idle" /\ cur[w] = j
      BY <1>4, <2>1 DEF RunGoesOn, Running
    <3>2. Inside(w) => pc[w] # "done"
      BY DEF Inside, NotImportable, NothingChanged, Ready, NoOffers, OffersReady, Submit,
         NoImportId, UpsertMapping, WriteLog, ReadPending, ReadTerminal, ReadReports, FindVariant, MarkVariant,
         FindPending, ResolveLog, FinishSyncJob, GiveUp, Preparing
    <3>3. Adding(w) => pc[w] # "done"
      BY DEF Adding, RefreshOffers, EnqueueFirstPoll, ChainOffers, Repoll
    <3>4. pc[w] # "done"
      BY <1>4, <2>1, <3>2, <3>3 DEF RunGoesOn
    <3> QED
      BY <3>1, <3>4 DEF Alive, Running
  <2>2. ASSUME NEW k \in Jobs, Start(w, k) PROVE Alive(j)
    BY <1>4, <2>2 DEF Start, TakeJob, Running, Alive
  <2> QED
    BY <1>4, <2>1, <2>2, RunSteps DEF RunEnds, Running
<1> QED
  BY <1>2, <1>3, <1>4 DEF Alive

(* Who adds a poll: a run that has nothing left to do, and none else. *)
LEMMA Adds ==
  ASSUME Base, Held, [Next]_vars, NEW j \in PollJobs, JobIsAdded(j)
  PROVE  \E w \in Workers :
            /\ j.of = imp[w] /\ imp[w] \in DOMAIN imports /\ pc[w] \in {"poll", "repoll"}
            /\ pc'[w] = "done" /\ cur' = cur /\ pc' = [pc EXCEPT ![w] = "done"]
            /\ UNCHANGED <<imports, imp, offerCorr, handling>>
            /\ \A k \in Jobs : k # j => job'[k] = job[k]
            /\ Holds(w, cur[w]) /\ ~EnqueueOfferSync
            /\ \/ ~IsPoll(cur[w]) /\ Submitting(w)
               \/ cur[w] \in PollJobs /\ cur[w] # j /\ cur[w].of = imp[w] /\ Alive(cur[w])
<1> USE DEF Base, Types, RunsTyped, QueueTyped
<1>0. j \in Jobs /\ IsPoll(j)
  BY Bounds DEF IsPoll
<1>1. PICK w \in Workers : \/ EnqueueFirstPoll(w) /\ j = Poll(imp[w], 1)
                           \/ Repoll(w) /\ j = Poll(imp[w], cur[w].n + 1) /\ IsPoll(cur[w])
  BY PollIsAdded
<1>2. AddJob(j) /\ pc[w] \in {"poll", "repoll"} /\ pc' = [pc EXCEPT ![w] = "done"]
      /\ UNCHANGED <<imports, imp, cur, offerCorr, handling>>
  BY <1>1 DEF EnqueueFirstPoll, Repoll
<1>3. imp[w] \in DOMAIN imports /\ imp[w] \in Imports
  BY <1>2, ImportOf DEF RunsKnown, SubmitPlaces, PollPlaces
<1>4. j.of = imp[w]
  BY <1>1 DEF Poll
<1>5. \A k \in Jobs : k # j => job'[k] = job[k]
  BY <1>2 DEF AddJob
<1>6. Holds(w, cur[w]) /\ ~EnqueueOfferSync
  BY <1>2 DEF Held, EnqueueOfferSync
<1>7. CASE IsPoll(cur[w])
  <2>1. pc[w] = "repoll"
    BY <1>2, <1>7 DEF RunsKnown, PollPlaces
  <2>2. Alive(cur[w]) /\ cur[w].of = imp[w]
    BY <1>7, <2>1 DEF Alive, Running, RunsKnown
  <2>3. cur[w] # j
    BY <1>6 DEF JobIsAdded
  <2> QED
    BY <1>2, <1>3, <1>4, <1>5, <1>6, <1>7, <2>2, <2>3 DEF IsPoll
<1>8. CASE ~IsPoll(cur[w])
  <2>1. Submitting(w)
    BY <1>2, <1>8 DEF RunsKnown, SubmitPlaces, Submitting
  <2> QED
    BY <1>2, <1>3, <1>4, <1>5, <1>6, <1>8, <2>1
<1> QED
  BY <1>7, <1>8

LEMMA StepOneAlive ==
  ASSUME Sound, Held, OneAlive, UsedOnce, [Next]_vars, ~severed'
  PROVE  OneAlive'
<1> USE DEF Sound, Base, Types, RunsTyped, QueueTyped
<1>0. \A i \in DOMAIN imports : i \in DOMAIN imports' /\ imports'[i] = imports[i]
  BY ImportsGrow
<1>1. ASSUME NEW j \in PollJobs, NEW k \in PollJobs, JobIsAdded(j), Alive(k), Same(j.of, k.of), j # k
      PROVE  ~Alive(k)'
  <2>1. PICK w \in Workers :
            /\ j.of = imp[w] /\ imp[w] \in DOMAIN imports /\ pc' = [pc EXCEPT ![w] = "done"] /\ cur' = cur
            /\ UNCHANGED handling /\ \A m \in Jobs : m # j => job'[m] = job[m]
            /\ Holds(w, cur[w])
            /\ \/ ~IsPoll(cur[w]) /\ Submitting(w)
               \/ cur[w] \in PollJobs /\ cur[w] # j /\ cur[w].of = imp[w] /\ Alive(cur[w])
    BY <1>1, Adds
  <2>2. Known(k) /\ k.of \in DOMAIN imports
    BY <1>1, AliveKnown
  <2>3. CASE ~IsPoll(cur[w]) /\ Submitting(w)
    <3>1. imports[imp[w]].kind = "product" => k.of = imp[w]
      BY <1>1, <2>1, <2>2 DEF Same, ProductCorrelations
    <3>2. k.of # imp[w]
      BY <2>2, <2>3 DEF FirstPollFirst
    <3>3. imports[imp[w]].kind \in {"product", "offer"}
      BY <2>1, ImportOf
    <3>4. imports[imp[w]].kind # "offer"
      BY <1>1, <2>1, <2>3 DEF UsedOnce, Same
    <3> QED
      BY <3>1, <3>2, <3>3, <3>4
  <2>4. CASE cur[w] \in PollJobs /\ cur[w] # j /\ cur[w].of = imp[w] /\ Alive(cur[w])
    <3>1. k = cur[w] /\ k \in Jobs
      BY <1>1, <2>1, <2>4, Bounds DEF OneAlive, Same
    <3>2. job'[k] = "active"
      BY <1>1, <2>1, <3>1
    <3>3. handling'[k] = "none"
      BY <2>1, <3>1 DEF FoundKnown
    <3>4. ASSUME NEW v \in Workers, Running(v, k)' PROVE pc'[v] = "done"
      <4>1. CASE v = w
        BY <2>1, <4>1
      <4>2. CASE v # w
        <5>1. pc[v] # "idle" /\ cur[v] = k
          BY <2>1, <3>4, <4>2 DEF Running
        <5>2. Holds(v, k)
          BY <5>1 DEF Held
        <5> QED
          BY <2>1, <3>1, <4>2, <5>2
      <4> QED
        BY <4>1, <4>2
    <3> QED
      BY <3>2, <3>3, <3>4 DEF Alive
  <2> QED
    BY <2>1, <2>3, <2>4
<1>2. ASSUME NEW j \in PollJobs, NEW k \in PollJobs, JobIsAdded(j), JobIsAdded(k) PROVE j = k
  <2>1. j \in Jobs /\ k \in Jobs
    BY Bounds
  <2>2. \A m \in Jobs : m # j => job'[m] = job[m]
    BY <1>2, Adds
  <2> QED
    BY <1>2, <2>1, <2>2 DEF JobIsAdded
<1>3. ASSUME NEW j \in PollJobs, JobIsAdded(j) PROVE j.of \in DOMAIN imports
  BY <1>3, Adds
<1>4. ASSUME NEW j \in PollJobs, NEW k \in PollJobs, Alive(j)', Alive(k)', Same(j.of, k.of)'
      PROVE  j = k
  <2>1. (Alive(j) \/ JobIsAdded(j)) /\ (Alive(k) \/ JobIsAdded(k))
    BY <1>4, AliveSteps
  <2>2. j.of \in DOMAIN imports /\ k.of \in DOMAIN imports
    BY <1>3, <2>1, AliveKnown
  <2>3. Same(j.of, k.of) /\ Same(k.of, j.of)
    <3>1. imports'[j.of] = imports[j.of] /\ imports'[k.of] = imports[k.of]
      BY <1>0, <2>2
    <3> QED
      BY <1>4, <3>1 DEF Same
  <2> QED
    BY <1>1, <1>2, <1>4, <2>1, <2>3 DEF OneAlive
<1> QED
  BY <1>4 DEF OneAlive

LEMMA UsedStays ==
  ASSUME Base, Held, Used, [Next]_vars, ~severed', ~EnqueueOfferSync
  PROVE  Used'
<1> USE DEF Base, Types, QueueTyped, RunsTyped
<1> USE OfferJobIsJob
<1>1. CASE Ended(OfferJob)
  <2>1. JobRests(OfferJob)
    BY <1>1, JobSteps DEF JobIsAdded, JobIsRenewed, JobStalls, JobIsTaken, JobFails, JobIsDone
  <2> QED
    BY <1>1, <2>1 DEF JobRests, Used
<1>2. ASSUME NEW w \in Workers, Running(w, OfferJob), pc[w] = "done" PROVE Used'
  <2>1. ~Crash(w) /\ ~Failing(w) /\ \A j \in Jobs : ~Start(w, j)
    BY <1>2, Severing, FailingQueue DEF Start
  <2>2. ~Inside(w) /\ ~Adding(w)
    BY <1>2 DEF Inside, NotImportable, NothingChanged, Ready, NoOffers, OffersReady, Submit,
       NoImportId, UpsertMapping, WriteLog, ReadPending, ReadTerminal, ReadReports, FindVariant, MarkVariant,
       FindPending, ResolveLog, FinishSyncJob, GiveUp, Preparing, Adding, RefreshOffers, EnqueueFirstPoll,
       ChainOffers, Repoll
  <2>3. CASE RunGoesOn(w)
    BY <1>2, <2>2, <2>3 DEF RunGoesOn, Running, Used
  <2>4. CASE Complete(w)
    <3>1. Holds(w, OfferJob) /\ cur[w] = OfferJob
      BY <1>2 DEF Held, Running
    <3>2. job'[OfferJob] = "completed"
      BY <2>4, <3>1 DEF Complete, CompleteJob
    <3> QED
      BY <3>2 DEF Used
  <2> QED
    BY <2>1, <2>3, <2>4, RunSteps DEF RunEnds
<1> QED
  BY <1>1, <1>2 DEF Used

LEMMA StepUsedOnce ==
  ASSUME Sound, Held, UsedOnce, [Next]_vars, ~severed'
  PROVE  UsedOnce'
<1> USE DEF Sound, Base, Types, RunsTyped, QueueTyped
<1>0. /\ \A i \in DOMAIN imports : /\ i \in DOMAIN imports' /\ imports'[i] = imports[i]
                                   /\ imports[i].corr # NoCorrelation
      /\ OfferJob \in Jobs
  BY ImportsGrow, ImportOf, OfferJobIsJob, Bounds
<1>1. ASSUME NEW w \in Workers, Submitting(w), ~IsPoll(cur[w]), imports[imp[w]].kind = "offer"
      PROVE  cur[w] = OfferJob /\ imp[w] \in DOMAIN imports
  BY <1>1 DEF Submitting, RunsKnown, OfferCorrelations
<1>2. ASSUME NEW v \in Workers, NEW w \in Workers, Running(v, OfferJob), Running(w, OfferJob)
      PROVE  v = w
  BY <1>2 DEF Held, Running
<1>3. ASSUME NEW k \in PollJobs, JobIsAdded(k), imports'[k.of].kind = "offer"
      PROVE  /\ k.of \in DOMAIN imports
             /\ imports[k.of].corr = offerCorr' => Used'
             /\ \A w \in Workers :
                   Submitting(w)' /\ imports'[imp'[w]].kind = "offer" =>
                       imports[k.of].corr # imports'[imp'[w]].corr
  <2>1. PICK u \in Workers :
            /\ k.of = imp[u] /\ imp[u] \in DOMAIN imports /\ pc[u] \in {"poll", "repoll"}
            /\ pc' = [pc EXCEPT ![u] = "done"] /\ cur' = cur /\ UNCHANGED <<imports, imp, offerCorr>>
            /\ ~EnqueueOfferSync
            /\ \/ ~IsPoll(cur[u]) /\ Submitting(u)
               \/ cur[u] \in PollJobs /\ cur[u].of = imp[u] /\ Alive(cur[u])
    BY <1>3, Adds
  <2>2. imports[imp[u]].kind = "offer"
    BY <1>3, <2>1
  <2>3. ASSUME NEW w \in Workers, Submitting(w)' PROVE w # u /\ Submitting(w) /\ imp'[w] = imp[w]
    BY <2>1, <2>3 DEF Submitting
  <2>4. CASE ~IsPoll(cur[u]) /\ Submitting(u)
    <3>1. cur[u] = OfferJob /\ Running(u, OfferJob)
      BY <1>1, <2>1, <2>2, <2>4 DEF Running
    <3>2. Used'
      BY <2>1, <3>1 DEF Used, Running
    <3>3. ASSUME NEW w \in Workers, Submitting(w)', imports'[imp'[w]].kind = "offer" PROVE FALSE
      <4>1. w # u /\ Submitting(w) /\ imports[imp[w]].kind = "offer"
        BY <2>1, <2>3, <3>3
      <4>2. ~IsPoll(cur[w]) /\ pc[w] # "idle"
        BY <4>1 DEF Submitting, RunsKnown, PollPlaces
      <4>3. Running(w, OfferJob)
        BY <1>1, <4>1, <4>2 DEF Running
      <4> QED
        BY <1>2, <3>1, <4>1, <4>3
    <3> QED
      BY <2>1, <3>2, <3>3
  <2>5. CASE cur[u] \in PollJobs /\ cur[u].of = imp[u] /\ Alive(cur[u])
    <3>1. imports[imp[u]].corr = offerCorr => Used
      BY <2>2, <2>5 DEF UsedOnce
    <3>2. \A w \in Workers : Submitting(w) /\ imports[imp[w]].kind = "offer" =>
                                imports[imp[u]].corr # imports[imp[w]].corr
      BY <2>2, <2>5 DEF UsedOnce
    <3>3. imports[imp[u]].corr = offerCorr' => Used'
      BY <2>1, <3>1, UsedStays
    <3> QED
      BY <2>1, <2>3, <3>2, <3>3
  <2> QED
    BY <2>1, <2>4, <2>5
<1>4. ASSUME NEW k \in PollJobs, Alive(k), imports'[k.of].kind = "offer"
      PROVE  /\ k.of \in DOMAIN imports
             /\ imports[k.of].corr = offerCorr' => Used'
             /\ \A w \in Workers :
                   Submitting(w)' /\ imports'[imp'[w]].kind = "offer" =>
                       imports[k.of].corr # imports'[imp'[w]].corr
  <2>1. k.of \in DOMAIN imports /\ imports[k.of].kind = "offer"
    BY <1>0, <1>4, AliveKnown
  <2>2. ASSUME imports[k.of].corr = offerCorr' PROVE Used'
    <3>1. UNCHANGED offerCorr /\ ~EnqueueOfferSync
      <4>1. Known(OfferJob)
        BY <1>0, <2>1, OfferJobIsJob DEF OfferCorrelations
      <4>2. offerCorr' # NoCorrelation
        BY <1>0, <2>1, <2>2
      <4> QED
        BY <4>1, <4>2, OfferCorrSteps DEF EnqueueOfferSync
    <3> QED
      BY <1>4, <2>1, <2>2, <3>1, UsedStays DEF UsedOnce
  <2>3. ASSUME NEW w \in Workers, Submitting(w)', imports'[imp'[w]].kind = "offer"
        PROVE  imports[k.of].corr # imports'[imp'[w]].corr
    <3>1. CASE Submit(w)
      <4>1. PICK n : n = Len(imports) + 1
        OBVIOUS
      <4>2. imp'[w] = n
        BY <3>1, <4>1, SubmitImport
      <4>3. /\ n \notin DOMAIN imports /\ n # Unchanged /\ cur[w] = OfferJob /\ Running(w, OfferJob)
            /\ imports'[n].corr = n \/ imports'[n].corr = offerCorr
        BY <2>3, <3>1, <4>1, <4>2, Submitted
      <4>4. imports[k.of].corr # n
        <5>1. k.of # n
          BY <2>1, <4>3
        <5> QED
          BY <2>1, <4>3, <5>1 DEF OfferCorrelations
      <4>5. imports[k.of].corr # offerCorr
        <5>1. Holds(w, OfferJob) /\ pc[w] = "submit"
          BY <3>1, <4>3 DEF Held, Submit
        <5>2. ~Used
          BY <1>2, <4>3, <5>1 DEF Used
        <5> QED
          BY <1>4, <2>1, <5>2 DEF UsedOnce
      <4> QED
        BY <4>2, <4>3, <4>4, <4>5
    <3>2. CASE Submitting(w) /\ UNCHANGED imp[w] /\ imp[w] \in DOMAIN imports
      <4>1. imports'[imp'[w]] = imports[imp[w]]
        BY <1>0, <3>2
      <4> QED
        BY <1>4, <2>1, <2>3, <3>2, <4>1 DEF UsedOnce
    <3> QED
      BY <2>3, <3>1, <3>2, SubmittingSteps
  <2> QED
    BY <2>1, <2>2, <2>3
<1>5. ASSUME NEW k \in PollJobs, Alive(k)', imports'[k.of].kind = "offer"
      PROVE  /\ imports'[k.of].corr = offerCorr' => Used'
             /\ \A w \in Workers :
                   Submitting(w)' /\ imports'[imp'[w]].kind = "offer" =>
                       imports'[k.of].corr # imports'[imp'[w]].corr
  BY <1>0, <1>3, <1>4, <1>5, AliveSteps
<1> QED
  BY <1>5 DEF UsedOnce, Submitting

(* Who changes a row that is there. *)
LEMMA RowChanges ==
  ASSUME Base, [Next]_vars, NEW r \in DOMAIN log, log'[r] # log[r]
  PROVE  \/ \E w \in Workers : ResolveLog(w) /\ found[w] = r
         \/ \E j \in PollJobs : HandlerResolves(j) /\ target[j] = r
<1> USE DEF Base, Types, RowsTyped
<1>1. ~UNCHANGED log
  OBVIOUS
<1>2. ASSUME NEW w \in Workers PROVE ~WriteLog(w)
  BY WriteLogRow
<1>3. CASE Beside
  <2>1. PICK j \in PollJobs : HandlerResolves(j)
    BY <1>1, <1>3 DEF Beside, Transform, Integrate, HandlerStep, HandlerFinds, HandlerFinishes, HandlerFails, vars
  <2>2. target[j] = r
    BY <2>1 DEF HandlerResolves, Written
  <2> QED
    BY <2>1, <2>2
<1>4. ASSUME NEW w \in Workers, Inside(w) PROVE ResolveLog(w) /\ found[w] = r
  <2>1. ResolveLog(w)
    BY <1>1, <1>2, <1>4 DEF Inside, NotImportable, NothingChanged, Ready, NoOffers, OffersReady, Submit,
         NoImportId, UpsertMapping, ReadPending, ReadTerminal, ReadReports, FindVariant, MarkVariant,
         FindPending, FinishSyncJob, GiveUp
  <2> QED
    BY <2>1 DEF ResolveLog, Written
<1>5. ASSUME NEW w \in Workers
      PROVE  ~Adding(w) /\ ~Failing(w) /\ ~Complete(w) /\ ~Crash(w) /\ \A j \in Jobs : ~Start(w, j)
  BY <1>1, FailingQueue DEF Complete, Crash, Start, Adding, RefreshOffers, EnqueueFirstPoll, ChainOffers, Repoll
<1>6. ASSUME NEW j \in Jobs
      PROVE  ~EnqueueProductSync(j) /\ ~RetryFailedSync(j) /\ ~RecoverStalled(j) /\ ~LoseLock(j) /\ ~EnqueueOfferSync
  BY <1>1 DEF EnqueueOfferSync, EnqueueProductSync, RetryFailedSync, RecoverStalled, LoseLock
<1>7. ~EnqueueOfferSync
  BY <1>1 DEF EnqueueOfferSync
<1> QED
  BY <1>3, <1>4, <1>5, <1>6, <1>7, Steps, Bounds

(* A run, or a handler, that found a row is alive, and it is its import's. *)
LEMMA FinderAlive ==
  ASSUME Base, Held
  PROVE  /\ \A w \in Workers : found[w] # 0 =>
               /\ cur[w] \in PollJobs /\ Alive(cur[w]) /\ Matches(log[found[w]], cur[w].of)
               /\ job[cur[w]] = "active" /\ holder[cur[w]] = w
         /\ \A j \in PollJobs : target[j] # 0 =>
               Alive(j) /\ Matches(log[target[j]], j.of) /\ job[j] = "failed"
<1> USE DEF Base
<1>1. ASSUME NEW w \in Workers, found[w] # 0
      PROVE  /\ cur[w] \in PollJobs /\ Alive(cur[w]) /\ Matches(log[found[w]], cur[w].of)
             /\ job[cur[w]] = "active" /\ holder[cur[w]] = w
  <2>1. pc[w] = "resolve" /\ Matches(log[found[w]], imp[w])
    BY <1>1 DEF FoundKnown
  <2>2. cur[w] \in PollJobs /\ imp[w] = cur[w].of
    BY <2>1 DEF RunsKnown, SubmitPlaces, IsPoll
  <2> QED
    BY <2>1, <2>2 DEF Alive, Running, Held
<1>2. ASSUME NEW j \in PollJobs, target[j] # 0
      PROVE  Alive(j) /\ Matches(log[target[j]], j.of) /\ job[j] = "failed"
  BY <1>2 DEF FoundKnown, Alive
<1> QED
  BY <1>1, <1>2

(* No two of them have found the same row. *)
LEMMA FindersDiffer ==
  ASSUME Base, Held, OneAlive
  PROVE  /\ \A v, w \in Workers : found[v] # 0 /\ found[v] = found[w] => v = w
         /\ \A w \in Workers, j \in PollJobs : found[w] # 0 => found[w] # target[j]
         /\ \A j, k \in PollJobs : target[j] # 0 /\ target[j] = target[k] => j = k
<1>1. ASSUME NEW j \in PollJobs, NEW k \in PollJobs, Alive(j), Alive(k), NEW row,
             Matches(row, j.of), Matches(row, k.of)
      PROVE  j = k
  <2>1. Same(j.of, k.of)
    BY <1>1 DEF Matches, Same
  <2> QED
    BY <1>1, <2>1 DEF OneAlive
<1>2. ASSUME NEW v \in Workers, NEW w \in Workers, found[v] # 0, found[v] = found[w] PROVE v = w
  <2>1. PICK row : row = log[found[v]]
    OBVIOUS
  <2>2. /\ cur[v] \in PollJobs /\ Alive(cur[v]) /\ Matches(row, cur[v].of) /\ holder[cur[v]] = v
        /\ cur[w] \in PollJobs /\ Alive(cur[w]) /\ Matches(row, cur[w].of) /\ holder[cur[w]] = w
    BY <1>2, <2>1, FinderAlive
  <2>3. cur[v] = cur[w]
    BY <1>1, <2>2
  <2> QED
    BY <2>2, <2>3
<1>3. ASSUME NEW w \in Workers, NEW j \in PollJobs, found[w] # 0, found[w] = target[j] PROVE FALSE
  <2>1. PICK row : row = log[found[w]]
    OBVIOUS
  <2>2. /\ cur[w] \in PollJobs /\ Alive(cur[w]) /\ Matches(row, cur[w].of) /\ job[cur[w]] = "active"
        /\ Alive(j) /\ Matches(row, j.of) /\ job[j] = "failed"
    BY <1>3, <2>1, FinderAlive
  <2>3. cur[w] = j
    BY <1>1, <2>2
  <2> QED
    BY <2>2, <2>3
<1>4. ASSUME NEW j \in PollJobs, NEW k \in PollJobs, target[j] # 0, target[j] = target[k] PROVE j = k
  <2>1. PICK row : row = log[target[j]]
    OBVIOUS
  <2>2. Alive(j) /\ Matches(row, j.of) /\ Alive(k) /\ Matches(row, k.of)
    BY <1>4, <2>1, FinderAlive
  <2> QED
    BY <1>1, <2>2
<1> QED
  BY <1>2, <1>3, <1>4

LEMMA StepFoundOpen ==
  ASSUME Base, Held, OneAlive, FoundOpen, [Next]_vars
  PROVE  FoundOpen'
<1> USE DEF Base, Types, RowsTyped, FoundTyped
<1>0. DOMAIN log = 1..Len(log) /\ Len(log) \in Nat
  OBVIOUS
<1>1. ASSUME NEW w \in Workers, found[w] # 0, found'[w] # 0 PROVE log'[found[w]] = log[found[w]]
  <2>1. found[w] \in DOMAIN log
    BY <1>0, <1>1
  <2>2. ASSUME NEW v \in Workers, ResolveLog(v), found[v] = found[w] PROVE FALSE
    <3>1. v = w
      BY <1>1, <2>2, FindersDiffer
    <3> QED
      BY <1>1, <2>2, <3>1 DEF ResolveLog
  <2>3. ASSUME NEW j \in PollJobs, HandlerResolves(j), target[j] = found[w] PROVE FALSE
    BY <1>1, <2>3, FindersDiffer
  <2> QED
    BY <2>1, <2>2, <2>3, RowChanges
<1>2. ASSUME NEW j \in PollJobs, target[j] # 0, target'[j] # 0 PROVE log'[target[j]] = log[target[j]]
  <2>1. target[j] \in DOMAIN log
    BY <1>0, <1>2
  <2>2. ASSUME NEW v \in Workers, ResolveLog(v), found[v] = target[j] PROVE FALSE
    BY <1>2, <2>2, FindersDiffer
  <2>3. ASSUME NEW k \in PollJobs, HandlerResolves(k), target[k] = target[j] PROVE FALSE
    <3>1. k = j
      BY <1>2, <2>3, FindersDiffer
    <3> QED
      BY <1>2, <2>3, <3>1 DEF HandlerResolves
  <2> QED
    BY <2>1, <2>2, <2>3, RowChanges
<1>3. ASSUME NEW i, Pending(i) # 0 PROVE log[Pending(i)].says = "PROCESSING"
  BY <1>3, PendingRow
<1>4. ASSUME NEW w \in Workers, found'[w] # 0 PROVE log'[found'[w]].says = "PROCESSING"
  <2>1. CASE found[w] # 0 /\ found'[w] = found[w]
    BY <1>1, <1>4, <2>1 DEF FoundOpen
  <2>2. CASE found'[w] = Pending(imp[w]) /\ UNCHANGED log
    BY <1>3, <1>4, <2>2
  <2> QED
    BY <1>4, <2>1, <2>2, FoundSteps
<1>5. ASSUME NEW j \in PollJobs, target'[j] # 0 PROVE log'[target'[j]].says = "PROCESSING"
  <2>1. CASE target'[j] = target[j]
    BY <1>2, <1>5, <2>1 DEF FoundOpen
  <2>2. CASE target'[j] = Pending(j.of) /\ UNCHANGED log
    BY <1>3, <1>5, <2>2
  <2> QED
    BY <1>5, <2>1, <2>2, HandlerSteps
<1> QED
  BY <1>4, <1>5 DEF FoundOpen

(* What a row says of a result changes again only after a failure took a   *)
(* job away from its run (resolvePending, sync-log.repository.ts), for any *)
(* number of jobs, processors, polls, retries and failed calls: two runs,  *)
(* or a run and the "failed" handler, never have the same row in hand.     *)
THEOREM RewritesAreCaused == Spec => RewriteHasCause
<1> DEFINE IInv == Sound /\ (severed \/ Undisturbed)
           Kept == \A r \in DOMAIN log : log[r].says # "PROCESSING" /\ log'[r] # log[r] => severed
<1>1. Init => IInv
  <2> SUFFICES ASSUME Init PROVE IInv
    OBVIOUS
  <2>1. /\ job = [j \in Jobs |-> "absent"] /\ pc = [w \in Workers |-> "idle"] /\ Sound
        /\ handling = [j \in PollJobs |-> "none"] /\ target = [j \in PollJobs |-> 0]
        /\ found = [w \in Workers |-> 0]
    BY InitSound DEF Init, QueueInit
  <2>2. Held /\ FoundOpen
    BY <2>1 DEF Held, FoundOpen
  <2>3. \A j \in PollJobs : ~Alive(j)
    BY <2>1, PollIsJob DEF Alive, Running
  <2>4. OneAlive /\ UsedOnce
    BY <2>3 DEF OneAlive, UsedOnce
  <2> QED
    BY <2>1, <2>2, <2>4 DEF Undisturbed
<1>2. IInv /\ [Next]_vars => IInv'
  <2> SUFFICES ASSUME IInv, [Next]_vars PROVE IInv'
    OBVIOUS
  <2>1. Sound' /\ Base
    BY StepSound DEF Sound
  <2>2. ASSUME ~severed' PROVE Undisturbed'
    <3>1. Undisturbed
      BY <2>1, <2>2, Severing
    <3> QED
      BY <2>1, <2>2, <3>1, StepHeld, StepOneAlive, StepUsedOnce, StepFoundOpen DEF Undisturbed
  <2> QED
    BY <2>1, <2>2
<1>3. IInv /\ [Next]_vars => [Kept]_vars
  <2> SUFFICES ASSUME IInv, [Next]_vars PROVE Kept
    OBVIOUS
  <2>1. ASSUME NEW r \in DOMAIN log, log[r].says # "PROCESSING", log'[r] # log[r], Undisturbed
        PROVE  FALSE
    <3>1. r # 0
      BY DEF Sound, Base, Types, RowsTyped
    <3> QED
      BY <2>1, <3>1, RowChanges DEF Undisturbed, FoundOpen, Sound
  <2> QED
    BY <2>1
<1> QED
  BY <1>1, <1>2, <1>3, PTL DEF Spec, RewriteHasCause
-----------------------------------------------------------------------------
(* The types                                                               *)

CountersTyped == QueueTypeOK /\ QueueBudget

LEMMA ProducersKeepCounters ==
  ASSUME CountersTyped, NEW j \in Jobs, AddJob(j) \/ RenewJob(j) \/ StallJob(j)
  PROVE  CountersTyped'
<1> USE QueueAssumption DEF CountersTyped, QueueTypeOK, QueueBudget
<1>1. CASE AddJob(j)
  BY <1>1 DEF AddJob
<1>2. CASE RenewJob(j)
  BY <1>2 DEF RenewJob
<1>3. CASE StallJob(j)
  BY <1>3 DEF StallJob
<1> QED
  BY <1>1, <1>2, <1>3

LEMMA WorkersKeepCounters ==
  ASSUME CountersTyped, NEW w \in Workers, NEW j \in Jobs,
         TakeJob(w, j) \/ CompleteJob(w, j) \/ RemoveJob(w, j) \/ FailJob(w, j)
  PROVE  CountersTyped'
<1> USE QueueAssumption DEF CountersTyped, QueueTypeOK, QueueBudget
<1>1. CASE TakeJob(w, j)
  BY <1>1 DEF TakeJob
<1>2. CASE CompleteJob(w, j)
  BY <1>2 DEF CompleteJob
<1>3. CASE RemoveJob(w, j)
  BY <1>3 DEF RemoveJob
<1>4. CASE FailJob(w, j)
  BY <1>4 DEF FailJob
<1> QED
  BY <1>1, <1>2, <1>3, <1>4

LEMMA StepCountersTyped == ASSUME Base, CountersTyped, [Next]_vars PROVE CountersTyped'
<1>0. \A w \in Workers : cur[w] \in Jobs
  BY DEF Base, Types, RunsTyped
<1>a. ASSUME UNCHANGED queueVars PROVE CountersTyped'
  BY <1>a DEF CountersTyped, QueueTypeOK, QueueBudget
<1>1. ASSUME NEW j \in Jobs, EnqueueProductSync(j) \/ RetryFailedSync(j) \/ RecoverStalled(j) \/ LoseLock(j)
      PROVE  CountersTyped'
  BY <1>1, ProducersKeepCounters DEF EnqueueProductSync, RetryFailedSync, RecoverStalled, LoseLock
<1>2. CASE EnqueueOfferSync
  BY <1>2, ProducersKeepCounters, Bounds DEF EnqueueOfferSync
<1>3. ASSUME NEW w \in Workers, NEW j \in Jobs, Start(w, j) PROVE CountersTyped'
  BY <1>3, WorkersKeepCounters DEF Start
<1>4. ASSUME NEW w \in Workers, Failing(w) \/ Complete(w) PROVE CountersTyped'
  BY <1>0, <1>4, WorkersKeepCounters, FailingQueue DEF Complete
<1>5. ASSUME NEW w \in Workers, Adding(w) PROVE CountersTyped'
  <2>1. pc[w] \in {"repoll", "poll"} => imp[w] \in Imports
    BY Bounds DEF Base, RunsKnown, SubmitPlaces, PollPlaces, Types, SentTyped
  <2>2. CASE RefreshOffers(w) \/ ChainOffers(w)
    BY <2>2, ProducersKeepCounters, Bounds DEF RefreshOffers, ChainOffers
  <2>3. CASE EnqueueFirstPoll(w)
    BY <2>1, <2>3, ProducersKeepCounters, PollIsJob, Bounds DEF EnqueueFirstPoll
  <2>4. CASE Repoll(w)
    <3>1. cur[w].n \in 1..MaxPolls
      BY <2>4, PollIsJob DEF Repoll, Base, RunsKnown, SubmitPlaces, IsPoll
    <3> QED
      BY <2>1, <2>4, <3>1, ProducersKeepCounters, PollIsJob, Bounds DEF Repoll
  <2> QED
    BY <1>5, <2>2, <2>3, <2>4 DEF Adding
<1>6. ASSUME NEW w \in Workers, Inside(w) \/ Crash(w) PROVE CountersTyped'
  <2>1. UNCHANGED queueVars
    BY <1>6, InsideQueue DEF Crash
  <2> QED
    BY <1>a, <2>1
<1>7. CASE Beside
  <2>1. UNCHANGED queueVars
    BY <1>7, BesideQueue
  <2> QED
    BY <1>a, <2>1
<1> QED
  BY <1>1, <1>2, <1>3, <1>4, <1>5, <1>6, <1>7, Steps, Bounds

(* What Base leaves out of the rows and of the failures. *)
RestTyped ==
    /\ hashed \subseteq Variants
    /\ syncJob \in [ProductJobs -> Status]
    /\ faults \in 0..MaxFaults /\ severed \in BOOLEAN

LEMMA ReportTyped ==
  ASSUME RestTyped, NEW j, NEW s \in Status, Report(j, s)
  PROVE  syncJob' \in [ProductJobs -> Status]
  BY DEF RestTyped, Report

LEMMA StepRestTyped == ASSUME Base, RestTyped, [Next]_vars PROVE RestTyped'
<1>0. MaxFaults \in Nat
  BY ImportAssumption
<1>a. ASSUME UNCHANGED <<hashed, syncJob, failures>> PROVE RestTyped'
  BY <1>a DEF RestTyped
<1>b. ASSUME UNCHANGED <<hashed, failures>>, NEW j, NEW s \in Status, Report(j, s) PROVE RestTyped'
  BY <1>b, ReportTyped DEF RestTyped
<1>c. ASSUME NEW kind, Fault(kind), hashed' = hashed, syncJob' \in [ProductJobs -> Status]
      PROVE  RestTyped'
  BY <1>0, <1>c DEF RestTyped
<1>1. ASSUME NEW j \in ProductJobs, EnqueueProductSync(j) PROVE RestTyped'
  BY <1>1 DEF EnqueueProductSync, RestTyped
<1>2. ASSUME NEW r \in Requeues, RetryFailedSync(r) PROVE RestTyped'
  BY <1>2 DEF RetryFailedSync, RestTyped
<1>3. CASE EnqueueOfferSync
  BY <1>a, <1>3 DEF EnqueueOfferSync
<1>4. ASSUME NEW w \in Workers, NEW j \in Jobs, Start(w, j) PROVE RestTyped'
  BY <1>4, <1>b DEF Start
<1>5. ASSUME NEW w \in Workers, Failing(w) PROVE RestTyped'
  <2>1. CASE PrepareThrows(w)
    <3>1. Report(cur[w], "FAILED") /\ Fault("throw") /\ hashed' = hashed
      BY <2>1 DEF PrepareThrows
    <3> QED
      BY <1>c, <3>1, ReportTyped
  <2>2. CASE SubmitFails(w)
    <3>1. Report(cur[w], "FAILED") /\ Fault("throw") /\ hashed' = hashed
      BY <2>2 DEF SubmitFails
    <3> QED
      BY <1>c, <3>1, ReportTyped
  <2>3. CASE Throw(w)
    BY <1>c, <2>3 DEF Throw, RestTyped
  <2> QED
    BY <1>5, <2>1, <2>2, <2>3 DEF Failing
<1>6. ASSUME NEW w \in Workers, Adding(w) PROVE RestTyped'
  BY <1>6, <1>a DEF Adding, RefreshOffers, EnqueueFirstPoll, ChainOffers, Repoll
<1>7. ASSUME NEW w \in Workers, Complete(w) \/ Crash(w) PROVE RestTyped'
  BY <1>7, <1>a, <1>c DEF Complete, Crash, RestTyped
<1>8. ASSUME NEW w \in Workers, Inside(w) PROVE RestTyped'
  <2>1. CASE NotImportable(w) \/ NothingChanged(w) \/ NoImportId(w)
    <3>1. PICK s \in Status : Report(cur[w], s) /\ UNCHANGED <<hashed, failures>>
      BY <2>1 DEF NotImportable, NothingChanged, NoImportId
    <3> QED
      BY <1>b, <3>1
  <2>2. CASE FinishSyncJob(w)
    <3>1. PICK s \in Status : Report(imports[imp[w]].by, s) /\ UNCHANGED <<hashed, failures>>
      BY <2>2 DEF FinishSyncJob, Outcome
    <3> QED
      BY <1>b, <3>1
  <2>3. CASE UpsertMapping(w)
    <3>1. left[w] \subseteq Variants /\ syncJob' = syncJob /\ UNCHANGED failures
      BY <2>3 DEF UpsertMapping, Base, Types, RegistersTyped
    <3>2. hashed' \subseteq hashed \cup left[w]
      BY <2>3 DEF UpsertMapping
    <3> QED
      BY <3>1, <3>2 DEF RestTyped
  <2>4. CASE Ready(w) \/ NoOffers(w) \/ OffersReady(w) \/ Submit(w) \/ WriteLog(w)
    BY <1>a, <2>4 DEF Ready, NoOffers, OffersReady, Submit, WriteLog
  <2>5. CASE ReadPending(w) \/ ReadTerminal(w) \/ ReadReports(w) \/ FindVariant(w) \/ MarkVariant(w)
    BY <1>a, <2>5 DEF ReadPending, ReadTerminal, ReadReports, FindVariant, MarkVariant
  <2>6. CASE FindPending(w) \/ ResolveLog(w) \/ GiveUp(w)
    BY <1>a, <2>6 DEF FindPending, ResolveLog, GiveUp
  <2> QED
    BY <1>8, <2>1, <2>2, <2>3, <2>4, <2>5, <2>6 DEF Inside
<1>9. CASE Beside
  <2>1. ASSUME NEW j \in PollJobs, HandlerFinishes(j) PROVE RestTyped'
    BY <1>b, <2>1 DEF HandlerFinishes
  <2>2. ASSUME NEW j \in PollJobs, HandlerStep(j), ~HandlerFinishes(j) PROVE RestTyped'
    BY <1>a, <2>2 DEF HandlerStep, HandlerFinds, HandlerResolves, HandlerFails
  <2>3. CASE (\E i \in Imports : Transform(i) \/ Integrate(i)) \/ UNCHANGED vars
    BY <1>a, <2>3 DEF Transform, Integrate, vars
  <2> QED
    BY <1>9, <2>1, <2>2, <2>3 DEF Beside
<1>10. ASSUME NEW j \in Jobs, RecoverStalled(j) \/ LoseLock(j) PROVE RestTyped'
  BY <1>10, <1>a, <1>c DEF RecoverStalled, LoseLock, RestTyped
<1> QED
  BY <1>1, <1>2, <1>3, <1>4, <1>5, <1>6, <1>7, <1>8, <1>9, <1>10, Steps

(* Every variable keeps its type, for any number of jobs, processors,      *)
(* variants, imports and failures: attempts and stalls of a job within     *)
(* their limits (worker/src/index.ts), and whatever the "failed" handler   *)
(* gives up an import that exists (engine.ts, failStalledImport).          *)
THEOREM TypeCorrect == Spec => []TypeOK
<1> DEFINE IInv == Base /\ CountersTyped /\ RestTyped
<1>1. Init => IInv
  <2>1. Init => CountersTyped
    BY QueueAssumption DEF Init, QueueInit, CountersTyped, QueueTypeOK, QueueBudget
  <2>2. Init => RestTyped
    <3>1. Init => severed \in BOOLEAN
      BY ZenonT(30) DEF Init
    <3>2. Init => hashed \subseteq Variants /\ syncJob \in [ProductJobs -> Status] /\ faults \in 0..MaxFaults
      BY ImportAssumption DEF Init
    <3> QED
      BY <3>1, <3>2 DEF RestTyped
  <2> QED
    BY <2>1, <2>2, InitBase
<1>2. IInv /\ [Next]_vars => IInv'
  BY StepBase, StepCountersTyped, StepRestTyped
<1>3. IInv => TypeOK
  <2> SUFFICES ASSUME IInv PROVE TypeOK
    OBVIOUS
  <2>1. DOMAIN imports \subseteq Imports
    BY ImportOf DEF Base
  <2> QED
    BY <2>1 DEF TypeOK, Base, Types, QueueTyped, RowsTyped, SentTyped, RunsTyped, RegistersTyped,
       FoundTyped, CountersTyped, RestTyped
<1> QED
  BY <1>1, <1>2, <1>3, PTL DEF Spec
====
