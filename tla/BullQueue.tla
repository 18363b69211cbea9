----------------------------- MODULE BullQueue -----------------------------
(***************************************************************************)
(* The life of a BullMQ job as this repository uses it: producers add jobs *)
(* under a deterministic id, worker/src/index.ts takes them with the retry *)
(* options of packages/sync/src/queues.ts, a processor that throws is run  *)
(* again until its attempts are spent.  BullMQ itself is a library: its    *)
(* part (the lock of a running job, the stalled-job check, an add() of a   *)
(* known id being dropped) is modelled from how worker/src/index.ts and    *)
(* queue-producer.service.ts rely on it.                                   *)
(*                                                                         *)
(* Backoff delays are not modelled: a waiting job may start at any time.   *)
(***************************************************************************)
EXTENDS Naturals

CONSTANTS
    Jobs,         \* job ids
    Workers,      \* processors of the queue: worker processes times concurrency
    NoWorker,     \* the holder of a job nobody runs
    MaxAttempts,  \* DEFAULT_JOB_RETRY_OPTIONS.attempts
    MaxStalls     \* how often a stalled job is run again (BullMQ's maxStalledCount)

ASSUME QueueAssumption ==
    /\ NoWorker \notin Workers
    /\ MaxAttempts \in Nat \ {0}
    /\ MaxStalls \in Nat

VARIABLES
    job,       \* the state of each job id
    attempts,  \* attempts of the job that ended in an exception
    stalls,    \* times the job was found without a live lock
    holder     \* the processor whose lock covers the job

queueVars == <<job, attempts, stalls, holder>>

JobStates == {"absent", "waiting", "active", "completed", "failed"}

QueueTypeOK ==
    /\ job \in [Jobs -> JobStates]
    /\ attempts \in [Jobs -> 0..MaxAttempts]
    /\ stalls \in [Jobs -> 0..(MaxStalls + 1)]
    /\ holder \in [Jobs -> Workers \cup {NoWorker}]

(* A job that may still run has attempts and stalls to spend. *)
QueueBudget ==
    \A j \in Jobs :
        job[j] \in {"absent", "waiting", "active"} =>
            attempts[j] < MaxAttempts /\ stalls[j] <= MaxStalls

QueueInit ==
    /\ job = [j \in Jobs |-> "absent"]
    /\ attempts = [j \in Jobs |-> 0]
    /\ stalls = [j \in Jobs |-> 0]
    /\ holder = [j \in Jobs |-> NoWorker]

Known(j) == job[j] # "absent"

Ended(j) == job[j] \in {"completed", "failed"}

(* Job j is covered by the lock of w: what w reports about it still counts. *)
Holds(w, j) == job[j] = "active" /\ holder[j] = w

(* queue.add: BullMQ drops the add when the id exists, in any state. *)
AddJob(j) ==
    /\ job' = [job EXCEPT ![j] = IF Known(j) THEN @ ELSE "waiting"]
    /\ UNCHANGED <<attempts, stalls, holder>>

(* Job.remove: the id is free again. *)
FreeJob(j) ==
    /\ job' = [job EXCEPT ![j] = "absent"]
    /\ attempts' = [attempts EXCEPT ![j] = 0]
    /\ stalls' = [stalls EXCEPT ![j] = 0]
    /\ UNCHANGED holder

(* queue.add after a finished job under the id has been removed. *)
RenewJob(j) ==
    /\ job' = [job EXCEPT ![j] = IF Known(j) /\ ~Ended(j) THEN @ ELSE "waiting"]
    /\ attempts' = [attempts EXCEPT ![j] = IF Ended(j) THEN 0 ELSE @]
    /\ stalls' = [stalls EXCEPT ![j] = IF Ended(j) THEN 0 ELSE @]
    /\ UNCHANGED holder

(* A processor fetches a waiting job and takes its lock. *)
TakeJob(w, j) ==
    /\ job[j] = "waiting"
    /\ job' = [job EXCEPT ![j] = "active"]
    /\ holder' = [holder EXCEPT ![j] = w]
    /\ UNCHANGED <<attempts, stalls>>

(* The processor returned.  Without the lock the report is refused. *)
CompleteJob(w, j) ==
    /\ job' = [job EXCEPT ![j] = IF Holds(w, j) THEN "completed" ELSE @]
    /\ holder' = [holder EXCEPT ![j] = IF Holds(w, j) THEN NoWorker ELSE @]
    /\ UNCHANGED <<attempts, stalls>>

(* The same for a job added with removeOnComplete: its id is free again. *)
RemoveJob(w, j) ==
    /\ job' = [job EXCEPT ![j] = IF Holds(w, j) THEN "absent" ELSE @]
    /\ attempts' = [attempts EXCEPT ![j] = IF Holds(w, j) THEN 0 ELSE @]
    /\ stalls' = [stalls EXCEPT ![j] = IF Holds(w, j) THEN 0 ELSE @]
    /\ holder' = [holder EXCEPT ![j] = IF Holds(w, j) THEN NoWorker ELSE @]

(* Faulty variant: attempts that are not counted. *)
FailJobUncounted(w, j) ==
    /\ job' = [job EXCEPT ![j] = IF Holds(w, j) THEN "waiting" ELSE @]
    /\ holder' = [holder EXCEPT ![j] = IF Holds(w, j) THEN NoWorker ELSE @]
    /\ UNCHANGED <<attempts, stalls>>

(* The processor threw: another attempt if any is left, otherwise failed. *)
FailJob(w, j) ==
    /\ job' = [job EXCEPT ![j] =
                  IF ~Holds(w, j) THEN @
                  ELSE IF attempts[j] + 1 < MaxAttempts THEN "waiting" ELSE "failed"]
    /\ attempts' = [attempts EXCEPT ![j] = IF Holds(w, j) THEN @ + 1 ELSE @]
    /\ holder' = [holder EXCEPT ![j] = IF Holds(w, j) THEN NoWorker ELSE @]
    /\ UNCHANGED stalls

(* The processor of a job added without attempts threw. *)
FailForGood(w, j) ==
    /\ job' = [job EXCEPT ![j] = IF Holds(w, j) THEN "failed" ELSE @]
    /\ holder' = [holder EXCEPT ![j] = IF Holds(w, j) THEN NoWorker ELSE @]
    /\ UNCHANGED <<attempts, stalls>>

(* The stalled-job check found an active job whose lock has expired. *)
StallJob(j) ==
    /\ job[j] = "active"
    /\ job' = [job EXCEPT ![j] = IF stalls[j] < MaxStalls THEN "waiting" ELSE "failed"]
    /\ stalls' = [stalls EXCEPT ![j] = @ + 1]
    /\ holder' = [holder EXCEPT ![j] = NoWorker]
    /\ UNCHANGED attempts

=============================================================================
