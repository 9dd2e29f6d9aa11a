----------------------------- MODULE RedisQueue ------------------------------
(***************************************************************************)
(* The job queue kept in Redis (internal/infrastructure/redis/job_queue.go) *)
(* and the workers that poll it (internal/domain/jobs/worker.go): a record  *)
(* per job, a list of ready ids, a list of ids in processing and a sorted   *)
(* set of delayed ids.  Each command is atomic, an operation is several of  *)
(* them, and whatever comes between two commands may come in between: other *)
(* clients, an error, the end of the process.                               *)
(***************************************************************************)
EXTENDS Integers, Sequences, FiniteSets, SequencesExt

CONSTANTS
    Jobs,         \* ids of jobs
    Workers,      \* worker loops
    MaxRetries,   \* max_retries of a job
    MaxFaults,    \* bound: commands that fail, processes that die
    NoJob         \* no job

ASSUME QueueAssumption == NoJob \notin Jobs /\ IsFiniteSet(Jobs) /\ IsFiniteSet(Workers) /\ MaxRetries \in Nat \ {0} /\ MaxFaults \in Nat

VARIABLES
    rec,          \* job:<id>
    ready,        \* the list of ready ids, the next one last
    processing,   \* how often each id is on the processing list
    delayed,      \* ids in the delayed set
    worker,       \* what each worker is doing
    faults,
    workerFaults  \* history: the faults that hit a worker

lists == <<ready, processing, delayed>>
queue == <<rec, lists>>

NoRecord == [status |-> "absent", attempts |-> 0]
Fresh == [status |-> "pending", attempts |-> 0]
Record == [status : {"absent", "pending", "processing", "done", "failed"}, attempts : Nat]
Polling == [pc |-> "poll", job |-> NoJob, copy |-> NoRecord, failed |-> FALSE]

QueueInit ==
    /\ rec = [j \in Jobs |-> NoRecord]
    /\ ready = <<>> /\ processing = [j \in Jobs |-> 0] /\ delayed = {}
    /\ worker = [w \in Workers |-> Polling]
    /\ faults = 0 /\ workerFaults = 0

Fault == faults < MaxFaults /\ faults' = faults + 1
NoFault == UNCHANGED <<faults, workerFaults>>
WorkerFault == Fault /\ workerFaults' = workerFaults + 1
ClientFault == Fault /\ UNCHANGED workerFaults

At(w, pc) == worker[w].pc = pc
Job(w) == worker[w].job
Copy(w) == worker[w].copy
Goto(w, pc) == worker' = [worker EXCEPT ![w].pc = pc]
Poll(w) == worker' = [worker EXCEPT ![w] = Polling]

LPush(j) == ready' = <<j>> \o ready
OnProcessing(j) == processing[j] > 0

------------------------------------------------------------------------------
(* Enqueue: the record, then the list.  The caller sees an error when either   *)
(* command fails, and cannot tell whether the second was applied.              *)

SaveNew(j) == rec' = [rec EXCEPT ![j] = Fresh] /\ UNCHANGED lists

PushNew(j) == LPush(j) /\ UNCHANGED <<rec, processing, delayed>>

------------------------------------------------------------------------------
(* Dequeue *)

\* promoteDelayedLua, run at the start of every poll: the ids whose time has come.
Promote(w) ==
    /\ At(w, "poll")
    /\ \E due \in SUBSET delayed :
          /\ due # {}
          /\ delayed' = delayed \ due
          /\ ready' = SetToSeq(due) \o ready
    /\ UNCHANGED <<rec, processing, worker>> /\ NoFault

\* RPopLPush.
Claim(w) ==
    /\ At(w, "poll") /\ ready # <<>>
    /\ ready' = Front(ready)
    /\ processing' = [processing EXCEPT ![Last(ready)] = @ + 1]
    /\ worker' = [worker EXCEPT ![w] = [pc |-> "load", job |-> Last(ready), copy |-> NoRecord, failed |-> FALSE]]
    /\ UNCHANGED <<rec, delayed>> /\ NoFault

\* loadJob; an error gives the claim back.
Load(w) ==
    /\ At(w, "load")
    /\ \/ /\ rec[Job(w)] # NoRecord /\ NoFault
          /\ worker' = [worker EXCEPT ![w].pc = "save", ![w].copy = rec[Job(w)]]
       \/ ((rec[Job(w)] = NoRecord /\ NoFault) \/ WorkerFault) /\ Goto(w, "release")
    /\ UNCHANGED queue

\* The record says processing and counts the attempt.
Started(r) == [status |-> "processing", attempts |-> r.attempts + 1]

SaveClaim(w) ==
    /\ At(w, "save")
    /\ \/ /\ NoFault
          /\ rec' = [rec EXCEPT ![Job(w)] = Started(Copy(w))]
          /\ Goto(w, "handle")
       \/ WorkerFault /\ Goto(w, "release") /\ UNCHANGED rec
    /\ UNCHANGED lists

\* releaseClaim: two commands, and the second is not reached when the first fails.
Release(w) ==
    /\ At(w, "release")
    /\ \/ /\ NoFault
          /\ processing' = [processing EXCEPT ![Job(w)] = IF OnProcessing(Job(w)) THEN @ - 1 ELSE @]
          /\ Goto(w, "requeue")
       \/ WorkerFault /\ Poll(w) /\ UNCHANGED processing
    /\ UNCHANGED <<rec, ready, delayed>>

Requeue(w) ==
    /\ At(w, "requeue")
    /\ (NoFault /\ LPush(Job(w))) \/ (WorkerFault /\ UNCHANGED ready)
    /\ Poll(w)
    /\ UNCHANGED <<rec, processing, delayed>>

------------------------------------------------------------------------------
(* Complete and Fail *)

\* What the handler has returned is recorded, with a context of its own.
Return(w, failed) == worker' = [worker EXCEPT ![w].pc = "lrem", ![w].failed = failed]

\* LREM, which decides who records the outcome.
LRem(w) ==
    /\ At(w, "lrem")
    /\ \/ /\ OnProcessing(Job(w)) /\ NoFault
          /\ processing' = [processing EXCEPT ![Job(w)] = @ - 1]
          /\ Goto(w, "reload")
       \/ /\ (~OnProcessing(Job(w)) /\ NoFault) \/ WorkerFault
          /\ Poll(w)
          /\ UNCHANGED processing
    /\ UNCHANGED <<rec, ready, delayed>>

Reload(w) ==
    /\ At(w, "reload")
    /\ \/ NoFault /\ worker' = [worker EXCEPT ![w].pc = "record", ![w].copy = rec[Job(w)]]
       \/ WorkerFault /\ Poll(w)
    /\ UNCHANGED queue

\* Mutant: the job is given up one attempt late.
ExhaustedLate(r) == r.attempts > MaxRetries

Exhausted(r) == r.attempts >= MaxRetries

Outcome(w) ==
    [Copy(w) EXCEPT !.status = IF ~worker[w].failed THEN "done" ELSE IF Exhausted(Copy(w)) THEN "failed" ELSE "pending"]

\* After the record of a job to be retried, its place in the delayed set.
ToDelay(w) == IF Outcome(w).status = "pending" THEN Goto(w, "delay") ELSE Poll(w)

RecordOutcome(w) ==
    /\ At(w, "record")
    /\ \/ NoFault /\ rec' = [rec EXCEPT ![Job(w)] = Outcome(w)] /\ ToDelay(w)
       \/ WorkerFault /\ Poll(w) /\ UNCHANGED rec
    /\ UNCHANGED lists

Delay(w) ==
    /\ At(w, "delay")
    /\ (NoFault /\ delayed' = delayed \cup {Job(w)}) \/ (WorkerFault /\ UNCHANGED delayed)
    /\ Poll(w)
    /\ UNCHANGED <<rec, ready, processing>>

\* The worker's process ends; another one takes its place.
WorkerDies(w) ==
    /\ ~At(w, "poll")
    /\ WorkerFault
    /\ Poll(w)
    /\ UNCHANGED queue

Work(w) ==
    Claim(w) \/ Load(w) \/ SaveClaim(w) \/ Release(w) \/ Requeue(w) \/ LRem(w) \/ Reload(w) \/ RecordOutcome(w) \/ Delay(w)

\* An id on a list, or in the hands of a worker that will put it on one or record
\* how it ended.
Kept(j) ==
    \/ OnProcessing(j) \/ j \in delayed \/ \E i \in DOMAIN ready : ready[i] = j
    \/ \E w \in Workers : Job(w) = j
==============================================================================
