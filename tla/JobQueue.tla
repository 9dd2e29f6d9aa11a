------------------------------ MODULE JobQueue -------------------------------
(***************************************************************************)
(* The jobs table and the workers that poll it: the claim of the oldest job *)
(* that is due, the run of its handler, the record of the outcome, and the  *)
(* administrator's retry and cancel                                         *)
(* (internal/infrastructure/postgres/job_queue.go,                          *)
(* internal/domain/jobs/worker.go).  Every statement is a step; the claim   *)
(* holds a row lock from its SELECT to its commit.                          *)
(***************************************************************************)
EXTENDS Integers, FiniteSets

CONSTANTS
    Jobs,          \* job ids; their order is that of created_at
    Workers,       \* worker processes
    NoJob,         \* what an idle worker works on
    MaxRetries,    \* jobs.max_retries (DefaultMaxRetries)
    MaxReopens,    \* bound: administrator retries
    MaxQueueFaults \* bound: calls that fail and workers that die

ASSUME JobQueueAssumption ==
    /\ Jobs \subseteq Nat /\ NoJob \notin Jobs
    /\ MaxRetries \in Nat \ {0}
    /\ MaxReopens \in Nat /\ MaxQueueFaults \in Nat

VARIABLES
    job,         \* the jobs table; due stands for run_at <= NOW()
    worker,      \* what each worker is doing, and for which job
    succeeded,   \* history: jobs whose handler has returned without an error
    reopens,     \* administrator retries so far
    queueFaults

queueVars == <<job, worker, succeeded, reopens, queueFaults>>

JobStatus == {"absent", "pending", "processing", "done", "failed", "cancelled"}
JobRow == [status : JobStatus, attempts : Nat, due : BOOLEAN]

\* "claim": the row is selected and locked, "handle": the handler runs, then
\* the statements of Complete and Fail.
Pc == {"idle", "claim", "handle", "complete", "fail", "requeue"}
Idle == [pc |-> "idle", job |-> NoJob]

QueueInit ==
    /\ job = [j \in Jobs |-> [status |-> "absent", attempts |-> 0, due |-> TRUE]]
    /\ worker = [w \in Workers |-> Idle]
    /\ succeeded = {}
    /\ reopens = 0 /\ queueFaults = 0

At(w, pc) == worker[w].pc = pc
Goto(w, pc) == worker' = [worker EXCEPT ![w].pc = pc]
Free(w) == worker' = [worker EXCEPT ![w] = Idle]
SetStatus(j, s) == job' = [job EXCEPT ![j].status = s]

\* The row is locked by a claim that has not committed.
Locked(j) == \E w \in Workers : At(w, "claim") /\ worker[w].job = j

\* A republished job id is a Conflict and changes nothing.
Enqueue(j) ==
    /\ job[j].status = "absent"
    /\ SetStatus(j, "pending")
    /\ UNCHANGED <<worker, succeeded, reopens, queueFaults>>

\* The backoff of a requeued job is over.
FallDue(j) ==
    /\ ~job[j].due
    /\ job' = [job EXCEPT ![j].due = TRUE]
    /\ UNCHANGED <<worker, succeeded, reopens, queueFaults>>

\* Mutant: FOR UPDATE without SKIP LOCKED, the status not checked again.
DueOrLocked(j) == job[j].status = "pending" /\ job[j].due

\* WHERE status = 'pending' AND run_at <= NOW() ... SKIP LOCKED.
Claimable(j) == job[j].status = "pending" /\ job[j].due /\ ~Locked(j)

\* The SELECT of Dequeue: the oldest one.
Select(w) ==
    /\ At(w, "idle")
    /\ \E j \in Jobs :
          /\ Claimable(j)
          /\ \A k \in Jobs : Claimable(k) => j <= k
          /\ worker' = [worker EXCEPT ![w] = [pc |-> "claim", job |-> j]]
    /\ UNCHANGED <<job, succeeded, reopens, queueFaults>>

\* The UPDATE of Dequeue and its commit.
Claim(w) ==
    LET j == worker[w].job IN
    /\ At(w, "claim")
    /\ job' = [job EXCEPT ![j].status = "processing", ![j].attempts = @ + 1]
    /\ Goto(w, "handle")
    /\ UNCHANGED <<succeeded, reopens, queueFaults>>

\* The handler ends with success, or with an error, a panic, or no handler.
Handle(w) ==
    /\ At(w, "handle")
    /\ \/ Goto(w, "complete") /\ succeeded' = succeeded \cup {worker[w].job}
       \/ Goto(w, "fail") /\ UNCHANGED succeeded
    /\ UNCHANGED <<job, reopens, queueFaults>>

\* Mutant: a Complete that finds no row calls Fail.
CompleteOrFail(w) ==
    /\ At(w, "complete")
    /\ Goto(w, "fail")
    /\ UNCHANGED <<job, succeeded, reopens, queueFaults>>

Complete(w) ==
    LET j == worker[w].job IN
    /\ At(w, "complete")
    /\ IF job[j].status = "processing" THEN SetStatus(j, "done") ELSE UNCHANGED job
    /\ Free(w)
    /\ UNCHANGED <<succeeded, reopens, queueFaults>>

\* Mutant: attempts > max_retries.
ExhaustedLate(j) == job[j].attempts > MaxRetries

Exhausted(j) == job[j].attempts >= MaxRetries

\* Fail, first statement: attempts >= max_retries.
FailForGood(w) ==
    LET j == worker[w].job IN
    /\ At(w, "fail")
    /\ \/ /\ job[j].status = "processing" /\ Exhausted(j)
          /\ SetStatus(j, "failed") /\ Free(w)
       \/ /\ ~(job[j].status = "processing" /\ Exhausted(j))
          /\ Goto(w, "requeue") /\ UNCHANGED job
    /\ UNCHANGED <<succeeded, reopens, queueFaults>>

\* Mutant: only the schedule is written.
OnlyDelayed(j) == [job[j] EXCEPT !.due = FALSE]

\* pending again, after the backoff.
Requeued(j) == [job[j] EXCEPT !.status = "pending", !.due = FALSE]

\* The statements that read attempts and put the job back.
Requeue(w) ==
    LET j == worker[w].job IN
    /\ At(w, "requeue")
    /\ job' = [job EXCEPT ![j] = IF @.status = "processing" /\ ~Exhausted(j) THEN Requeued(j) ELSE @]
    /\ Free(w)
    /\ UNCHANGED <<succeeded, reopens, queueFaults>>

\* A statement that fails, or the end of the process.  Nobody takes the job
\* over: recordComplete and recordFail only log.  A claim is rolled back, or
\* committed with its answer lost.
Abandon(w) ==
    /\ ~At(w, "idle")
    /\ queueFaults < MaxQueueFaults /\ queueFaults' = queueFaults + 1
    /\ Free(w)
    /\ \/ UNCHANGED job
       \/ /\ At(w, "claim")
          /\ job' = [job EXCEPT ![worker[w].job].status = "processing", ![worker[w].job].attempts = @ + 1]
    /\ UNCHANGED <<succeeded, reopens>>

CanRetry(j) == job[j].status = "failed"

\* Admin.Retry; its lookup only words the refusal, the UPDATE is conditional.
Retry(j) ==
    /\ CanRetry(j) /\ reopens < MaxReopens
    /\ job' = [job EXCEPT ![j] = [status |-> "pending", attempts |-> 0, due |-> TRUE]]
    /\ reopens' = reopens + 1
    /\ UNCHANGED <<worker, succeeded, queueFaults>>

\* Admin.Cancel: waits for a claim that has locked the row, and finds it
\* processing if that claim has committed.
Cancel(j) ==
    /\ job[j].status = "pending" /\ ~Locked(j)
    /\ SetStatus(j, "cancelled")
    /\ UNCHANGED <<worker, succeeded, reopens, queueFaults>>

Work(w) == Select(w) \/ Claim(w) \/ Handle(w) \/ Complete(w) \/ FailForGood(w) \/ Requeue(w)

QueueNext ==
    \/ \E w \in Workers : Work(w) \/ Abandon(w)
    \/ \E j \in Jobs : Enqueue(j) \/ FallDue(j) \/ Retry(j) \/ Cancel(j)

QueueSpec == QueueInit /\ [][QueueNext]_queueVars

\* Workers poll for ever and handlers return; a backoff ends.
FairQueueSpec ==
    /\ QueueSpec
    /\ \A w \in Workers : WF_queueVars(Work(w))
    /\ \A j \in Jobs : WF_queueVars(FallDue(j))

------------------------------------------------------------------------------
(* Properties *)

\* Rows, workers and counters have their types.
QueueTypeOK ==
    /\ job \in [Jobs -> JobRow]
    /\ worker \in [Workers -> [pc : Pc, job : Jobs \cup {NoJob}]]
    /\ succeeded \subseteq Jobs
    /\ reopens \in Nat /\ queueFaults \in Nat

\* JOBS_QUEUE_SYSTEM.md: "no duplicate job processing".  A job is in the hands
\* of one worker at a time, and while its handler runs or its outcome is being
\* recorded nobody cancels, retries or claims it.
OneRunAtATime ==
    /\ \A w, u \in Workers : w # u /\ ~At(w, "idle") => worker[w].job # worker[u].job
    /\ \A w \in Workers :
          ~At(w, "idle") =>
              job[worker[w].job].status = IF At(w, "claim") THEN "pending" ELSE "processing"

\* A job whose handler has succeeded is never run again, cancelled or reported
\* as failed, whatever becomes of its worker.
SuccessIsFinal ==
    \A j \in succeeded :
        /\ job[j].status \in {"processing", "done"}
        /\ \A w \in Workers : worker[w].job = j => At(w, "complete")

\* A handler runs at most max_retries times between two administrator retries,
\* and a job that failed for good has used them all.
AttemptsBounded ==
    \A j \in Jobs :
        /\ job[j].attempts <= MaxRetries
        /\ job[j].status = "failed" => job[j].attempts = MaxRetries

\* The row says processing, and the worker that claimed it is gone.
Abandoned(j) == job[j].status = "processing" /\ \A w \in Workers : worker[w].job # j

\* Every job that is enqueued ends, however many workers compete for it and
\* however often its handler fails, unless the worker running it is lost; and
\* each lost call or worker costs one job at most.
EveryJobEnds ==
    \A j \in Jobs :
        job[j].status = "pending" ~>
            \/ job[j].status \in {"done", "failed", "cancelled"}
            \/ Abandoned(j) /\ Cardinality({k \in Jobs : Abandoned(k)}) <= queueFaults
==============================================================================
