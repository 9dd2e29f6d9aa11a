----------------------------- MODULE SearchIndex -----------------------------
(***************************************************************************)
(* The product documents of the search engine                               *)
(* (internal/application/search): events that ask for a reindex and their   *)
(* debounce, the run row and the job that a trigger creates, the handler    *)
(* that reads products and writes their documents, and the sweep and the    *)
(* command that give a verdict to runs nobody will finish.  A document is   *)
(* the versions of the product rows it is computed from.                    *)
(***************************************************************************)
EXTENDS Naturals, FiniteSets, Sequences, SequencesExt

CONSTANTS
    Products,          \* products, bundles among them
    Parents,           \* Parents[p]: the bundles that list p as a component
    Events,            \* product events, one asynchronous handler each
    Workers,           \* job workers
    MaxRuns,           \* bound: reindex runs
    MaxRetries,        \* jobs.DefaultMaxRetries
    FullScanPercent,   \* search.reindex_full_scan_threshold
    Everything         \* the scope of a full scan

ASSUME SearchAssumption ==
    /\ IsFiniteSet(Products) /\ Parents \in [Products -> SUBSET Products] /\ Everything \notin Products
    /\ MaxRuns \in Nat /\ MaxRetries \in Nat \ {0} /\ FullScanPercent \in Nat

VARIABLES
    db,         \* products: the version of each row
    index,      \* the documents of the search engine
    recent,     \* lastFire: the product fired within the window
    trailing,   \* products with a trailing timer
    task,       \* handlers of product events and trailing flushes
    runs,       \* search_index_runs: status and scope
    job,        \* jobs of type search.reindex, by run
    worker,     \* what each worker is doing
    sweep,      \* the run a reconcile sweep is about to finish, or 0
    budget,     \* faults that may still happen
    lost        \* history: products whose reindex was given up

searchVars == <<db, index, recent, trailing, task, runs, job, worker, sweep, budget, lost>>

Runs == 1..MaxRuns
Flushes == {<<"flush", p>> : p \in Products}
Tasks == {<<"event", e>> : e \in Events} \cup Flushes

\* What the document of p is computed from: its row and those of its components.
Content(p) == [q \in {x \in Products : x = p \/ p \in Parents[x]} |-> db[q]]

NoTask == [pc |-> "idle", todo |-> <<>>, run |-> 0]
NoRun == [status |-> "none", ids |-> {}, all |-> FALSE]
NoJob == [status |-> "none", attempts |-> 0]
IdleWorker == [pc |-> "idle", run |-> 0, docs |-> <<>>, todo |-> {}]

SearchInit(faults) ==
    /\ db = [p \in Products |-> 0] /\ index = [p \in Products |-> Content(p)]
    /\ recent = {} /\ trailing = {} /\ task = [t \in Tasks |-> NoTask]
    /\ runs = [i \in Runs |-> NoRun] /\ job = [i \in Runs |-> NoJob]
    /\ worker = [w \in Workers |-> IdleWorker]
    /\ sweep = 0 /\ budget = faults /\ lost = {}

Documents == UNION {[S -> Nat] : S \in SUBSET Products}
Task == [pc : {"idle", "allow", "trail", "create", "enqueue", "undo"},
         todo : Seq(Products \cup {Everything}), run : {0} \cup Runs]
Run == [status : {"none", "processing", "completed", "failed"}, ids : SUBSET Products, all : BOOLEAN]
Job == [status : {"none", "pending", "processing", "done", "failed"}, attempts : 0..MaxRetries]
Worker == [pc : {"idle", "list", "index", "finish", "insist", "giveup", "nack", "purge", "purging", "ack"},
           run : {0} \cup Runs, docs : {<<>>} \cup UNION {[S -> Documents] : S \in SUBSET Products},
           todo : SUBSET Products]

SearchTypeOK ==
    /\ db \in [Products -> Nat] /\ index \in [Products -> Documents]
    /\ recent \subseteq Products /\ trailing \subseteq Products /\ lost \subseteq Products
    /\ task \in [Tasks -> Task] /\ runs \in [Runs -> Run] /\ job \in [Runs -> Job]
    /\ worker \in [Workers -> Worker] /\ sweep \in {0} \cup Runs /\ budget \in Nat

NoFault == UNCHANGED budget
\* A statement, a call or a process fails.
Fault == budget > 0 /\ budget' = budget - 1

------------------------------------------------------------------------------
(* Events and their debounce *)

TaskAt(t, pc) == task[t].pc = pc
Current(t) == Head(task[t].todo)
TaskGoto(t, pc) == task' = [task EXCEPT ![t].pc = pc]

\* The next product of scheduleReindexWithBundleParents, or the end of the handler.
NextProduct(t) ==
    task' = [task EXCEPT ![t] = IF Len(@.todo) = 1 THEN NoTask
                                ELSE [pc |-> "allow", todo |-> Tail(@.todo), run |-> 0]]

\* An event about p starts its handler: p, and then the bundles it is part of.
StartReindex(e, p) ==
    task' = [task EXCEPT ![<<"event", e>>] =
                    [pc |-> "allow", todo |-> <<p>> \o SetToSeq(Parents[p] \ {p}), run |-> 0]]

\* An operator or the schedule asks for a full scan.
StartReindexAll(e) ==
    task' = [task EXCEPT ![<<"event", e>>] = [pc |-> "create", todo |-> <<Everything>>, run |-> 0]]

\* ListBundleIDsByComponentID fails: only the product itself is reindexed.
LookupFails(t) ==
    /\ TaskAt(t, "allow") /\ Len(task[t].todo) > 1 /\ ToSet(Tail(task[t].todo)) = Parents[Current(t)] /\ Fault
    /\ task' = [task EXCEPT ![t].todo = <<Current(t)>>]
    /\ lost' = lost \cup ToSet(Tail(task[t].todo))
    /\ UNCHANGED <<db, index, recent, trailing, runs, job, worker, sweep>>

\* allow: reserve the window of the product, or leave it to the trailing flush.
Allow(t) ==
    /\ TaskAt(t, "allow")
    /\ TaskGoto(t, IF Current(t) \in recent THEN "trail" ELSE "create")
    /\ recent' = recent \cup {Current(t)}
    /\ UNCHANGED <<db, index, trailing, runs, job, worker, sweep, lost>> /\ NoFault

\* Mutant: an event inside the window is dropped.
ForgetDebounced(t) ==
    /\ TaskAt(t, "trail") /\ NextProduct(t)
    /\ UNCHANGED <<db, index, recent, trailing, runs, job, worker, sweep, lost>> /\ NoFault

\* scheduleTrailingFlush: one timer per product.
ScheduleTrailingFlush(t) ==
    /\ TaskAt(t, "trail") /\ NextProduct(t)
    /\ trailing' = trailing \cup {Current(t)}
    /\ UNCHANGED <<db, index, recent, runs, job, worker, sweep, lost>> /\ NoFault

\* flushTrailing: the timer of p.  The next one is a window away, longer than a Trigger.
FlushTrailing(p) ==
    /\ p \in trailing /\ TaskAt(<<"flush", p>>, "idle")
    /\ trailing' = trailing \ {p} /\ recent' = recent \cup {p}
    /\ task' = [task EXCEPT ![<<"flush", p>>] = [pc |-> "create", todo |-> <<p>>, run |-> 0]]
    /\ UNCHANGED <<db, index, runs, job, worker, sweep, lost>> /\ NoFault

\* The window of p is over.
WindowEnds(p) ==
    /\ p \in recent /\ recent' = recent \ {p}
    /\ UNCHANGED <<db, index, trailing, task, runs, job, worker, sweep, lost>> /\ NoFault

------------------------------------------------------------------------------
(* ReindexService.Trigger *)

Used == {i \in Runs : runs[i].status # "none"}
Fresh == Cardinality(Used) + 1

\* The products a request of a trigger is about.
Covered(x) == IF x = Everything THEN Products ELSE {x}

\* applyThreshold: too large a part of the catalogue becomes a full scan.
Scope(ids) ==
    LET all == Cardinality(ids) * 100 > FullScanPercent * Cardinality(Products)
    IN [status |-> "processing", all |-> all, ids |-> IF all THEN Products ELSE ids]

\* The run row is inserted.
CreateRun(t) ==
    /\ TaskAt(t, "create") /\ Fresh \in Runs
    /\ runs' = [runs EXCEPT ![Fresh] = Scope(Covered(Current(t)))]
    /\ task' = [task EXCEPT ![t].pc = "enqueue", ![t].run = Fresh]
    /\ UNCHANGED <<db, index, recent, trailing, job, worker, sweep, lost>> /\ NoFault

Enqueue(t) ==
    /\ TaskAt(t, "enqueue") /\ NextProduct(t)
    /\ job' = [job EXCEPT ![task[t].run].status = "pending"]
    /\ UNCHANGED <<db, index, recent, trailing, runs, worker, sweep, lost>> /\ NoFault

\* Create or Enqueue fails.  The reservation is evicted, so that the next event fires.
TriggerFails(t) ==
    /\ task[t].pc \in {"create", "enqueue"} /\ Fault
    /\ recent' = recent \ {Current(t)} /\ lost' = lost \cup Covered(Current(t))
    /\ IF TaskAt(t, "create") THEN NextProduct(t) ELSE TaskGoto(t, "undo")
    /\ UNCHANGED <<db, index, trailing, runs, job, worker, sweep>>

\* UPDATE ... WHERE status = 'processing'.
Finished(i, verdict) ==
    IF runs[i].status = "processing" THEN [runs EXCEPT ![i].status = verdict] ELSE runs

\* The run of a job that was never enqueued is failed, if that statement succeeds.
UndoRun(t) ==
    /\ TaskAt(t, "undo") /\ NextProduct(t)
    /\ \/ runs' = Finished(task[t].run, "failed") /\ NoFault
       \/ UNCHANGED runs /\ Fault
    /\ UNCHANGED <<db, index, recent, trailing, job, worker, sweep, lost>>

------------------------------------------------------------------------------
(* ReindexHandler.Handle in a worker *)

WorkerAt(w, pc) == worker[w].pc = pc
RunOf(w) == worker[w].run
WorkerGoto(w, pc) == worker' = [worker EXCEPT ![w].pc = pc]
\* The job has no attempt left.
LastAttempt(w) == job[RunOf(w)].attempts >= MaxRetries
triggering == <<recent, trailing, task>>

Dequeue(w, i) ==
    /\ WorkerAt(w, "idle") /\ job[i].status = "pending"
    /\ job' = [job EXCEPT ![i] = [status |-> "processing", attempts |-> @.attempts + 1]]
    /\ worker' = [worker EXCEPT ![w] = [pc |-> "list", run |-> i, docs |-> <<>>, todo |-> {}]]
    /\ UNCHANGED <<db, index, triggering, runs, sweep, lost>> /\ NoFault

\* ListByIDs or ListAll: one batch.
ListProducts(w) ==
    /\ WorkerAt(w, "list")
    /\ LET ids == runs[RunOf(w)].ids IN
       worker' = [worker EXCEPT ![w].pc = "index", ![w].todo = ids, ![w].docs = [p \in ids |-> Content(p)]]
    /\ UNCHANGED <<db, index, triggering, runs, job, sweep, lost>> /\ NoFault

IndexProduct(w, p) ==
    /\ WorkerAt(w, "index") /\ p \in worker[w].todo
    /\ index' = [index EXCEPT ![p] = worker[w].docs[p]]
    /\ worker' = [worker EXCEPT ![w].todo = @ \ {p},
                                ![w].pc = IF worker[w].todo = {p} THEN "finish" ELSE "index"]
    /\ UNCHANGED <<db, triggering, runs, job, sweep, lost>> /\ NoFault

\* A read or the engine fails: failIfTerminal writes a verdict only on the last attempt.
HandleFails(w) ==
    /\ worker[w].pc \in {"list", "index"} /\ Fault
    /\ WorkerGoto(w, IF LastAttempt(w) THEN "giveup" ELSE "nack")
    /\ UNCHANGED <<db, index, triggering, runs, job, sweep, lost>>

GiveUp(w) ==
    /\ WorkerAt(w, "giveup") /\ WorkerGoto(w, "nack")
    /\ \/ runs' = Finished(RunOf(w), "failed") /\ NoFault
       \/ UNCHANGED runs /\ Fault
    /\ UNCHANGED <<db, index, triggering, job, sweep, lost>>

\* Where Handle goes when the completed verdict cannot be written: another round
\* of attempts if the job has no other (retryCompletedOnTerminalAttempt).
AfterFinishFails(w) == IF WorkerAt(w, "finish") /\ LastAttempt(w) THEN "insist" ELSE "nack"

FinishRun(w) ==
    /\ worker[w].pc \in {"finish", "insist"}
    /\ \/ runs' = Finished(RunOf(w), "completed") /\ WorkerGoto(w, "purge") /\ NoFault
       \/ UNCHANGED runs /\ WorkerGoto(w, AfterFinishFails(w)) /\ Fault
    /\ UNCHANGED <<db, index, triggering, job, sweep, lost>>

\* The queue hears of the outcome.
Complete(w) ==
    /\ WorkerAt(w, "ack")
    /\ job' = [job EXCEPT ![RunOf(w)].status = "done"]
    /\ worker' = [worker EXCEPT ![w] = IdleWorker]
    /\ UNCHANGED <<db, index, triggering, runs, sweep, lost>> /\ NoFault

Fail(w) ==
    /\ WorkerAt(w, "nack")
    /\ job' = [job EXCEPT ![RunOf(w)].status = IF LastAttempt(w) THEN "failed" ELSE "pending"]
    /\ lost' = IF LastAttempt(w) THEN lost \cup runs[RunOf(w)].ids ELSE lost
    /\ worker' = [worker EXCEPT ![w] = IdleWorker]
    /\ UNCHANGED <<db, index, triggering, runs, sweep>> /\ NoFault

\* The worker dies.  Its job stays processing: nothing requeues it.
WorkerDies(w) ==
    /\ ~WorkerAt(w, "idle") /\ Fault
    /\ worker' = [worker EXCEPT ![w] = IdleWorker]
    /\ lost' = lost \cup runs[RunOf(w)].ids
    /\ UNCHANGED <<db, index, triggering, runs, job, sweep>>

------------------------------------------------------------------------------
(* Verdicts for runs that nobody will finish *)

Abandoned(i) == job[i].status = "processing" /\ \A w \in Workers : RunOf(w) # i
\* Two hours after it was created no Trigger call is still at work on the run.
Stale(i) == runs[i].status = "processing" /\ \A t \in Tasks : task[t].run # i

\* Mutant: a run without a job is left alone.
OrphanedWithJob(i) == job[i].status \in {"done", "failed"}

\* FindReindexJobByRunID: the run has no job, or one that has ended.
Orphaned(i) == job[i].status \in {"none", "done", "failed"}

SweepLooks(i) ==
    /\ sweep = 0 /\ Stale(i) /\ Orphaned(i) /\ sweep' = i
    /\ UNCHANGED <<db, index, triggering, runs, job, worker, lost>> /\ NoFault

SweepFinishes ==
    /\ sweep # 0 /\ sweep' = 0
    /\ \/ runs' = Finished(sweep, "failed") /\ NoFault
       \/ UNCHANGED runs /\ Fault
    /\ UNCHANGED <<db, index, triggering, job, worker, lost>>

\* ReconcileRunManually, by an operator who takes the worker for dead.
ReconcileManually(i) ==
    /\ Stale(i) /\ Fault /\ runs' = Finished(i, "failed")
    /\ UNCHANGED <<db, index, triggering, job, worker, sweep, lost>>

SearchStep ==
    \/ \E t \in Tasks : \/ LookupFails(t) \/ Allow(t) \/ ScheduleTrailingFlush(t)
                        \/ CreateRun(t) \/ Enqueue(t) \/ TriggerFails(t) \/ UndoRun(t)
    \/ \E p \in Products : FlushTrailing(p) \/ WindowEnds(p)
    \/ \E w \in Workers : \/ \E i \in Runs : Dequeue(w, i)
                          \/ \E p \in Products : IndexProduct(w, p)
                          \/ ListProducts(w) \/ HandleFails(w) \/ GiveUp(w) \/ FinishRun(w)
                          \/ Complete(w) \/ Fail(w)
    \/ \E i \in Runs : SweepLooks(i) \/ ReconcileManually(i)
    \/ SweepFinishes

\* What the scheduler sees to: handlers, timers and workers run, and so does the sweep.
SearchProgress ==
    \/ \E t \in Tasks : Allow(t) \/ ScheduleTrailingFlush(t) \/ CreateRun(t) \/ Enqueue(t) \/ UndoRun(t)
    \/ \E p \in Products : FlushTrailing(p)
    \/ \E w \in Workers : \/ \E i \in Runs : Dequeue(w, i)
                          \/ \E p \in Products : IndexProduct(w, p)
                          \/ ListProducts(w) \/ GiveUp(w) \/ FinishRun(w) \/ Complete(w) \/ Fail(w)
    \/ (\E i \in Runs : SweepLooks(i)) \/ SweepFinishes
==============================================================================
