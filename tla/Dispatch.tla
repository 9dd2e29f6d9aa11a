------------------------------ MODULE Dispatch -------------------------------
(***************************************************************************)
(* What follows a shipment or a payment: the status of a shipment           *)
(* (internal/application/shipping), the event its change publishes on the   *)
(* bus, the handlers that turn the event into jobs (the e-mail with its     *)
(* dedupe claim, internal/application/notification, and the webhooks of     *)
(* the merchant, internal/application/webhook), and the Redis queue whose   *)
(* workers send them.  One shipment and one order stand for all: claims,    *)
(* jobs and rows of different orders do not meet.                           *)
(***************************************************************************)
EXTENDS EventBus, RedisQueue

CONSTANTS
    Shipped, Paid,  \* the topics: shipment.shipped and order.paid
    Endpoints,   \* webhook endpoints, numbered in the order of the list
    MaxPaid,     \* bound: publications of order.paid
    Setups       \* what a behaviour consists of: topics, callers and workers that are up,
                 \* and whether the order has a recipient

Topics == {Shipped, Paid}
Hooks == Endpoints \X (1..MaxPaid)

ASSUME DispatchAssumption ==
    /\ Jobs = Topics \cup Hooks /\ MaxPaid \in Nat
    /\ Shipped # Paid /\ Topics \cap Hooks = {}
    /\ Endpoints \subseteq Nat /\ IsFiniteSet(Endpoints)
    /\ Setups \subseteq [topics : SUBSET Topics, callers : SUBSET Callers, workers : SUBSET Workers, recipient : BOOLEAN]

VARIABLES
    up,         \* the setup of this behaviour
    shipment,   \* shipments: status, and updated_at as a version
    order,      \* "live", or cancelled or failed
    claim,      \* notification_dedupe, by topic
    active,     \* webhook_endpoints that are active and subscribed
    paid,       \* publications of order.paid so far
    mails,      \* history: e-mails sent, by topic
    posts       \* history: requests to an endpoint, by job

rows == <<up, shipment, order, claim, active>>
history == <<paid, mails, posts>>
outside == <<rows, history>>
vars == <<caller, handler, bus, queue, worker, faults, workerFaults, outside>>

NoClaim == [status |-> "none", stale |-> FALSE]
Pending == [status |-> "pending", stale |-> FALSE]
Stale == [status |-> "pending", stale |-> TRUE]

Init ==
    /\ BusInit /\ QueueInit
    /\ up \in Setups
    /\ shipment = [status |-> "pending", ver |-> 0] /\ order = "live"
    /\ claim = [t \in Topics |-> NoClaim]
    /\ active = Endpoints
    /\ paid = 0 /\ mails = [t \in Topics |-> 0] /\ posts = [j \in Hooks |-> 0]

------------------------------------------------------------------------------
(* The status of a shipment *)

Target == [ship |-> "shipped", deliver |-> "delivered", cancel |-> "cancelled"]
Source == [ship |-> "pending", deliver |-> "shipped", cancel |-> "pending"]

\* FindByOrderID.  A repeated delivery or cancellation ends here; a repeated
\* MarkShipped goes on, to publish again.
LoadShipment(c, op) ==
    /\ Free(c) /\ c \in up.callers /\ Shipped \in up.topics
    /\ shipment.status = Target[op] => op = "ship"
    /\ caller' = [caller EXCEPT ![c] = [pc |-> IF op = "cancel" THEN "update" ELSE "check", op |-> op,
                                         topic |-> Shipped, row |-> shipment]]
    /\ UNCHANGED <<handler, bus, queue, worker, outside>> /\ NoFault

\* requireFulfillableOrder.
CheckOrder(c) ==
    /\ CallerAt(c, "check")
    /\ IF order # "live" THEN EndCall(c)
       ELSE IF caller[c].op = "ship" /\ caller[c].row.status = "shipped" THEN CallerGoto(c, "publish")
       ELSE CallerGoto(c, "update")
    /\ UNCHANGED <<handler, bus, queue, worker, outside>> /\ NoFault

\* Mutant: the row read before is overwritten whatever it has become.
AnyVersion(row) == TRUE

\* WHERE updated_at = the one that was read.
SameVersion(row) == shipment.ver = row.ver

\* The transition on the copy, then the conditional UPDATE; only shipment.shipped
\* has a subscriber.
UpdateShipment(c) ==
    LET op == caller[c].op
        done == caller[c].row.status = Source[op] /\ SameVersion(caller[c].row)
    IN
    /\ CallerAt(c, "update")
    /\ shipment' = IF done THEN [status |-> Target[op], ver |-> shipment.ver + 1] ELSE shipment
    /\ IF done /\ op = "ship" THEN CallerGoto(c, "publish") ELSE EndCall(c)
    /\ UNCHANGED <<handler, bus, queue, worker, up, order, claim, active, history>> /\ NoFault

\* The order is cancelled by somebody else.
CancelOrder ==
    /\ order = "live" /\ Shipped \in up.topics
    /\ order' = "cancelled"
    /\ UNCHANGED <<caller, handler, bus, queue, worker, up, shipment, claim, active, history>> /\ NoFault

PublishPaid(c) ==
    /\ Free(c) /\ c \in up.callers /\ Paid \in up.topics /\ paid < MaxPaid
    /\ paid' = paid + 1
    /\ caller' = [caller EXCEPT ![c] = [pc |-> "publish", topic |-> Paid, n |-> paid + 1]]
    /\ UNCHANGED <<handler, bus, queue, worker, rows, mails, posts>> /\ NoFault

AdmitHandlers(c) == Admit(c) /\ UNCHANGED <<queue, worker, outside>> /\ NoFault

\* The subscribers of each topic.
Subscribers(c) ==
    LET t == caller[c].topic
        mail == [kind |-> "mail", pc |-> "order", topic |-> t]
    IN  IF t = Shipped THEN <<mail>> ELSE <<mail, [kind |-> "hook", pc |-> "list", n |-> caller[c].n, todo |-> {}]>>

SpawnHandlers(c) == Spawn(c, Subscribers(c)) /\ UNCHANGED <<queue, worker, outside>> /\ NoFault

------------------------------------------------------------------------------
(* The e-mail of a topic *)

Mail(h, pc) == HandlerAt(h, pc) /\ handler[h].kind = "mail"
Topic(h) == handler[h].topic
SetClaim(t, c) == claim' = [claim EXCEPT ![t] = c]
keep == <<caller, phase, readers, drained, worker, up, shipment, order, active, history>>

\* A command of the handler that needs a live context fails: a fault, or shutdown.
CommandFails == ClientFault \/ (~Live /\ NoFault)

\* resolveOrderRecipient finds somebody, and a shipped order is not cancelled.
Mailable(t) == up.recipient /\ (t = Shipped => order = "live")

\* HandleShipmentShipped and HandleOrderPaid read the order and the recipient.
ReadOrder(h) ==
    /\ Mail(h, "order")
    /\ \/ Live /\ NoFault /\ Mailable(Topic(h)) /\ HandlerGoto(h, "claim") /\ UNCHANGED wg
       \/ ((Live /\ NoFault /\ ~Mailable(Topic(h))) \/ CommandFails) /\ EndHandler(h)
    /\ UNCHANGED <<keep, queue, claim>>

\* Mutant: the claim does not keep a second handler out.
ClaimAnyway(t) == TRUE

\* The row is new.
Unclaimed(t) == claim[t] = NoClaim

\* TryInsert.  A stale claim is deleted by a CTE of the statement that inserts the
\* new one, and the database may run either first: the insert then meets the old row.
TryInsert(h) ==
    LET t == Topic(h) IN
    /\ Mail(h, "claim")
    /\ \/ Live /\ NoFault /\ (Unclaimed(t) \/ claim[t].stale) /\ SetClaim(t, Pending) /\ HandlerGoto(h, "save") /\ UNCHANGED wg
       \/ Live /\ NoFault /\ claim[t].stale /\ SetClaim(t, NoClaim) /\ EndHandler(h)
       \/ Live /\ NoFault /\ ~Unclaimed(t) /\ ~claim[t].stale /\ UNCHANGED claim /\ EndHandler(h)
       \/ CommandFails /\ UNCHANGED claim /\ EndHandler(h)
    /\ UNCHANGED <<keep, queue>>

\* Enqueue under the id that the topic's subject determines.
EnqueueSave(h) ==
    /\ Mail(h, "save")
    /\ \/ Live /\ NoFault /\ SaveNew(Topic(h)) /\ HandlerGoto(h, "push")
       \/ CommandFails /\ UNCHANGED queue /\ HandlerGoto(h, "release")
    /\ UNCHANGED <<keep, wg, claim>>

EnqueuePush(h) ==
    /\ Mail(h, "push")
    /\ \/ Live /\ NoFault /\ PushNew(Topic(h)) /\ HandlerGoto(h, "complete")
       \/ CommandFails /\ UNCHANGED queue /\ HandlerGoto(h, "release")
       \/ ClientFault /\ PushNew(Topic(h)) /\ HandlerGoto(h, "release")
    /\ UNCHANGED <<keep, wg, claim>>

\* Mutant: the claim of a failed enqueue is kept for good.
KeepClaim(t) == SetClaim(t, [status |-> "completed", stale |-> FALSE])

\* Delete, whoever the row belongs to by now.
DropClaim(t) == SetClaim(t, NoClaim)

\* completeDedupeClaim and releaseDedupeClaim, with a context of their own.
SettleClaim(h) ==
    LET t == Topic(h) IN
    /\ Mail(h, "complete") \/ Mail(h, "release")
    /\ \/ NoFault /\ HandlerAt(h, "complete") /\ claim' = [claim EXCEPT ![t] = IF @ = NoClaim THEN @ ELSE [status |-> "completed", stale |-> FALSE]]
       \/ NoFault /\ HandlerAt(h, "release") /\ DropClaim(t)
       \/ ClientFault /\ UNCHANGED claim
    /\ EndHandler(h)
    /\ UNCHANGED <<keep, queue>>

\* A handler has claimed the topic and is not done with it.
Working(t) == \E h \in Slots : (\E pc \in {"save", "push", "complete", "release"} : Mail(h, pc)) /\ Topic(h) = t

\* Ten minutes pass over a pending claim.
Age(t) ==
    /\ claim[t] = Pending
    /\ SetClaim(t, Stale)
    /\ UNCHANGED <<caller, handler, bus, queue, worker, up, shipment, order, active, history>>

\* The handler that made it is gone, or hangs that long.
GoStale(t) == ~Working(t) /\ Age(t) /\ NoFault
Hang(t) == Working(t) /\ Age(t) /\ ClientFault

------------------------------------------------------------------------------
(* Webhooks *)

Hook(h, pc) == HandlerAt(h, pc) /\ handler[h].kind = "hook"
HookJob(h) == <<Min(handler[h].todo), handler[h].n>>

ListActive(h) ==
    /\ Hook(h, "list")
    /\ \/ Live /\ NoFault /\ active # {} /\ handler' = [handler EXCEPT ![h].pc = "save", ![h].todo = active] /\ UNCHANGED wg
       \/ ((Live /\ NoFault /\ active = {}) \/ CommandFails) /\ EndHandler(h)
    /\ UNCHANGED <<keep, queue, claim>>

\* One job for each endpoint, until one cannot be enqueued.
HookSave(h) ==
    /\ Hook(h, "save")
    /\ \/ Live /\ NoFault /\ SaveNew(HookJob(h)) /\ HandlerGoto(h, "push") /\ UNCHANGED wg
       \/ CommandFails /\ UNCHANGED queue /\ EndHandler(h)
    /\ UNCHANGED <<keep, claim>>

NextHook(h) ==
    LET rest == handler[h].todo \ {Min(handler[h].todo)} IN
    IF rest = {} THEN EndHandler(h)
    ELSE handler' = [handler EXCEPT ![h].pc = "save", ![h].todo = rest] /\ UNCHANGED wg

HookPush(h) ==
    /\ Hook(h, "push")
    /\ \/ Live /\ NoFault /\ PushNew(HookJob(h)) /\ NextHook(h)
       \/ CommandFails /\ UNCHANGED queue /\ EndHandler(h)
       \/ ClientFault /\ PushNew(HookJob(h)) /\ EndHandler(h)
    /\ UNCHANGED <<keep, claim>>

\* An administrator deactivates or deletes an endpoint.
Deactivate(e) ==
    /\ e \in active /\ Paid \in up.topics
    /\ active' = active \ {e}
    /\ UNCHANGED <<caller, handler, bus, queue, worker, up, shipment, order, claim, history>> /\ NoFault

------------------------------------------------------------------------------
(* What the jobs do *)

SendMail(w) ==
    LET t == Job(w) IN
    /\ At(w, "handle") /\ t \in Topics
    /\ \/ NoFault /\ Return(w, FALSE) /\ mails' = [mails EXCEPT ![t] = @ + 1]
       \/ WorkerFault /\ Return(w, TRUE) /\ (UNCHANGED mails \/ mails' = [mails EXCEPT ![t] = @ + 1])
    /\ UNCHANGED <<caller, handler, bus, queue, rows, paid, posts>>

\* DeliverHandler.Handle: skipped when the endpoint is gone, done when it accepts or
\* refuses for good, to be retried otherwise.
Deliver(w) ==
    LET j == Job(w) IN
    /\ At(w, "handle") /\ j \in Hooks
    /\ \/ j[1] \notin active /\ Return(w, FALSE) /\ UNCHANGED posts
       \/ /\ j[1] \in active
          /\ posts' = [posts EXCEPT ![j] = @ + 1]
          /\ \E failed \in BOOLEAN : Return(w, failed)
    /\ UNCHANGED <<caller, handler, bus, queue, rows, paid, mails>> /\ NoFault

------------------------------------------------------------------------------

QueueWork(w) == w \in up.workers /\ Work(w) /\ UNCHANGED <<caller, handler, bus, outside>>
PromoteDelayed(w) == w \in up.workers /\ Promote(w) /\ UNCHANGED <<caller, handler, bus, outside>>
LoseWorker(w) == WorkerDies(w) /\ UNCHANGED <<caller, handler, bus, outside>>

\* The process that publishes dies.
Crash ==
    /\ ClientFault
    /\ Restarted
    /\ UNCHANGED <<queue, worker, outside>>

\* A restart counts as a fault: it cuts handlers short.
StartShutdown == BeginShutdown /\ UNCHANGED <<queue, worker, outside>> /\ ClientFault
FinishShutdown == (Drained \/ CancelStragglers \/ Exit) /\ UNCHANGED <<queue, worker, outside>> /\ NoFault

Handle(h) ==
    \/ ReadOrder(h) \/ TryInsert(h) \/ EnqueueSave(h) \/ EnqueuePush(h) \/ SettleClaim(h)
    \/ ListActive(h) \/ HookSave(h) \/ HookPush(h)
CallStep(c) == CheckOrder(c) \/ UpdateShipment(c) \/ AdmitHandlers(c) \/ SpawnHandlers(c)
RunJob(w) == QueueWork(w) \/ SendMail(w) \/ Deliver(w)
RetryShip == \E c \in Callers : LoadShipment(c, "ship")

Next ==
    \/ \E c \in Callers : (\E op \in DOMAIN Target : LoadShipment(c, op)) \/ PublishPaid(c) \/ CallStep(c)
    \/ \E h \in Slots : Handle(h)
    \/ \E w \in Workers : RunJob(w) \/ PromoteDelayed(w) \/ LoseWorker(w)
    \/ \E t \in Topics : GoStale(t) \/ Hang(t)
    \/ \E e \in Endpoints : Deactivate(e)
    \/ CancelOrder \/ StartShutdown \/ FinishShutdown \/ Crash

Spec == Init /\ [][Next]_vars

\* Goroutines, requests and workers run on, time passes, a process that shuts down
\* ends, delayed jobs fall due, and whoever reported the shipment reports it again.
Fairness ==
    /\ \A h \in Slots : WF_vars(Handle(h))
    /\ \A c \in Callers : WF_vars(CallStep(c))
    /\ \A w \in Workers : WF_vars(RunJob(w)) /\ WF_vars(PromoteDelayed(w))
    /\ \A t \in Topics : WF_vars(GoStale(t))
    /\ WF_vars(FinishShutdown)
    /\ SF_vars(RetryShip)

FairSpec == Spec /\ Fairness

------------------------------------------------------------------------------
(* Properties *)

Shipments == [status : {"pending", "shipped", "delivered", "cancelled"}, ver : Nat]
ShipmentCalls == [pc : {"check", "update", "publish", "add"}, op : DOMAIN Target, topic : {Shipped}, row : Shipments]
PaidCalls == [pc : {"publish", "add"}, topic : {Paid}, n : 1..MaxPaid]
MailHandlers == [kind : {"mail"}, pc : {"order", "claim", "save", "push", "complete", "release"}, topic : Topics]
HookHandlers == [kind : {"hook"}, pc : {"list", "save", "push"}, n : 1..MaxPaid, todo : SUBSET Endpoints]
WorkerPc == {"poll", "load", "save", "handle", "release", "requeue", "lrem", "reload", "record", "delay"}

\* Rows, lists, claims and goroutines have their types.
TypeOK ==
    /\ rec \in [Jobs -> Record] /\ ready \in Seq(Jobs) /\ processing \in [Jobs -> Nat] /\ delayed \subseteq Jobs
    /\ worker \in [Workers -> [pc : WorkerPc, job : Jobs \cup {NoJob}, copy : Record, failed : BOOLEAN]]
    /\ \A w \in Workers : Job(w) = NoJob <=> At(w, "poll")
    /\ caller \in [Callers -> {Idle} \cup ShipmentCalls \cup PaidCalls]
    /\ handler \in [Slots -> {Idle} \cup MailHandlers \cup HookHandlers]
    /\ wg \in 0..Cardinality(Slots) /\ phase \in {"up", "closing", "cancelled"} /\ readers \subseteq Callers
    /\ drained \in BOOLEAN
    /\ shipment \in Shipments /\ up \in Setups /\ order \in {"live", "cancelled"}
    /\ claim \in [Topics -> [status : {"none", "pending", "completed"}, stale : BOOLEAN]]
    /\ active \subseteq Endpoints /\ faults \in 0..MaxFaults /\ paid \in 0..MaxPaid
    /\ mails \in [Topics -> Nat] /\ posts \in [Hooks -> Nat] /\ workerFaults \in Nat

\* Requests that change a shipment from what they have read move it along its
\* states, one step at a time: a cancelled one is not shipped, nor a shipped one
\* cancelled.
ShipmentMovesForward ==
    [][shipment'.status # shipment.status =>
          \E op \in DOMAIN Target : shipment.status = Source[op] /\ shipment'.status = Target[op]]_vars

\* However often its event is published, a subject gets one e-mail, and each fault
\* (a lost answer, a crash, a handler that hangs) or restart costs at most one more.
OneMailPerSubject == \A t \in Topics : mails[t] <= 1 + faults

\* An endpoint is asked at most max_retries times to take an event.
TriesBounded == \A j \in Hooks : posts[j] <= MaxRetries

\* Once Drain has seen the WaitGroup empty, no handler runs and none is admitted.
NothingRunsAfterDrain == drained => \A h \in Slots : handler[h] = Idle

\* The e-mail of a shipment is sent although the event is lost, a handler dies with
\* its claim or the enqueue fails: a repeated MarkShipped heals it, while the
\* shipment is on its way, workers are up and none loses the job.
ShippedMailIsSent ==
    shipment.status = "shipped" /\ up.workers # {} /\ up.recipient ~> mails[Shipped] > 0 \/ order # "live" \/ shipment.status = "delivered" \/ workerFaults > 0
==============================================================================
