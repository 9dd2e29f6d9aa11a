------------------------------ MODULE Checkout -------------------------------
(***************************************************************************)
(* The checkout of one customer's carts, from StartCheckout to the last     *)
(* payment webhook (internal/application/checkout): an attempt reserves     *)
(* stock, redeems store credit, saves an order, initiates a payment, and    *)
(* compensates when it fails; the provider's webhooks settle the payment    *)
(* later (internal/interfaces/http/stripe_webhook.go), while administrators *)
(* change order statuses and the sweep ends expired reservations.  There is *)
(* no transaction around an attempt: every repository call is a step.       *)
(* Reserve, Release and the store credit calls are single steps here; the   *)
(* modules Inventory and StoreCredit open them up.                          *)
(***************************************************************************)
EXTENDS Integers, FiniteSets, Functions

CONSTANTS
    Attempts,         \* calls of StartCheckout; an attempt also names the order it creates
    Carts, CartOf,    \* the cart of each attempt; a cart holds one unit of every variant
    Variants, Stock,  \* units of each variant
    Price, Credit,    \* order total, opening store credit balance
    Wanted,           \* store credit amounts a customer may ask to apply
    RedeemNeedsOrder, \* store_credit_ledger.order_id references a saved order
    Handlers,         \* webhook requests served at the same time
    Admins,
    MaxFaults         \* bound: calls that fail and processes that die

ASSUME CheckoutAssumption ==
    /\ CartOf \in [Attempts -> Carts]
    /\ Stock \in [Variants -> Nat]
    /\ Price \in Nat \ {0} /\ Credit \in Nat /\ Wanted \subseteq Nat
    /\ RedeemNeedsOrder \in BOOLEAN
    /\ MaxFaults \in Nat

VARIABLES
    stock,    \* stock.quantity of each variant
    hold,     \* status of the reservation of each attempt and variant
    credit,   \* balance, and per order what was redeemed and put back and whether the key is used
    order,    \* orders.status of each attempt
    payment,  \* payments row of each order; ver stands for updated_at
    attempt,  \* progress and checkout context of each attempt
    intent,   \* the provider's side of each payment
    sent,     \* webhook events the provider has sent
    acked,    \* webhook events answered 200 since they were last sent
    handler, admin, faults

vars == <<stock, hold, credit, order, payment, attempt, intent, sent, acked, handler, admin, faults>>
shop == <<stock, hold, credit, order, payment, attempt>>
web == <<intent, sent, acked, handler>>

------------------------------------------------------------------------------

OrderStatus == {"absent", "pending", "confirmed", "paid", "cancelled", "failed"}

\* ApplyStatusTransition.
OrderTransitions ==
    {<<"pending", "confirmed">>, <<"confirmed", "paid">>, <<"pending", "cancelled">>,
     <<"confirmed", "cancelled">>, <<"pending", "failed">>}

PaymentStatus == {"absent", "pending", "completed", "failed", "refunded"}
PaymentTransitions ==
    {<<"absent", "pending">>, <<"pending", "completed">>, <<"pending", "failed">>, <<"completed", "refunded">>}

\* Answered, with an order or without; "dead" is an attempt whose process ended.
Over == {"done", "refused", "stopped", "dead"}
Pc == {"reserve", "credit", "redeem", "save", "rollback", "release", "snapshot", "ship", "pay", "initiate", "record",
       "unpaid", "fail", "lookup", "notify", "refund"} \cup Over

\* What Meta["payment"] says of the provider's answer.
Answers == {"none", "accepted", "captured", "declined"}

Event == [type : {"succeeded", "failed", "refunded"}, order : Attempts]
Ev(t, a) == [type |-> t, order |-> a]

Idle == [pc |-> "idle"]
NoPayment == [status |-> "absent", ref |-> FALSE, ver |-> 0]

Init ==
    /\ stock = Stock
    /\ hold = [a \in Attempts |-> [v \in Variants |-> "none"]]
    /\ credit = [balance |-> Credit, redeemed |-> [a \in Attempts |-> 0],
                 restored |-> [a \in Attempts |-> 0], keys |-> {}]
    /\ order = [a \in Attempts |-> "absent"]
    /\ payment = [a \in Attempts |-> NoPayment]
    /\ attempt \in [Attempts -> [pc : {"reserve"}, wanted : Wanted, credit : {0}, answer : {"none"}, listed : {{}}]]
    /\ intent = [a \in Attempts |-> "none"]
    /\ sent = {} /\ acked = {}
    /\ handler = [h \in Handlers |-> Idle]
    /\ admin = [m \in Admins |-> Idle]
    /\ faults = 0

At(a, pc) == attempt[a].pc = pc
Goto(a, pc) == attempt' = [attempt EXCEPT ![a].pc = pc]

\* A call that fails: the database or the provider is away, the request was
\* cancelled, or a detached call has run into its own timeout.  A validation of
\* create_order that refuses the order counts as one.
Fault == faults < MaxFaults /\ faults' = faults + 1
NoFault == UNCHANGED faults

------------------------------------------------------------------------------
(* The steps of an attempt *)

Held(a) == {v \in Variants : hold[a][v] = "active"}

InStock(v) == stock[v] > 0

\* Mutant: create_order does not release the holds.
RefuseOnly(a) == attempt' = [attempt EXCEPT ![a].pc = "release", ![a].listed = {}]

\* create_order, or reserve_inventory, ends with an error before the order is
\* saved: the holds the context lists are released.
Refuse(a) == attempt' = [attempt EXCEPT ![a].pc = "release", ![a].listed = Held(a)]

\* reserve_inventory: one Reserve per cart line.  The first that fails makes
\* the step release those it has, and the attempt ends without an order.
Reserve(a) ==
    /\ At(a, "reserve")
    /\ \/ \E v \in Variants \ Held(a) :
            /\ InStock(v)
            /\ stock' = [stock EXCEPT ![v] = @ - 1]
            /\ hold' = [hold EXCEPT ![a][v] = "active"]
            /\ Goto(a, IF Held(a) \cup {v} = Variants THEN "credit" ELSE "reserve")
            /\ NoFault
       \/ /\ IF \E v \in Variants \ Held(a) : ~InStock(v) THEN NoFault ELSE Fault
          /\ Refuse(a)
          /\ UNCHANGED <<stock, hold>>
    /\ UNCHANGED <<credit, order, payment, admin, web>>

SmallerOf(x, y) == IF x < y THEN x ELSE y

\* applyStoreCredit reads the balance and decides what to apply.  A request
\* cancelled just before create_order keeps its holds: only that step releases
\* them.
ReadCredit(a) ==
    LET amount == SmallerOf(attempt[a].wanted, SmallerOf(credit.balance, Price)) IN
    /\ At(a, "credit")
    /\ \/ /\ attempt' = [attempt EXCEPT ![a].pc = IF amount = 0 THEN "save" ELSE "redeem", ![a].credit = amount]
          /\ NoFault
       \/ Refuse(a) /\ Fault
       \/ Goto(a, "refused") /\ Fault
    /\ UNCHANGED <<stock, hold, credit, order, payment, admin, web>>

\* Redeem under the account lock.  Its ledger row names the order, which
\* persistOrder has not saved yet.
Redeem(a) ==
    LET amount == attempt[a].credit
        accepted == credit.balance >= amount /\ (RedeemNeedsOrder => order[a] # "absent") IN
    /\ At(a, "redeem")
    /\ \/ /\ accepted
          /\ credit' = [credit EXCEPT !.balance = @ - amount, !.redeemed[a] = amount]
          /\ Goto(a, "save") /\ NoFault
       \/ /\ IF accepted THEN Fault ELSE NoFault
          /\ Refuse(a)
          /\ UNCHANGED credit
    /\ UNCHANGED <<stock, hold, order, payment, admin, web>>

\* persistOrder; a failure rolls the credit back.
SaveOrder(a) ==
    /\ At(a, "save")
    /\ \/ /\ order' = [order EXCEPT ![a] = "pending"]
          /\ Goto(a, "snapshot") /\ NoFault
       \/ Fault /\ Goto(a, "rollback") /\ UNCHANGED order
    /\ UNCHANGED <<stock, hold, credit, payment, admin, web>>

\* rollbackAppliedCredit: Restore without a key, on a detached context.
RollbackCredit(a) ==
    LET amount == attempt[a].credit IN
    /\ At(a, "rollback")
    /\ \/ /\ credit' = [credit EXCEPT !.balance = @ + amount, !.restored[a] = @ + amount]
          /\ NoFault
       \/ amount > 0 /\ Fault /\ UNCHANGED credit
    /\ Refuse(a)
    /\ UNCHANGED <<stock, hold, order, payment, admin, web>>

\* releaseCheckoutHolds: one detached Release per hold; a failed one is logged.
ReleaseHold(a) ==
    /\ At(a, "release")
    /\ \/ \E v \in attempt[a].listed :
            /\ attempt' = [attempt EXCEPT ![a].listed = @ \ {v}]
            /\ \/ /\ hold[a][v] = "active"
                  /\ hold' = [hold EXCEPT ![a][v] = "ended"]
                  /\ stock' = [stock EXCEPT ![v] = @ + 1]
                  /\ NoFault
               \/ Fault /\ UNCHANGED <<stock, hold>>
       \/ /\ attempt[a].listed = {}
          /\ Goto(a, "refused")
          /\ NoFault /\ UNCHANGED <<stock, hold>>
    /\ UNCHANGED <<credit, order, payment, admin, web>>

\* The extension snapshot, the last of create_order.  When it fails the order is
\* saved, created_order_id is set and the holds are kept: the attempt goes on to
\* compensate the order.
SnapshotExtensions(a) ==
    /\ At(a, "snapshot")
    /\ \/ Goto(a, "ship") /\ NoFault
       \/ Goto(a, "unpaid") /\ Fault
    /\ UNCHANGED <<stock, hold, credit, order, payment, admin, web>>

\* select_shipping, and what is left to pay: a covered order is published as
\* paid and has no payment.
SelectShipping(a) ==
    /\ At(a, "ship")
    /\ \/ Goto(a, IF attempt[a].credit = Price THEN "done" ELSE "pay") /\ NoFault
       \/ Fault /\ Goto(a, "unpaid")
    /\ UNCHANGED <<stock, hold, credit, order, payment, admin, web>>

\* initiate_payment: the pending row is saved before the provider is called.
CreatePayment(a) ==
    /\ At(a, "pay")
    /\ \/ /\ payment' = [payment EXCEPT ![a] = [status |-> "pending", ref |-> FALSE, ver |-> 1]]
          /\ Goto(a, "initiate") /\ NoFault
       \/ Fault /\ Goto(a, "unpaid") /\ UNCHANGED payment
    /\ UNCHANGED <<stock, hold, credit, order, admin, web>>

\* Mutant: the answer is only recorded in the row.
NoMeta(answer) == "none"

\* The answer goes into the context before it goes into the row.
Meta(answer) == answer

\* provider.Initiate: Stripe answers "accepted", the manual provider
\* "captured"; a provider may decline.  An intent whose answer is lost has no
\* customer who could confirm it.
Initiate(a) ==
    /\ At(a, "initiate")
    /\ \/ \E answer \in {"accepted", "captured", "declined"} :
            /\ attempt' = [attempt EXCEPT ![a].pc = "record", ![a].answer = Meta(answer)]
            /\ intent' = [intent EXCEPT ![a] = answer]
            /\ NoFault
       \/ Fault /\ Goto(a, "unpaid") /\ UNCHANGED intent
    /\ UNCHANGED <<stock, hold, credit, order, payment, sent, acked, handler, admin>>

\* Mutant: the row is overwritten.
AnyVersion(a, ver) == TRUE

\* UPDATE payments ... WHERE updated_at = prev.
Fresh(a, ver) == payment[a].ver = ver

\* The provider's answer is written with the version of the row just created;
\* the attempt may fail after that as well (the answer of the UPDATE is lost, a
\* subscriber of order.paid or checkout.step.completed fails).
RecordAnswer(a) ==
    LET answer == intent[a] IN
    /\ At(a, "record")
    /\ \/ /\ Fresh(a, 1)
          /\ payment' = [payment EXCEPT ![a] =
                            [status |-> CASE answer = "captured" -> "completed"
                                          [] answer = "declined" -> "failed"
                                          [] OTHER -> "pending",
                             ref |-> answer # "declined", ver |-> 2]]
          /\ \/ Goto(a, IF answer = "declined" THEN "unpaid" ELSE "done") /\ NoFault
             \/ Goto(a, "unpaid") /\ Fault
       \/ /\ IF Fresh(a, 1) THEN Fault ELSE NoFault
          /\ Goto(a, "unpaid") /\ UNCHANGED payment
    /\ UNCHANGED <<stock, hold, credit, order, admin, web>>

------------------------------------------------------------------------------
(* Compensation, once an order exists *)

\* paymentBlocksCompensation of the context's payment or of the row.
ChargeAccepted(a) ==
    \/ attempt[a].answer \in {"accepted", "captured"}
    \/ payment[a].status = "completed"
    \/ payment[a].status = "pending" /\ payment[a].ref

\* skipUnpaidCompensation.
CheckUnpaid(a) ==
    /\ At(a, "unpaid")
    /\ \/ Goto(a, IF ChargeAccepted(a) THEN "stopped" ELSE "fail") /\ NoFault
       \/ Fault /\ Goto(a, "stopped")
    /\ UNCHANGED <<stock, hold, credit, order, payment, admin, web>>

\* UPDATE orders SET status = failed WHERE status = pending.
FailIfPending(a) == order' = [order EXCEPT ![a] = IF @ = "pending" THEN "failed" ELSE @]

FailOrder(a) ==
    /\ At(a, "fail")
    /\ \/ FailIfPending(a) /\ Goto(a, "lookup") /\ NoFault
       \/ Fault /\ Goto(a, "stopped") /\ UNCHANGED order
    /\ UNCHANGED <<stock, hold, credit, payment, admin, web>>

LookupOrder(a) ==
    /\ At(a, "lookup")
    /\ \/ Goto(a, IF order[a] = "failed" THEN "notify" ELSE "stopped") /\ NoFault
       \/ Fault /\ Goto(a, "stopped")
    /\ UNCHANGED <<stock, hold, credit, order, payment, admin, web>>

\* Mutant: Restore is called without a key.
NoKey(a) == FALSE

KeyUsed(a) == a \in credit.keys

\* issueFailedPaymentCredit: Restore with the key of the order.
RestoreOnce(a) ==
    LET amount == attempt[a].credit IN
    credit' = IF amount = 0 \/ KeyUsed(a) THEN credit
              ELSE [credit EXCEPT !.balance = @ + amount, !.restored[a] = @ + amount, !.keys = @ \cup {a}]

\* compensateFailedPayment, subscribed to checkout.unpaid_failed: what it does
\* to an order that has already failed.  Its error ends the compensation.
NotifyUnpaid(a) ==
    /\ At(a, "notify")
    /\ \/ /\ IF order[a] = "failed" THEN RestoreOnce(a) ELSE UNCHANGED credit
          /\ Goto(a, "refund") /\ NoFault
       \/ Fault /\ Goto(a, "stopped") /\ UNCHANGED credit
    /\ UNCHANGED <<stock, hold, order, payment, admin, web>>

\* refundCompensatedCredit, for the order as it was looked up.
RefundCredit(a) ==
    /\ At(a, "refund")
    /\ \/ RestoreOnce(a) /\ NoFault
       \/ Fault /\ UNCHANGED credit
    /\ Goto(a, "stopped")
    /\ UNCHANGED <<stock, hold, order, payment, admin, web>>

\* The process serving the attempt ends.
Crash(a) ==
    /\ attempt[a].pc \notin Over
    /\ Fault /\ Goto(a, "dead")
    /\ UNCHANGED <<stock, hold, credit, order, payment, admin, web>>

Step(a) ==
    \/ Reserve(a) \/ ReadCredit(a) \/ Redeem(a) \/ SaveOrder(a) \/ RollbackCredit(a) \/ ReleaseHold(a)
    \/ SnapshotExtensions(a) \/ SelectShipping(a) \/ CreatePayment(a) \/ Initiate(a) \/ RecordAnswer(a)
    \/ CheckUnpaid(a) \/ FailOrder(a) \/ LookupOrder(a) \/ NotifyUnpaid(a) \/ RefundCredit(a)

\* The sweep ends the reservations of an attempt that is over; nothing tells
\* it whether their order lives.
Sweep(a) ==
    /\ attempt[a].pc \in Over
    /\ \E v \in Held(a) :
          /\ hold' = [hold EXCEPT ![a][v] = "ended"]
          /\ stock' = [stock EXCEPT ![v] = @ + 1]
    /\ UNCHANGED <<credit, order, payment, attempt, admin, faults, web>>

------------------------------------------------------------------------------
(* The provider, and its webhooks *)

Send(e) == sent' = sent \cup {e} /\ acked' = acked \ {e}

\* The customer confirms an accepted payment with the secret the answer
\* carried: a declined card leaves the intent open for another one.
Decline(a) ==
    /\ At(a, "done") /\ intent[a] = "accepted"
    /\ Send(Ev("failed", a))
    /\ UNCHANGED <<shop, intent, handler, admin, faults>>

Capture(a) ==
    /\ At(a, "done") /\ intent[a] = "accepted"
    /\ intent' = [intent EXCEPT ![a] = "charged"]
    /\ Send(Ev("succeeded", a))
    /\ UNCHANGED <<shop, handler, admin, faults>>

\* The merchant refunds the charge in the provider's dashboard.
Refund(a) ==
    /\ intent[a] = "charged"
    /\ intent' = [intent EXCEPT ![a] = "returned"]
    /\ Send(Ev("refunded", a))
    /\ UNCHANGED <<shop, handler, admin, faults>>

Ack(h, e) == acked' = acked \cup {e} /\ handler' = [handler EXCEPT ![h] = Idle]
Drop(h) == handler' = [handler EXCEPT ![h] = Idle] /\ UNCHANGED acked

\* The status an event asks for, from the status it needs.
Needs(e) == IF e.type = "refunded" THEN "completed" ELSE "pending"
Becomes(e) == CASE e.type = "succeeded" -> "completed" [] e.type = "failed" -> "failed" [] OTHER -> "refunded"

\* Mutants: a repeated payment_failed is only acknowledged; or published
\* whatever became of the payment.
HealsNothing(e) == FALSE
HealsEverything(e) == e.type = "failed" /\ payment[e.order].status # "pending"

\* A repeated payment_failed is published again, so that what its first
\* delivery left undone is finished.
Heals(e) == e.type = "failed" /\ payment[e.order].status = "failed"

\* Mutant: an event that fits no transition is acknowledged.
NeverPremature(e) == FALSE

\* A refund is refused, not acknowledged, while there is nothing to refund.
Premature(e) == e.type = "refunded" /\ (payment[e.order].status \in {"pending", "failed"} \/ ~payment[e.order].ref)

\* A webhook request, first delivery or not, reads the payment.
Receive(h, e) ==
    LET p == payment[e.order] IN
    /\ handler[h].pc = "idle" /\ e \in sent
    /\ \/ /\ p.status = Needs(e) /\ ~Premature(e)
          /\ handler' = [handler EXCEPT ![h] = [pc |-> "write", event |-> e, ver |-> p.ver]]
          /\ UNCHANGED acked
       \/ /\ Heals(e)
          /\ handler' = [handler EXCEPT ![h] = [pc |-> "fail", event |-> e, ver |-> p.ver]]
          /\ UNCHANGED acked
       \/ p.status # Needs(e) /\ ~Heals(e) /\ ~Premature(e) /\ Ack(h, e)
       \/ Premature(e) /\ Drop(h)
    /\ UNCHANGED <<shop, intent, sent, admin, faults>>

\* UpdateStatus with the version that was read; Complete sets the reference.
WritePayment(h) ==
    LET e == handler[h].event
        a == e.order IN
    /\ handler[h].pc = "write"
    /\ \/ /\ Fresh(a, handler[h].ver)
          /\ payment' = [payment EXCEPT ![a] = [status |-> Becomes(e), ref |-> @.ref \/ e.type = "succeeded", ver |-> @.ver + 1]]
          /\ IF e.type = "failed"
             THEN handler' = [handler EXCEPT ![h].pc = "fail"] /\ UNCHANGED acked
             ELSE Ack(h, e)
          /\ NoFault
       \/ ~Fresh(a, handler[h].ver) /\ Drop(h) /\ NoFault /\ UNCHANGED payment
       \/ Fault /\ Drop(h) /\ UNCHANGED payment
    /\ UNCHANGED <<stock, hold, credit, order, attempt, intent, sent, admin>>

\* compensateFailedPayment, subscribed to payment.failed.  Its error answers
\* 500, and the provider sends the event again.
FailUnpaidOrder(h) ==
    /\ handler[h].pc = "fail"
    /\ \/ /\ FailIfPending(handler[h].event.order)
          /\ handler' = [handler EXCEPT ![h].pc = "restore"]
          /\ NoFault /\ UNCHANGED acked
       \/ Fault /\ Drop(h) /\ UNCHANGED order
    /\ UNCHANGED <<stock, hold, credit, payment, attempt, intent, sent, admin>>

\* The rest of compensateFailedPayment; revoking assignments may fail last.
RestoreUnpaidCredit(h) ==
    LET a == handler[h].event.order IN
    /\ handler[h].pc = "restore"
    /\ \/ /\ IF order[a] = "failed" THEN RestoreOnce(a) ELSE UNCHANGED credit
          /\ \/ Ack(h, handler[h].event) /\ NoFault
             \/ Drop(h) /\ Fault
       \/ Fault /\ Drop(h) /\ UNCHANGED credit
    /\ UNCHANGED <<stock, hold, order, payment, attempt, intent, sent, admin>>

Serve(h) == WritePayment(h) \/ FailUnpaidOrder(h) \/ RestoreUnpaidCredit(h)

------------------------------------------------------------------------------
(* Administrators: ApplyStatus reads the order, then overwrites its status *)

AdminRead(m, a) ==
    /\ admin[m].pc = "idle" /\ order[a] # "absent"
    /\ admin' = [admin EXCEPT ![m] = [pc |-> "write", order |-> a, seen |-> order[a]]]
    /\ UNCHANGED <<shop, web, faults>>

AdminWrite(m) ==
    /\ admin[m].pc = "write"
    /\ \/ \E t \in OrderTransitions :
            /\ t[1] = admin[m].seen
            /\ order' = [order EXCEPT ![admin[m].order] = t[2]]
       \/ UNCHANGED order
    /\ admin' = [admin EXCEPT ![m] = Idle]
    /\ UNCHANGED <<stock, hold, credit, payment, attempt, web, faults>>

Next ==
    \/ \E a \in Attempts : Step(a) \/ Crash(a) \/ Sweep(a) \/ Decline(a) \/ Capture(a) \/ Refund(a)
    \/ \E h \in Handlers : Serve(h) \/ \E e \in sent : Receive(h, e)
    \/ \E m \in Admins : AdminWrite(m) \/ \E a \in Attempts : AdminRead(m, a)

Spec == Init /\ [][Next]_vars

\* A request that can proceed does, and the provider sends an event again and
\* again until it is acknowledged.
FairSpec ==
    /\ Spec
    /\ \A a \in Attempts : WF_vars(Step(a))
    /\ \A h \in Handlers : WF_vars(Serve(h))
    /\ \A e \in Event : SF_vars(e \in sent \ acked /\ \E h \in Handlers : Receive(h, e))

------------------------------------------------------------------------------
(* Properties *)

\* Rows, contexts and counters have their types; no stock goes negative.
TypeOK ==
    /\ stock \in [Variants -> Nat]
    /\ hold \in [Attempts -> [Variants -> {"none", "active", "ended"}]]
    /\ credit \in [balance : Nat, redeemed : [Attempts -> Nat], restored : [Attempts -> Nat], keys : SUBSET Attempts]
    /\ order \in [Attempts -> OrderStatus]
    /\ payment \in [Attempts -> [status : PaymentStatus, ref : BOOLEAN, ver : Nat]]
    /\ attempt \in [Attempts -> [pc : Pc, wanted : Wanted, credit : Nat, answer : Answers, listed : SUBSET Variants]]
    /\ intent \in [Attempts -> Answers \cup {"charged", "returned"}]
    /\ sent \subseteq Event /\ acked \subseteq Event
    /\ handler \in [Handlers -> {Idle} \cup [pc : {"write", "fail", "restore"}, event : Event, ver : Nat]]
    /\ admin \in [Admins -> {Idle} \cup [pc : {"write"}, order : Attempts, seen : OrderStatus]]
    /\ faults \in Nat

\* Credit comes back at most once, however many compensations run, and only
\* when its order never existed or has failed (the workflow's compensation,
\* its subscriber and the payment.failed webhooks all restore).
CreditComesBackOnce ==
    \A a \in Attempts :
        /\ credit.restored[a] <= credit.redeemed[a]
        /\ credit.restored[a] > 0 => order[a] \in {"absent", "failed"}

\* A checkout that is refused before its order exists leaves nothing behind but
\* what a failed call costs it: a hold stays only if some call failed, and redeemed
\* credit is lost only if two did, the step after Redeem and the Restore that was
\* to undo it.
RefusedLeavesNothing ==
    \A a \in Attempts :
        At(a, "refused") =>
            /\ Held(a) # {} => faults > 0
            /\ credit.restored[a] # credit.redeemed[a] => faults > 1

\* Compensation fails no order whose charge the provider has accepted, even
\* when the row does not show it (initiate_payment records the answer in the
\* context first).
CheckoutKeepsAcceptedCharge ==
    [][\A a \in Attempts :
          At(a, "fail") /\ order'[a] # order[a] => intent[a] \notin {"accepted", "captured", "charged"}]_vars

\* A payment only moves forward, whatever webhooks and checkouts write at the
\* same time from what they have read.
PaymentMovesForward ==
    [][\A a \in Attempts :
          payment'[a].status # payment[a].status =>
              <<payment[a].status, payment'[a].status>> \in PaymentTransitions]_vars

\* An order whose payment is completed is not failed by a late or repeated
\* payment_failed event.
CompletedIsNotFailed ==
    \A a \in Attempts : payment[a].status = "completed" => order[a] # "failed"

\* Whatever delivery of payment_failed was cut short, once the payment has
\* failed the order does not stay pending (an administrator may have moved it
\* on), and if it fails its credit comes back.
DeclineIsCompensated ==
    \A a \in Attempts :
        Ev("failed", a) \in sent /\ payment[a].status = "failed"
            ~> /\ order[a] # "pending"
               /\ order[a] = "failed" => credit.restored[a] = credit.redeemed[a]

\* A refund is recorded even if its event overtakes the one of the charge.
RefundIsRecorded ==
    \A a \in Attempts :
        intent[a] = "returned" /\ Ev("failed", a) \notin sent ~> payment[a].status = "refunded"

\* A charge whose payment_intent.succeeded was acknowledged is on record.
SucceededIsRecorded ==
    \A a \in Attempts : Ev("succeeded", a) \in acked => payment[a].status \in {"completed", "refunded"}
==============================================================================
