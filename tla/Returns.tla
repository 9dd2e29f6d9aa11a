------------------------------- MODULE Returns -------------------------------
(***************************************************************************)
(* Returns of sold units (internal/application/returns): the customer's     *)
(* request, the merchant's approval, rejection and receipt, and the refund, *)
(* together with the assignments and download grants they end and with the  *)
(* refund an administrator makes of a whole payment                         *)
(* (internal/interfaces/http/admin/refund_admin.go).  The provider is       *)
(* external: it refuses to pay back more than was paid, and answers a       *)
(* repeated idempotency key, the order's reference and the amount, without  *)
(* paying again.                                                            *)
(***************************************************************************)
EXTENDS Assignments, Downloads

CONSTANTS Price   \* order_items.unit_price of each unit

ASSUME PriceAssumption == Price \in [Units -> Nat \ {0}]

VARIABLES
    pay,       \* payments.status of each order
    provider,  \* what the provider has paid back for each order, and the keys it knows
    told       \* history: returns whose Refund was answered with success

money == <<pay, provider, told>>
vars == <<bought, ret, stock, asg, grant, ulock, rlock, call, faults, paidEvents, reissues, served, allowed,
          pay, provider, told>>

NoReturn == [status |-> "absent", items |-> <<>>, restocked |-> FALSE]

Init ==
    /\ bought \in Baskets
    /\ ret = [r \in Rets |-> NoReturn]
    /\ stock = [u \in Units |-> 0]
    /\ asg = [t \in Tickets |-> IF t \in bought THEN <<Unbound>> ELSE <<>>]
    /\ grant = [f \in Files |-> NoGrant]
    /\ ulock = [u \in Units |-> Nobody] /\ rlock = [r \in Rets |-> Nobody]
    /\ call = [w \in Callers |-> Idle]
    /\ faults = 0
    /\ paidEvents = MaxPaidEvents /\ reissues = 0
    /\ served = [f \in Files |-> 0] /\ allowed = [f \in Files |-> 0]
    /\ pay = [o \in Orders |-> IF \E u \in bought : OrderOf[u] = o THEN "completed" ELSE "pending"]
    /\ provider = [o \in Orders |-> [refunded |-> 0, keys |-> {}]]
    /\ told = {}

OrderLines(o) == {u \in bought : OrderOf[u] = o}
OrderOfReturn(r) == OrderOf[CHOOSE u \in Items(r) : TRUE]
Amount(items) == SumFunction([u \in DOMAIN items |-> items[u] * Price[u]])
Paid(o) == SumFunction([u \in OrderLines(o) |-> Ordered[u] * Price[u]])
SetStatus(r, s) == ret' = [ret EXCEPT ![r].status = s]

------------------------------------------------------------------------------
(* RequestReturn *)

\* buildReturnItems, validateReturnQuantities, assertNoPartialDownloadableReturn
\* and assertParentsReturnable, on what has been committed.
Returnable(items) ==
    /\ \A u \in DOMAIN items : Returned(u) + items[u] <= Ordered[u]
    /\ \A f \in Files \cap DOMAIN items : items[f] < Ordered[f] => grant[f].status = "none"
    /\ ParentsReturnable(DOMAIN items)

\* Quantities of the units of S.
ItemsOf(S) == [S -> UNION {1..Ordered[u] : u \in S}]

\* Ids are not scarce: a request starts while every one under way finds one free.
Pending == {w \in Callers : ~Free(w) /\ call[w].op = "request"}
IdsLeft == Cardinality(Pending) < Cardinality({r \in Rets : ret[r] = NoReturn})

RequestReturn(w, o) ==
    /\ Free(w) /\ IdsLeft
    /\ pay[o] \in {"completed", "refunded"}
    /\ \E S \in (SUBSET OrderLines(o)) \ {{}} : \E items \in ItemsOf(S) :
          /\ Returnable(items)
          /\ Start(w, "request", S, [items |-> items])
    /\ UNCHANGED <<bought, ret, stock, asg, grant, locks, faults, downloads, money>>

\* persistNewReturnLocked looks at the assignments again under the locks, not at
\* the quantities.
RequestCheck(w) ==
    /\ At(w, "request", "check")
    /\ IF ParentsReturnable(DOMAIN Arg(w).items) THEN Goto(w, "write") /\ UNCHANGED locks ELSE End(w)
    /\ UNCHANGED <<bought, ret, stock, asg, grant, faults, downloads, money>>

SaveReturn(w) ==
    /\ At(w, "request", "write")
    /\ \E r \in Rets :
          /\ ret[r] = NoReturn /\ \A q \in Rets : q < r => ret[q] # NoReturn
          /\ ret' = [ret EXCEPT ![r] = [status |-> "requested", items |-> Arg(w).items, restocked |-> FALSE]]
    /\ End(w)
    /\ UNCHANGED <<bought, stock, asg, grant, faults, downloads, money>>

------------------------------------------------------------------------------
(* Approve, Reject and Cancel *)

Approve(w, r) ==
    /\ Free(w)
    /\ ret[r].status = "requested" /\ ParentsReturnable(Items(r))
    /\ Start(w, "approve", Items(r), [ret |-> r])
    /\ UNCHANGED <<bought, ret, stock, asg, grant, locks, faults, downloads, money>>

\* persistReturnWithAssignmentRevoke, under the unit locks, reads the assignments
\* and the grants, which no unit lock keeps still.
RevokeCheck(w) ==
    LET r == Arg(w).ret IN
    /\ call[w].op \in {"approve", "refund"} /\ call[w].pc = "check"
    /\ IF ParentsReturnable(Items(r))
       THEN StartAt(w, call[w].op, "update", [ret |-> r, seen |-> GrantsOf(Items(r))]) /\ UNCHANGED locks
       ELSE End(w)
    /\ UNCHANGED <<bought, ret, stock, asg, grant, faults, downloads, money>>

RevokeAssignments(r) == asg' = Revoked(Items(r))

\* Update WHERE status = stored: when it matches no row, or when the table refuses
\* a grant, what the transaction has revoked is rolled back with it.
Updates(w, from) == ret[Arg(w).ret].status = from /\ WithinLimits(Ended(Arg(w).seen))

UpdateRevoking(w, from, to) ==
    LET r == Arg(w).ret IN
    /\ rlock[r] = Nobody
    /\ IF Updates(w, from)
       THEN SetStatus(r, to) /\ RevokeAssignments(r) /\ grant' = Ended(Arg(w).seen)
       ELSE UNCHANGED <<ret, asg, grant>>
    /\ Unlock(w)

ApproveUpdate(w) ==
    /\ At(w, "approve", "update")
    /\ UpdateRevoking(w, "requested", "approved")
    /\ Answer(w)
    /\ UNCHANGED <<bought, stock, faults, downloads, money>>

\* Mutant: the skipped grants are not issued when the return is closed.
CloseOnly(w, r) == UNCHANGED call

\* retryDownloadGrantsAfterReturnClosed, a second transaction.
RetryGrants(w, r) == StartAt(w, "issue", "blocking", [order |-> OrderOfReturn(r)])

\* Reject and Cancel: a conditional update, then the grants that the request
\* has kept back.
Close(w, r) ==
    /\ Free(w)
    /\ ret[r].status = "requested" /\ rlock[r] = Nobody
    /\ \E s \in {"rejected", "cancelled"} : SetStatus(r, s)
    /\ RetryGrants(w, r)
    /\ UNCHANGED <<bought, stock, asg, grant, locks, faults, downloads, money>>

ReadBlocking(w) ==
    /\ At(w, "issue", "blocking")
    /\ Issue(w, Arg(w).order)
    /\ UNCHANGED <<bought, ret, stock, asg, grant, locks, faults, downloads, money>>

------------------------------------------------------------------------------
(* Receive *)

Receivable(r) == ret[r].status \in {"approved", "received"} /\ ~ret[r].restocked

Receive(w, r) ==
    /\ Free(w)
    /\ Receivable(r) /\ ParentsReturnable(Items(r))
    /\ StartAt(w, "receive", "row", [ret |-> r])
    /\ UNCHANGED <<bought, ret, stock, asg, grant, locks, faults, downloads, money>>

\* Mutant: the row read before the transaction is trusted.
WasReceivable(r) == TRUE

\* LockForRestock: what the row says once it is locked.
StillReceivable(r) == Receivable(r)

LockForRestock(w) ==
    LET r == Arg(w).ret IN
    /\ At(w, "receive", "row")
    /\ rlock[r] = Nobody
    /\ IF StillReceivable(r)
       THEN rlock' = [rlock EXCEPT ![r] = w] /\ Goto(w, "restock")
       ELSE UNCHANGED rlock /\ Answer(w)
    /\ UNCHANGED <<bought, ret, stock, asg, grant, ulock, faults, downloads, money>>

\* Cards are goods; tickets and files are not restockable.
Restock(w) ==
    LET r == Arg(w).ret IN
    /\ At(w, "receive", "restock")
    /\ ret' = [ret EXCEPT ![r].status = "received", ![r].restocked = TRUE]
    /\ stock' = [u \in Units |-> IF u \in Cards \cap Items(r) THEN stock[u] + ret[r].items[u] ELSE stock[u]]
    /\ End(w)
    /\ UNCHANGED <<bought, asg, grant, faults, downloads, money>>

------------------------------------------------------------------------------
(* Refunds *)

Refund(w, r) ==
    /\ Free(w)
    /\ \/ /\ ret[r].status = "refunded"
          /\ told' = told \cup {r}
          /\ UNCHANGED call
       \/ /\ ret[r].status = "received" /\ pay[OrderOfReturn(r)] = "completed"
          /\ ParentsReturnable(Items(r))
          /\ Start(w, "refund", Items(r), [ret |-> r])
          /\ UNCHANGED told
    /\ UNCHANGED <<bought, ret, stock, asg, grant, locks, faults, downloads, pay, provider>>

\* The refund is recorded before the provider is asked for it.
RefundUpdate(w) ==
    /\ At(w, "refund", "update")
    /\ UpdateRevoking(w, "received", "refunded")
    /\ IF Updates(w, "received") THEN Goto(w, "provider") ELSE Answer(w)
    /\ UNCHANGED <<bought, stock, faults, downloads, money>>

Replays(o, n) == n \in provider[o].keys
PaysBack(o, n) ==
    provider' = IF Replays(o, n) THEN provider
                ELSE [provider EXCEPT ![o] = [refunded |-> @.refunded + n, keys |-> @.keys \cup {n}]]
Accepts(o, n) == Replays(o, n) \/ provider[o].refunded + n <= Paid(o)

\* The provider's answer to a refund of n: success, a refusal, or an error on
\* the way there or back.
AskProvider(o, n, success, failure) ==
    \/ Accepts(o, n) /\ PaysBack(o, n) /\ success /\ NoFault
    \/ ~Accepts(o, n) /\ UNCHANGED provider /\ failure /\ NoFault
    \/ Fault /\ (UNCHANGED provider \/ (Accepts(o, n) /\ PaysBack(o, n))) /\ failure

RefundProvider(w) ==
    LET r == Arg(w).ret IN
    /\ At(w, "refund", "provider")
    /\ AskProvider(OrderOfReturn(r), Amount(ret[r].items), told' = told \cup {r}, UNCHANGED told)
    /\ Answer(w)
    /\ UNCHANGED <<bought, ret, stock, asg, grant, locks, downloads, pay>>

\* The administrator's refund of the whole payment.
AdminRefund(w, o) ==
    /\ Free(w)
    /\ OrderLines(o) # {} /\ pay[o] = "completed"
    /\ StartAt(w, "adminRefund", "provider", [order |-> o])
    /\ UNCHANGED <<bought, ret, stock, asg, grant, locks, faults, downloads, money>>

AdminProvider(w) ==
    LET o == Arg(w).order IN
    /\ At(w, "adminRefund", "provider")
    /\ AskProvider(o, Paid(o), Goto(w, "save"), Answer(w))
    /\ UNCHANGED <<bought, ret, stock, asg, grant, locks, downloads, pay, told>>

\* UpdateStatus against the updated_at read before the call: a webhook that came
\* first makes it a conflict.
AdminSave(w) ==
    /\ At(w, "adminRefund", "save")
    /\ pay' = [pay EXCEPT ![Arg(w).order] = "refunded"]
    /\ Answer(w)
    /\ UNCHANGED <<bought, ret, stock, asg, grant, locks, faults, downloads, provider, told>>

\* Mutant: a partial refund closes the payment.
AnyRefund(o) == provider[o].refunded > 0

FullRefund(o) == provider[o].refunded = Paid(o) /\ OrderLines(o) # {}

\* charge.refunded, delivered late, again, or never: only a full refund counts.
ChargeRefunded(o) ==
    /\ FullRefund(o)
    /\ pay[o] = "completed"
    /\ pay' = [pay EXCEPT ![o] = "refunded"]
    /\ UNCHANGED <<bought, ret, stock, asg, grant, locks, call, faults, downloads, provider, told>>

------------------------------------------------------------------------------
(* The payment of an order bought later *)

PaymentEnds(o) ==
    /\ OrderLines(o) # {} /\ pay[o] = "pending"
    /\ \E s \in {"completed", "failed"} : pay' = [pay EXCEPT ![o] = s]
    /\ UNCHANGED <<bought, ret, stock, asg, grant, locks, call, faults, downloads, provider, told>>

\* The compensation of a failed order, and each redelivery of payment.failed,
\* revoke its assignments one by one, without the unit locks.
RevokeForOrder(o) ==
    /\ pay[o] = "failed"
    /\ \E t \in Tickets \cap OrderLines(o) : Current(t) # 0 /\ Len(asg[t]) < MaxRows /\ asg' = Revoked({t})
    /\ UNCHANGED <<bought, ret, stock, grant, locks, call, faults, downloads, money>>

------------------------------------------------------------------------------

PaidFor(S) == \A u \in S : pay[OrderOf[u]] = "completed"

Begin(w) ==
    \/ \E t \in Tickets, c \in Cards :
          /\ \/ Assign(w, t, c, PaidFor({t, c})) \/ Assign(w, t, c, TRUE) \/ Purchase(w, t, c, PaidFor({c}))
          /\ UNCHANGED <<downloads, money>>
    \/ \E o \in Orders : RequestReturn(w, o) \/ AdminRefund(w, o) \/ (HandleOrderPaid(w, o) /\ UNCHANGED money)
    \/ \E r \in Rets : Approve(w, r) \/ Close(w, r) \/ Receive(w, r) \/ Refund(w, r)
    \/ \E f \in Files : (Prepare(w, f) \/ RevokeGrant(w, f)) /\ UNCHANGED money

\* The next step of a call that has begun.
Step(w) ==
    \/ (LockUnit(w) \/ BindCheck(w) \/ BindWrite(w)) /\ UNCHANGED <<downloads, money>>
    \/ RequestCheck(w) \/ SaveReturn(w) \/ RevokeCheck(w) \/ ApproveUpdate(w) \/ ReadBlocking(w)
    \/ LockForRestock(w) \/ Restock(w) \/ RefundUpdate(w) \/ RefundProvider(w)
    \/ AdminProvider(w) \/ AdminSave(w)
    \/ (InsertGrants(w) \/ Claim(w) \/ RevokeWrite(w)) /\ UNCHANGED money

Next ==
    \/ \E w \in Callers : Begin(w) \/ Step(w) \/ (Die(w) /\ UNCHANGED <<downloads, money>>)
    \/ \E t \in Tickets : (PurchaseDeferred(t) \/ AdminRevoke(t)) /\ UNCHANGED <<downloads, money>>
    \/ \E f \in Files : (Expire(f) \/ Reissue(f)) /\ UNCHANGED money
    \/ \E o \in Orders : ChargeRefunded(o) \/ PaymentEnds(o) \/ RevokeForOrder(o)

Spec == Init /\ [][Next]_vars

\* A request that has begun runs on, Postgres hands a lock to those who wait for
\* it in turn, and the bus delivers order.paid.
Fairness ==
    /\ \A w \in Callers : SF_vars(Step(w))
    /\ WF_vars(\E w \in Callers, o \in Orders : HandleOrderPaid(w, o) /\ UNCHANGED money)

FairSpec == Spec /\ Fairness

------------------------------------------------------------------------------
(* Properties *)

\* The items of a return, and what a call may be doing.
ItemLists == UNION {ItemsOf(S) : S \in SUBSET Units}
BindCalls == [op : BindOps, pc : {"lock", "check", "write"}, todo : SUBSET Units,
              arg : [child : Tickets, parent : Cards, row : Nat]]
RequestCalls == [op : {"request"}, pc : {"lock", "check", "write"}, todo : SUBSET Units, arg : [items : ItemLists]]
GrantReads == UNION {[S -> Grant] : S \in SUBSET Files}
RevokingArgs == [ret : Rets, seen : GrantReads]
ApproveCalls == [op : {"approve"}, pc : {"lock", "check"}, todo : SUBSET Units, arg : [ret : Rets]]
                \cup [op : {"approve"}, pc : {"update"}, todo : {{}}, arg : RevokingArgs]
RefundCalls == [op : {"refund"}, pc : {"lock", "check"}, todo : SUBSET Units, arg : [ret : Rets]]
               \cup [op : {"refund"}, pc : {"update", "provider"}, todo : {{}}, arg : RevokingArgs]
ReceiveCalls == [op : {"receive"}, pc : {"row", "restock"}, todo : {{}}, arg : [ret : Rets]]
IssueCalls == [op : {"issue"}, pc : {"blocking"}, todo : {{}}, arg : [order : Orders]]
              \cup [op : {"issue"}, pc : {"insert"}, todo : {{}}, arg : [order : Orders, skip : SUBSET Files]]
RevokeCalls == [op : {"revoke"}, pc : {"update"}, todo : {{}}, arg : [seen : GrantReads]]
DeliverCalls == [op : {"deliver"}, pc : {"claim"}, todo : {{}}, arg : [file : Files]]
AdminCalls == [op : {"adminRefund"}, pc : {"provider", "save"}, todo : {{}}, arg : [order : Orders]]
Calls == {Idle} \cup BindCalls \cup RequestCalls \cup ApproveCalls \cup RefundCalls \cup ReceiveCalls
         \cup IssueCalls \cup DeliverCalls \cup RevokeCalls \cup AdminCalls

\* The rows, the locks and the calls have their types, and a return is one of
\* units that were bought.
TypeOK ==
    /\ bought \subseteq Units
    /\ ret \in [Rets -> [status : ReturnStatus, items : ItemLists, restocked : BOOLEAN]]
    /\ \A r \in Rets : Items(r) \subseteq bought
    /\ stock \in [Units -> Nat]
    /\ asg \in [Tickets -> Seq(Row)]
    /\ grant \in [Files -> Grant]
    /\ ulock \in [Units -> Callers \cup {Nobody}] /\ rlock \in [Rets -> Callers \cup {Nobody}]
    /\ call \in [Callers -> Calls]
    /\ faults \in 0..MaxFaults
    /\ paidEvents \in 0..MaxPaidEvents /\ reissues \in 0..MaxReissues
    /\ served \in [Files -> Nat] /\ allowed \in [Files -> Nat]
    /\ pay \in [Orders -> {"pending", "failed", "completed", "refunded"}]
    /\ provider \in [Orders -> [refunded : Nat, keys : SUBSET Nat]] /\ told \subseteq Rets

\* A card is never on its way back, or refunded, while a ticket that stays with
\* the customer is bound to it: a bind and a return that race are ordered by the
\* unit locks, and both look again once they hold them.  From its approval on, a
\* returned ticket is itself bound to nothing, whatever calls were under way.
ReturnedUnitsAreUnbound ==
    \A r \in Rets, t \in Tickets :
        /\ ret[r].status \in Blocking /\ Assigned(t) \cap Items(r) # {} => t \in Items(r)
        /\ ret[r].status \in {"approved", "received", "refunded"} /\ t \in Items(r) => Current(t) = 0

\* A payment is only marked refunded when the provider has paid all of it back:
\* neither part-refunds by returns nor an administrator's refund that the provider
\* refuses or that is lost on the way close it.
RefundedPaymentIsPaidBack ==
    \A o \in Orders : pay[o] = "refunded" => provider[o].refunded = Paid(o)

\* However many downloads of a file run at once, and whatever an operator
\* re-issues meanwhile, no more are delivered than its grant has allowed.
DeliveriesWithinLimit == \A f \in Files : served[f] <= allowed[f]

\* The units of a return come back to stock once, when it is received, and a
\* return takes no step but those of ReturnLifecycle.
Lifecycle == INSTANCE ReturnLifecycle WITH
    status <- [r \in Rets |-> ret[r].status],
    held <- [r \in Rets |-> [u \in Units |-> IF u \in Cards \cap Items(r) THEN ret[r].items[u] ELSE 0]],
    stock <- stock
ReturnsFollowLifecycle == Lifecycle!Spec

\* Every request is answered: no lock is lost and nobody waits forever.
EveryCallEnds == \A w \in Callers : ~Free(w) ~> Free(w)

\* A paid file that is not on its way back gets its grant, also when order.paid
\* was handled while a request that was rejected later kept it back.
PaidFileGetsGrant ==
    \A f \in Files :
        f \in bought /\ ~OnBlockingReturn(f) ~> grant[f].status # "none" \/ OnBlockingReturn(f) \/ faults > 0

------------------------------------------------------------------------------
(* What the documents say and the code does not keep *)

\* "Refund transitions received -> refunded and issues a provider refund"
\* (returns/service.go): when no refund is under way, the provider has paid back
\* what the returns whose Refund succeeded add up to.
RefundMovesMoney ==
    (\A w \in Callers : call[w].op # "refund") =>
        \A o \in Orders :
            SumFunction([r \in {r \in told : OrderOfReturn(r) = o} |-> Amount(ret[r].items)]) <= provider[o].refunded
==============================================================================
