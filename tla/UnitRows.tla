------------------------------ MODULE UnitRows -------------------------------
(***************************************************************************)
(* What the services that act on a sale after checkout share: the rows of   *)
(* returns (order_returns), assignments (product_assignments) and download  *)
(* grants (download_grants), the advisory locks on product units that       *)
(* assignments and returns take in the same order                           *)
(* (assignment.LockAssignmentUnits), and the calls in progress.             *)
(*                                                                          *)
(* A unit is a line of an order.  Cards are parents, tickets are children   *)
(* that an assignment binds to a card, files are downloadable lines.  A     *)
(* call reads outside its transaction, then locks, checks again, and writes *)
(* and commits in one step; every other call may run in between.            *)
(***************************************************************************)
EXTENDS Integers, Sequences, FiniteSets, Functions

CONSTANTS
    Cards, Tickets, Files,  \* the units, by kind
    OrderOf,                \* the order each unit is a line of
    Rank,                   \* the sort order of the unit ids
    Ordered,                \* order_items.quantity of each unit
    Baskets,                \* the units a customer may have bought before any call
    Rets,                   \* ids of returns
    Callers,                \* requests served at the same time
    Nobody,                 \* no caller, no unit
    MaxRows,                \* bound: assignment rows of a ticket
    MaxFaults               \* bound: calls that fail and processes that die

Units == Cards \cup Tickets \cup Files
Orders == {OrderOf[u] : u \in Units}

ASSUME UnitAssumption ==
    /\ Cards \cap Tickets = {} /\ Cards \cap Files = {} /\ Tickets \cap Files = {}
    /\ Rank \in [Units -> Nat] /\ \A u, v \in Units : Rank[u] = Rank[v] => u = v
    /\ DOMAIN OrderOf = Units /\ Ordered \in [Units -> Nat \ {0}]
    /\ Baskets \subseteq SUBSET Units
    /\ Nobody \notin Callers \cup Units
    /\ MaxRows \in Nat /\ MaxFaults \in Nat
    /\ IsFiniteSet(Units)

VARIABLES
    bought,   \* units of orders that exist
    ret,      \* order_returns: status, items, restocked_at
    stock,    \* stock.quantity of each unit's variant, counted from the sale
    asg,      \* product_assignments of each ticket, in the order of their creation
    grant,    \* download_grants of each file
    ulock,    \* who holds the advisory lock of each unit
    rlock,    \* who holds the row lock of each return
    call,     \* what each caller is doing
    faults

locks == <<ulock, rlock>>

------------------------------------------------------------------------------
(* Rows *)

ReturnStatus == {"absent", "requested", "approved", "received", "refunded", "rejected", "cancelled"}

\* Neither IsTerminal nor absent, or refunded: what UnitsOnBlockingReturn and
\* validateReturnQuantities count.
Blocking == {"requested", "approved", "received", "refunded"}

Items(r) == DOMAIN ret[r].items
OnBlockingReturn(u) == \E r \in Rets : ret[r].status \in Blocking /\ u \in Items(r)

\* Units of an order already on its way back.
Returned(u) ==
    SumFunction([r \in {r \in Rets : ret[r].status \in Blocking /\ u \in Items(r)} |-> ret[r].items[u]])

Row == [status : {"unassigned", "assigned", "revoked"}, parent : Cards \cup {Nobody}]
Bound(c) == [status |-> "assigned", parent |-> c]
Unbound == [status |-> "unassigned", parent |-> Nobody]

LastRow(t) == asg[t][Len(asg[t])]

\* FindCurrentByChildID: the row that is not revoked.  The partial unique index
\* product_assignments_child_current lets only the newest row be that.
Current(t) == IF asg[t] # <<>> /\ LastRow(t).status # "revoked" THEN Len(asg[t]) ELSE 0
Assigned(t) == {c \in Cards : Current(t) # 0 /\ LastRow(t) = Bound(c)}

\* Assignment rows with the current row of the tickets of S revoked.
Revoked(S) ==
    [t \in Tickets |-> IF t \in S /\ Current(t) # 0 THEN [asg[t] EXCEPT ![Current(t)].status = "revoked"] ELSE asg[t]]

\* AssertParentReturnable for every unit of S: a card goes back only with the
\* tickets bound to it.
ParentsReturnable(S) == \A t \in Tickets : Assigned(t) \cap S # {} => t \in S

------------------------------------------------------------------------------
(* Calls *)

Idle == [op |-> "idle"]
Free(w) == call[w] = Idle
At(w, op, pc) == call[w].op = op /\ call[w].pc = pc
Arg(w) == call[w].arg
Goto(w, pc) == call' = [call EXCEPT ![w].pc = pc]

\* A call that has passed its first checks and wants the locks of the units S.
Start(w, op, S, arg) == call' = [call EXCEPT ![w] = [op |-> op, pc |-> "lock", todo |-> S, arg |-> arg]]
StartAt(w, op, pc, arg) == call' = [call EXCEPT ![w] = [op |-> op, pc |-> pc, todo |-> {}, arg |-> arg]]

\* The transaction commits or rolls back: its locks are gone.
Unlock(w) ==
    /\ ulock' = [u \in Units |-> IF ulock[u] = w THEN Nobody ELSE ulock[u]]
    /\ rlock' = [r \in Rets |-> IF rlock[r] = w THEN Nobody ELSE rlock[r]]
Answer(w) == call' = [call EXCEPT ![w] = Idle]
End(w) == Unlock(w) /\ Answer(w)

Fault == faults < MaxFaults /\ faults' = faults + 1
NoFault == UNCHANGED faults

\* Mutant: the locks are taken in the order the call names the units.
AnyOf(S) == S

\* LockAssignmentUnits sorts the keys.
NextLocks(S) == {u \in S : \A v \in S : Rank[u] <= Rank[v]}

LockUnit(w) ==
    /\ ~Free(w) /\ call[w].pc = "lock" /\ call[w].todo # {}
    /\ \E u \in NextLocks(call[w].todo) :
          /\ ulock[u] = Nobody
          /\ ulock' = [ulock EXCEPT ![u] = w]
          /\ call' = [call EXCEPT ![w].todo = @ \ {u}, ![w].pc = IF call[w].todo = {u} THEN "check" ELSE "lock"]
    /\ UNCHANGED <<bought, ret, stock, asg, grant, rlock, faults>>

\* The connection is lost or the process dies before the commit: everything the
\* call has not committed is undone.
Die(w) ==
    /\ ~Free(w)
    /\ Fault
    /\ End(w)
    /\ UNCHANGED <<bought, ret, stock, asg, grant>>
==============================================================================
