---------------------------- MODULE Assignments ------------------------------
(***************************************************************************)
(* Binding tickets to cards (internal/application/assignment): the purchase *)
(* that names a card or defers it, the customer's and the operator's bind   *)
(* afterwards, and the operator's revoke.  A bind reads the open returns    *)
(* and the current row, then takes the unit locks, looks for open returns   *)
(* again, and writes.  Eligibility of a product for a parent and the force  *)
(* reason of an operator are catalogue and audit data, left out.            *)
(***************************************************************************)
EXTENDS UnitRows

BindOps == {"assign", "purchase"}

\* AssignOwned needs two units the customer owns, AdminAssign (force) does not
\* ask who owns them.  A live assigned row is a conflict.  The current row is
\* remembered by its id, here its place; 0 stands for no row.
Assign(w, t, c, paid) ==
    /\ Free(w)
    /\ {t, c} \subseteq bought /\ paid
    /\ ~OnBlockingReturn(t) /\ ~OnBlockingReturn(c)
    /\ Assigned(t) = {}
    /\ Start(w, "assign", {t, c}, [child |-> t, parent |-> c, row |-> Current(t)])
    /\ UNCHANGED <<bought, ret, stock, asg, grant, locks, faults>>

\* A checkout creates its order, and nobody else does.
NotOrdered(t) ==
    /\ \A u \in bought : OrderOf[u] # OrderOf[t]
    /\ \A x \in Callers : call[x].op = "purchase" => OrderOf[Arg(x).child] # OrderOf[t]

\* The checkout of an order whose ticket names a card bought before.
Purchase(w, t, c, paid) ==
    /\ Free(w)
    /\ NotOrdered(t) /\ c \in bought /\ paid
    /\ ~OnBlockingReturn(c)
    /\ Start(w, "purchase", {t, c}, [child |-> t, parent |-> c, row |-> 0])
    /\ UNCHANGED <<bought, ret, stock, asg, grant, locks, faults>>

\* The checkout of an order whose ticket is bound later: no lock.
PurchaseDeferred(t) ==
    /\ NotOrdered(t)
    /\ bought' = bought \cup {t}
    /\ asg' = [asg EXCEPT ![t] = Append(@, Unbound)]
    /\ UNCHANGED <<ret, stock, grant, locks, call, faults>>

\* Mutant: the open returns are not looked for again under the locks.
BindUnchecked(t, c) == TRUE

\* runAssignedWrite, under the locks.
MayBind(t, c) == ~OnBlockingReturn(t) /\ ~OnBlockingReturn(c)

BindCheck(w) ==
    LET a == Arg(w) IN
    /\ call[w].op \in BindOps /\ call[w].pc = "check"
    /\ IF MayBind(a.child, a.parent) THEN Goto(w, "write") /\ UNCHANGED locks ELSE End(w)
    /\ UNCHANGED <<bought, ret, stock, asg, grant, faults>>

\* requireNoCurrent, and the unique index behind it.
MayCreate(t) == Current(t) = 0

\* Assign of the remembered row while it is unassigned, or a new row while the
\* ticket has none; otherwise the call ends with a conflict.
BindWrite(w) ==
    LET a == Arg(w)
        t == a.child
        bind == IF a.row # 0 THEN asg[t][a.row] = Unbound ELSE MayCreate(t)
        rows == IF a.row # 0 THEN [asg[t] EXCEPT ![a.row] = Bound(a.parent)] ELSE Append(asg[t], Bound(a.parent))
    IN
    /\ call[w].op \in BindOps /\ call[w].pc = "write"
    /\ asg' = IF bind THEN [asg EXCEPT ![t] = rows] ELSE asg
    /\ bought' = bought \cup {t}
    /\ End(w)
    /\ UNCHANGED <<ret, stock, grant, faults>>

\* The operator's Service.Revoke: a conditional update, without the unit locks.
AdminRevoke(t) ==
    /\ Current(t) # 0 /\ Len(asg[t]) < MaxRows
    /\ asg' = Revoked({t})
    /\ UNCHANGED <<bought, ret, stock, grant, locks, call, faults>>
==============================================================================
