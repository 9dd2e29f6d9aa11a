--------------------------- MODULE ReturnLifecycle ---------------------------
(***************************************************************************)
(* What a return promises the merchant, without requests, transactions or   *)
(* locks: a return moves along requested, approved, received, refunded, or  *)
(* is closed while it is only requested; its units come back to the stock   *)
(* exactly when it is received, once.                                       *)
(***************************************************************************)
EXTENDS Integers

CONSTANTS Rets, Units

VARIABLES status, held, stock     \* held: units of each return that go back on the shelf

vars == <<status, held, stock>>

Init ==
    /\ status = [r \in Rets |-> "absent"]
    /\ held = [r \in Rets |-> [u \in Units |-> 0]]
    /\ stock = [u \in Units |-> 0]

Open(r) ==
    /\ status[r] = "absent"
    /\ status' = [status EXCEPT ![r] = "requested"]
    /\ held'[r] \in [Units -> Nat] /\ held' = [held EXCEPT ![r] = held'[r]]
    /\ UNCHANGED stock

Move(r, from, to) ==
    /\ status[r] = from
    /\ status' = [status EXCEPT ![r] = to]
    /\ UNCHANGED <<held, stock>>

Receive(r) ==
    /\ status[r] = "approved"
    /\ status' = [status EXCEPT ![r] = "received"]
    /\ stock' = [u \in Units |-> stock[u] + held[r][u]]
    /\ UNCHANGED held

Next ==
    \E r \in Rets :
        \/ Open(r) \/ Receive(r)
        \/ Move(r, "requested", "approved") \/ Move(r, "requested", "rejected")
        \/ Move(r, "requested", "cancelled") \/ Move(r, "received", "refunded")

Spec == Init /\ [][Next]_vars
==============================================================================
