------------------------------ MODULE MCCarts --------------------------------
(* Small instances of Carts for TLC. *)
EXTENDS Carts, TLC

CONSTANTS gc, hc, kc, va, vb

CartWith(owner, cur, vs, coupon) ==
    [owner |-> owner, cur |-> cur, items |-> [v \in Variants |-> IF v \in vs THEN 1 ELSE 0], ver |-> 1,
     merged |-> NoCart, coupon |-> coupon, mailed |-> FALSE]
Asking(ops) == [op \in Ops |-> IF op \in DOMAIN ops THEN ops[op] ELSE 0]
Start2(guest, other, own, ops) ==
    [rows |-> [c \in CartIds |-> CASE c = gc -> guest [] c = hc -> other [] c = kc -> own], ops |-> Asking(ops)]
Start(guest, own, ops) == Start2(guest, NoCart, own, ops)
Visitor(vs) == CartWith("guest", 1, vs, TRUE)

MCSetups == {
    \* A cart with lines of both is merged, and the claim repeated, while an edit runs.
    Start(Visitor({va, vb}), CartWith("customer", 1, {va}, FALSE), [claim |-> 2, remove |-> 1]),
    Start(Visitor({va}), CartWith("customer", 1, {va, vb}, FALSE), [claim |-> 2, describe |-> 1]),
    \* A customer without a cart: the visitor's is assigned, or one is created.
    Start(Visitor({va, vb}), NoCart, [claim |-> 2, add |-> 2]),
    \* Two currencies.
    Start(Visitor({va}), CartWith("customer", 2, {}, FALSE), [claim |-> 2, add |-> 1]),
    Start(Visitor({}), CartWith("customer", 2, {va}, TRUE), [claim |-> 2, update |-> 1, uncoupon |-> 1]),
    \* Recovery jobs beside an edit and a claim.
    Start(Visitor({va}), CartWith("customer", 1, {vb}, FALSE), [claim |-> 1, recover |-> 2, coupon |-> 1]),
    \* Two visitors turn out to be the same customer.
    Start2(Visitor({va}), Visitor({vb}), CartWith("customer", 1, {}, FALSE), [claim |-> 3]),
    Start2(Visitor({va}), Visitor({va}), NoCart, [claim |-> 3]) }
CallerSymmetry == Permutations(Callers)
==============================================================================
