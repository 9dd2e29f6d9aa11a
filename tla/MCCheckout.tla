----------------------------- MODULE MCCheckout ------------------------------
(* Small instances of Checkout for TLC. *)
EXTENDS Checkout

CONSTANTS a1, a2, c1, c2, v1, v2

\* One unit of a variant is missing for two attempts.
ScarceStock == [v \in Variants |-> IF v = v1 THEN 1 ELSE 2]
AmpleStock == [v \in Variants |-> 2]

OneCart == [a \in Attempts |-> c1]
TwoCarts == [a \in Attempts |-> IF a = a1 THEN c1 ELSE c2]
==============================================================================
