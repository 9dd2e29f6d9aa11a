----------------------------- MODULE MCDispatch ------------------------------
(* Values for the constants of Dispatch that a configuration cannot write.    *)
EXTENDS Dispatch

CONSTANTS c1, c2, w1, w2

MCJobs == {Shipped, Paid} \cup (Endpoints \X (1..MaxPaid))

\* Two requests change a shipment, of a guest without an address; one reports a
\* shipment again and again; a payment is published to two endpoints.
MCSetups ==
    { [topics |-> {Shipped}, callers |-> {c1, c2}, workers |-> {}, recipient |-> FALSE],
      [topics |-> {Shipped}, callers |-> {c1}, workers |-> {w1, w2}, recipient |-> TRUE],
      [topics |-> {Paid}, callers |-> {c1}, workers |-> {w1, w2}, recipient |-> FALSE] }
==============================================================================
