----------------------------- MODULE MCReturns -------------------------------
(* Small instances of Returns for TLC. *)
EXTENDS Returns, TLC

CONSTANTS card, pass, ticket, file, o1, o2

\* A customer has a card and a ticket from one order, or a card from an order of
\* its own and buys the ticket later, or a file.
OrderOfUnit == [u \in Units |-> IF u = pass THEN o2 ELSE o1]
UnitRank == [u \in Units |-> CASE u = card -> 1 [] u = pass -> 2 [] u = ticket -> 3 [] u = file -> 4]
AllBaskets == {{card, ticket}, {pass}, {file}}
OneEach == [u \in Units |-> 1]
CallerSymmetry == Permutations(Callers)

\* Two cards of the same price in one order.
TwoCards == {{card}}
TwoEach == [u \in Units |-> 2]
==============================================================================
