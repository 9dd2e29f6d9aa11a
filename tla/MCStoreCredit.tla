---------------------------- MODULE MCStoreCredit ----------------------------
(* Small instances of StoreCredit for TLC. *)
EXTENDS StoreCredit, TLC

\* Calls, and currencies, are interchangeable.
Symmetry == Permutations(Calls) \cup Permutations(Currencies)
==============================================================================
